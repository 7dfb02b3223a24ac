-------------------------------- MODULE MonkeyVM ---------------------------------
(***************************************************************************)
(* monkey/src/vm.c: the virtual machine that runs the byte code of         *)
(* MonkeyCompiler, one action per instruction of vm_run().                 *)
(*                                                                         *)
(* The stack holds what expressions leave, and of each function that is    *)
(* running its arguments and other local variables, which begin at its     *)
(* frame's base_pointer.  Nothing is checked at run time but the types of  *)
(* operands: that the stack has what an instruction takes from it, and     *)
(* that jumps lead somewhere, rests on the compiler.                       *)
(***************************************************************************)
EXTENDS MonkeyParser, MonkeyCompiler, MonkeyEval

CONSTANTS
    Programs,    (* the programs that are compiled and run, a sequence   *)
    MaxStack     (* bound: entries of the stack, which grows in the code *)

ASSUME VMAssumption == MaxStack \in Nat

(* The programs as the parser reads them from a text with all semicolons,  *)
(* and from one without those that are optional; and the byte code, which  *)
(* is made of what the parser should have read (ParserAgrees).             *)
Parsed == [i \in DOMAIN Programs |-> ParseProgram(BlockText(Programs[i], TRUE))]
Terse  == [i \in DOMAIN Programs |-> ParseProgram(BlockText(Programs[i], FALSE))]
Images == [i \in DOMAIN Programs |-> CompileProgram(Programs[i])]

MAIN == -1

VARIABLES
    prog,        (* the program's place in Programs                      *)
    image,       (* its byte code                                        *)
    at,          (* "run", "halted" or "failed"                          *)
    frames,      (* [fn, ip, base], the running one last; fn is the      *)
                 (* index of a constant or MAIN                          *)
    stack, sp, globals

vars == <<prog, image, at, frames, stack, sp, globals>>

Frame == frames[Len(frames)]

CodeOf(fn) == IF fn = MAIN THEN image.ins ELSE image.consts[fn + 1].ins
Code == CodeOf(Frame.fn)

(* The operand of the current instruction.                                 *)
Arg == Code[Frame.ip + 2].arg

Init ==
    /\ prog \in DOMAIN Programs
    /\ image = Images[prog]
    /\ at = IF image.err THEN "failed" ELSE "run"
    /\ frames = <<[fn |-> MAIN, ip |-> 0, base |-> 0]>>
    /\ stack = [i \in 0 .. MaxStack - 1 |-> Null]
    /\ sp = 0
    /\ globals = [i \in 0 .. Len(image.names) - 1 |-> Null]

--------------------------------------------------------------------------------
At(op) == at = "run" /\ Code[Frame.ip + 1].op = op

(* The frames with the running one's instruction pointer moved on.         *)
Ip(n)   == [frames EXCEPT ![Len(frames)].ip = n]
Next1   == Frame.ip + 1
After(op) == Frame.ip + 1 + OperandWidth(op)

Push(v) == stack' = [stack EXCEPT ![sp] = v] /\ sp' = sp + 1
Top     == stack[sp - 1]

(* A function is on the stack by its constant's index.                     *)
Constant(i) ==
    LET c == image.consts[i + 1]
    IN  IF c.t = "fn" THEN [t |-> "fn", n |-> i] ELSE c

Const ==
    /\ At("CONST")
    /\ Push(Constant(Arg)) /\ frames' = Ip(After("CONST"))
    /\ UNCHANGED <<prog, image, at, globals>>

Pop ==
    /\ At("POP")
    /\ sp' = sp - 1 /\ frames' = Ip(Next1)
    /\ UNCHANGED <<prog, image, at, stack, globals>>

Literal ==
    /\ \/ At("TRUE") /\ Push(Truth(TRUE))
       \/ At("FALSE") /\ Push(Truth(FALSE))
       \/ At("NULL") /\ Push(Null)
    /\ frames' = Ip(Next1)
    /\ UNCHANGED <<prog, image, at, globals>>

Jump ==
    /\ At("JUMP")
    /\ frames' = Ip(Arg)
    /\ UNCHANGED <<prog, image, at, stack, sp, globals>>

JumpNotTrue ==
    /\ At("JUMP_NOT_TRUE")
    /\ sp' = sp - 1
    /\ frames' = Ip(IF IsTrue(Top) THEN After("JUMP_NOT_TRUE") ELSE Arg)
    /\ UNCHANGED <<prog, image, at, stack, globals>>

SetGlobal ==
    /\ At("SET_GLOBAL")
    /\ globals' = [globals EXCEPT ![Arg] = Top]
    /\ sp' = sp - 1 /\ frames' = Ip(After("SET_GLOBAL"))
    /\ UNCHANGED <<prog, image, at, stack>>

GetGlobal ==
    /\ At("GET_GLOBAL")
    /\ Push(globals[Arg]) /\ frames' = Ip(After("GET_GLOBAL"))
    /\ UNCHANGED <<prog, image, at, globals>>

SetLocal ==
    /\ At("SET_LOCAL")
    /\ stack' = [stack EXCEPT ![Frame.base + Arg] = Top]
    /\ sp' = sp - 1 /\ frames' = Ip(After("SET_LOCAL"))
    /\ UNCHANGED <<prog, image, at, globals>>

GetLocal ==
    /\ At("GET_LOCAL")
    /\ Push(stack[Frame.base + Arg]) /\ frames' = Ip(After("GET_LOCAL"))
    /\ UNCHANGED <<prog, image, at, globals>>

(* The right operand is popped and the left one overwritten with the       *)
(* result.  (Division and remainder are commented out in vm.c: they leave  *)
(* the left operand.)                                                      *)
Computed(op, l, r) == IF op \in {"DIVIDE", "MODULO"} THEN l ELSE Apply(op, l, r)

Fits(op, l, r) ==
    /\ l.t = r.t
    /\ \/ l.t = "int" /\ op \notin Logic
       \/ l.t = "bool" /\ op \in Logic \cup {"EQUAL", "NOT_EQUAL"}

Binary(op) ==
    /\ At(op)
    /\ IF Fits(op, stack[sp - 2], Top)
       THEN /\ stack' = [stack EXCEPT ![sp - 2] = Computed(op, stack[sp - 2], Top)]
            /\ sp' = sp - 1 /\ frames' = Ip(Next1)
            /\ UNCHANGED at
       ELSE at' = "failed" /\ UNCHANGED <<stack, sp, frames>>
    /\ UNCHANGED <<prog, image, globals>>

(* -x does not look at the type of x.                                      *)
Unary ==
    /\ \/ At("BANG") /\ stack' = [stack EXCEPT ![sp - 1] = Not(@)]
       \/ At("MINUS") /\ stack' = [stack EXCEPT ![sp - 1].n = -@]
    /\ frames' = Ip(Next1)
    /\ UNCHANGED <<prog, image, at, sp, globals>>

(* The caller's instruction pointer stays on the operand of its call.      *)
CallFunction ==
    LET callee == stack[sp - 1 - Arg]
    IN  /\ At("CALL")
        /\ IF callee.t = "fn"
           THEN /\ frames' = Append(Ip(Next1), [fn |-> callee.n, ip |-> 0, base |-> sp - Arg])
                /\ sp' = sp - Arg + image.consts[callee.n + 1].locals
                /\ UNCHANGED at
           ELSE at' = "failed" /\ UNCHANGED <<frames, sp>>
        /\ UNCHANGED <<prog, image, stack, globals>>

(* The frame's locals and the function itself leave the stack, the result  *)
(* takes their place.                                                      *)
Returns(v) ==
    /\ stack' = [stack EXCEPT ![Frame.base - 1] = v]
    /\ sp' = Frame.base
    /\ frames' = [Front(frames) EXCEPT ![Len(frames) - 1].ip = @ + 1]
    /\ UNCHANGED <<prog, image, at, globals>>

FunctionReturns ==
    \/ At("RETURN_VALUE") /\ Returns(Top)
    \/ At("RETURN") /\ Returns(Null)

Halt ==
    /\ At("HALT")
    /\ at' = "halted"
    /\ UNCHANGED <<prog, image, frames, stack, sp, globals>>

Next ==
    \/ Const \/ Pop \/ Literal \/ Jump \/ JumpNotTrue
    \/ SetGlobal \/ GetGlobal \/ SetLocal \/ GetLocal
    \/ \E op \in Arithmetic \cup Logic \cup Comparisons : Binary(op)
    \/ Unary \/ CallFunction \/ FunctionReturns \/ Halt

Spec == Init /\ [][Next]_vars

(* Nothing stops the machine but its own program.                          *)
FairSpec == Spec /\ WF_vars(Next)

--------------------------------------------------------------------------------
(* Properties.                                                             *)

Values == [t : {"int", "bool", "null", "fn"}, n : Int]

(* Every variable keeps its type, and the stack stays in the room the run  *)
(* gives it.                                                               *)
TypeOK ==
    /\ prog \in DOMAIN Programs
    /\ at \in {"run", "halted", "failed"}
    /\ \A i \in DOMAIN frames :
          /\ frames[i].fn = MAIN \/ frames[i].fn + 1 \in DOMAIN image.consts
          /\ frames[i].ip \in 0 .. Len(CodeOf(frames[i].fn)) - 1
          /\ frames[i].base \in 0 .. sp
    /\ \A i \in DOMAIN stack : stack[i] \in Values
    /\ \A i \in DOMAIN globals : globals[i] \in Values
    /\ sp \in 0 .. MaxStack

(* The parser builds the program it was meant to read, with or without the *)
(* optional semicolons: operators group by precedence and to the left, an  *)
(* assignment and a prefix take what they should, and blocks, headers and  *)
(* else-if chains end where they end (parser.c:400-480, 537-640).          *)
ParserAgrees ==
    /\ Parsed[prog].p.ok /\ Parsed[prog].e = Programs[prog]
    /\ Terse[prog].p.ok /\ Terse[prog].e = Programs[prog]

(* Positions of the instructions of code.                                  *)
Starts(code) == {i - 1 : i \in {k \in DOMAIN code : code[k].op # ""}}

(* Every jump the compiler has left in code leads to an instruction of the *)
(* same function: no placeholder remains (compiler.c:258-263, 363-383 and  *)
(* 478-560), though the positions go through removed and replaced          *)
(* instructions.                                                           *)
JumpsLand ==
    \A fn \in {MAIN} \cup {k - 1 : k \in {i \in DOMAIN image.consts :
                                              image.consts[i].t = "fn"}} :
        LET code == CodeOf(fn)
        IN  \A p \in Starts(code) :
                code[p + 1].op \in {"JUMP", "JUMP_NOT_TRUE"} =>
                    code[p + 2].arg \in Starts(code)

(* How many entries the current instruction takes from the stack.          *)
Takes ==
    LET op == Code[Frame.ip + 1].op
    IN  CASE op \in {"POP", "JUMP_NOT_TRUE", "SET_GLOBAL", "SET_LOCAL", "RETURN_VALUE",
                     "BANG", "MINUS"} -> 1
          [] op \in Arithmetic \cup Logic \cup Comparisons -> 2
          [] op = "CALL" -> Arg + 1
          [] OTHER -> 0

Locals == IF Frame.fn = MAIN THEN 0 ELSE image.consts[Frame.fn + 1].locals

(* An instruction finds its operands above the local variables of its own  *)
(* function, whichever way control got there, and a program leaves nothing *)
(* behind: branches, loops, breaks and returns all keep the balance        *)
(* (compiler.c:211-239, 349-394 and 466-560, vm.c:555-571).  With the      *)
(* types of the state.                                                     *)
StackBalanced ==
    /\ TypeOK
    /\ at = "run" => sp - Takes >= Frame.base + Locals
    /\ at = "halted" => sp = 0

(* A program ends with the variables the language gives it, and the value  *)
(* of its last statement is the one last popped.                           *)
Same(v, w) == v.t = w.t /\ (v.t # "fn" => v.n = w.n)

ValueAgrees ==
    at = "halted" =>
        LET names == image.names
            meant == Meaning(Programs[prog])
        IN  /\ \A i \in DOMAIN names :
                  names[i] \in DOMAIN meant.env.globals =>
                      Same(globals[i - 1], meant.env.globals[names[i]])
            /\ Last(Programs[prog]).s = "expr" => Same(stack[sp], meant.v)

(* Every program whose variables are defined comes to its end, without a   *)
(* type error.                                                             *)
Halts == <>(at = "halted" \/ image.err)
================================================================================
