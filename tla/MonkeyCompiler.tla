----------------------------- MODULE MonkeyCompiler ------------------------------
(***************************************************************************)
(* monkey/src/compiler.c and symbol_table.c: a program becomes byte code.  *)
(*                                                                         *)
(* Code is a sequence of cells, one per byte: an instruction's opcode, the *)
(* whole of its operand in the byte behind that, and nothing in the last   *)
(* byte of a two-byte operand.  Positions and the operands of jumps are    *)
(* byte positions, counted from 0 as in the code.                          *)
(*                                                                         *)
(* The compiler's state is a record:                                       *)
(*    ins, last, prev  instructions of the current scope, and the last two *)
(*                     emitted as the code remembers them                  *)
(*    outer            the scopes around it                                *)
(*    tabs             symbol tables, outermost first: names in the order  *)
(*                     of their indices                                    *)
(*    consts, err                                                          *)
(***************************************************************************)
EXTENDS MonkeyAst, SequencesExt

CONSTANTS JUMP_PLACEHOLDER_BREAK, JUMP_PLACEHOLDER_CONTINUE

ASSUME CompilerAssumption ==
    /\ JUMP_PLACEHOLDER_BREAK \in Nat /\ JUMP_PLACEHOLDER_CONTINUE \in Nat
    /\ JUMP_PLACEHOLDER_BREAK # JUMP_PLACEHOLDER_CONTINUE

(* Bytes of an instruction's operand.                                      *)
OperandWidth(op) ==
    CASE op \in {"CONST", "JUMP", "JUMP_NOT_TRUE", "GET_GLOBAL", "SET_GLOBAL"} -> 2
      [] op \in {"CALL", "GET_LOCAL", "SET_LOCAL"} -> 1
      [] OTHER -> 0

Opcode(op) == [op |-> op, arg |-> 0]
Operand(n) == [op |-> "", arg |-> n]

Instruction(op, n) ==
    <<Opcode(op)>> \o [i \in 1 .. OperandWidth(op) |-> Operand(IF i = 1 THEN n ELSE 0)]

Unset == [op |-> "", pos |-> 0]

CompilerNew ==
    [ins |-> <<>>, last |-> Unset, prev |-> Unset, outer |-> <<>>, tabs |-> << <<>> >>,
     consts |-> <<>>, err |-> FALSE]

Size(c) == Len(c.ins)

Emit(c, op, n) ==
    [c EXCEPT !.ins = @ \o Instruction(op, n),
              !.prev = c.last,
              !.last = [op |-> op, pos |-> Size(c)]]

LastIs(c, op) == Size(c) > 0 /\ c.last.op = op

RemoveLast(c) == [c EXCEPT !.ins = SubSeq(@, 1, c.last.pos), !.last = c.prev]

(* The operand of the instruction at a position.                           *)
ChangeOperand(c, pos, n) == [c EXCEPT !.ins[pos + 2].arg = n]

IsJumpTo(c, pos, n) == c.ins[pos + 1].op = "JUMP" /\ c.ins[pos + 2].arg = n

(* The code steps from instruction to instruction between two positions;   *)
(* here all positions between them are looked at.                          *)
ChangePlaceholders(c, from, to, placeholder, n) ==
    [c EXCEPT !.ins = [i \in DOMAIN @ |->
        IF i - 2 \in from .. to - 1 /\ IsJumpTo(c, i - 2, placeholder) THEN Operand(n)
        ELSE @[i]]]

--------------------------------------------------------------------------------
(* Symbols.  A name that an enclosing table has is not defined again.      *)

Tables(c, name) == {t \in DOMAIN c.tabs : \E i \in DOMAIN c.tabs[t] : c.tabs[t][i] = name}

Define(c, name) ==
    IF Tables(c, name) # {} THEN c
    ELSE [c EXCEPT !.tabs[Len(c.tabs)] = Append(@, name)]

Symbol(c, name) ==
    LET t == CHOOSE t \in Tables(c, name) : \A u \in Tables(c, name) : u <= t
        i == CHOOSE i \in DOMAIN c.tabs[t] : c.tabs[t][i] = name
    IN  [scope |-> IF t = 1 THEN "GLOBAL" ELSE "LOCAL", index |-> i - 1]

SetOp(sym) == IF sym.scope = "GLOBAL" THEN "SET_GLOBAL" ELSE "SET_LOCAL"
GetOp(sym) == IF sym.scope = "GLOBAL" THEN "GET_GLOBAL" ELSE "GET_LOCAL"

EnterScope(c) ==
    [c EXCEPT !.outer = Append(@, [ins |-> c.ins, last |-> c.last, prev |-> c.prev]),
              !.ins = <<>>, !.last = Unset, !.prev = Unset,
              !.tabs = Append(@, <<>>)]

(* A bug: the local variables are counted once the scope is left.          *)
LeaveScopeFirst(c) ==
    LET scope == Last(c.outer)
        tabs == Front(c.tabs)
        f == [t |-> "fn", ins |-> c.ins, locals |-> Len(Last(tabs))]
    IN  [c EXCEPT !.ins = scope.ins, !.last = scope.last, !.prev = scope.prev,
                  !.outer = Front(@), !.tabs = tabs,
                  !.consts = Append(@, f)]

(* The scope's instructions are a constant of the scope around it.         *)
LeaveScope(c) ==
    LET f == [t |-> "fn", ins |-> c.ins, locals |-> Len(Last(c.tabs))]
        scope == Last(c.outer)
    IN  [c EXCEPT !.ins = scope.ins, !.last = scope.last, !.prev = scope.prev,
                  !.outer = Front(@), !.tabs = Front(@),
                  !.consts = Append(@, f)]

EmitConst(c) == Emit(c, "CONST", Len(c.consts) - 1)

--------------------------------------------------------------------------------
RECURSIVE CompileStatement(_, _), CompileExpression(_, _)

CompileBlock(c, block) == FoldLeft(CompileStatement, c, block)

CompileStatement(c, stmt) ==
    CASE stmt.s = "expr" -> Emit(CompileExpression(c, stmt.value), "POP", 0)
      [] stmt.s = "empty" -> c
      [] stmt.s = "let" ->
            LET d == Define(c, stmt.name)
                sym == Symbol(d, stmt.name)
            IN  Emit(CompileExpression(d, stmt.value), SetOp(sym), sym.index)
      [] stmt.s = "return" -> Emit(CompileExpression(c, stmt.value), "RETURN_VALUE", 0)
      [] stmt.s = "break" -> Emit(Emit(c, "NULL", 0), "JUMP", JUMP_PLACEHOLDER_BREAK)
      [] stmt.s = "continue" -> Emit(Emit(c, "NULL", 0), "JUMP", JUMP_PLACEHOLDER_CONTINUE)

(* A block as an expression: its last value stays on the stack.            *)
LeaveValue(c) == IF LastIs(c, "POP") THEN RemoveLast(c) ELSE c

CompileIf(c, e) ==
    LET cond == CompileExpression(c, e.cond)
        skip == Emit(cond, "JUMP_NOT_TRUE", JUMP_PLACEHOLDER_BREAK)
        then == LeaveValue(CompileBlock(skip, e.then))
        over == Emit(then, "JUMP", JUMP_PLACEHOLDER_BREAK)
        alt  == ChangeOperand(over, Size(cond), Size(over))
        done == IF e.alt # <<>> THEN LeaveValue(CompileBlock(alt, e.alt[1]))
                ELSE Emit(alt, "NULL", 0)
    IN  ChangeOperand(done, Size(then), Size(done))

(* A bug: the null that stands for the value of a loop without a turn is   *)
(* left out.                                                               *)
LoopEntryBare(c) == c

(* Before the first turn.                                                  *)
LoopEntry(c) == Emit(c, "NULL", 0)

(* After a turn.                                                           *)
LoopValue(c) == IF LastIs(c, "POP") THEN RemoveLast(c) ELSE Emit(c, "NULL", 0)

(* A bug: the jumps of continue statements keep their placeholders.        *)
PatchLoopBreakOnly(c, from, to, after, again) ==
    ChangePlaceholders(c, from, to, JUMP_PLACEHOLDER_BREAK, after)

(* The jumps of break and continue statements in a loop's body.            *)
PatchLoop(c, from, to, after, again) ==
    ChangePlaceholders(ChangePlaceholders(c, from, to, JUMP_PLACEHOLDER_BREAK, after),
                       from, to, JUMP_PLACEHOLDER_CONTINUE, again)

CompileWhile(c, e) ==
    LET entry == LoopEntry(c)
        cond  == CompileExpression(entry, e.cond)
        start == Emit(Emit(cond, "JUMP_NOT_TRUE", JUMP_PLACEHOLDER_BREAK), "POP", 0)
        body  == CompileBlock(start, e.body)
        back  == Emit(LoopValue(body), "JUMP", Size(entry))
        exit  == ChangeOperand(back, Size(cond), Size(back))
    IN  PatchLoop(exit, Size(start), Size(body), Size(back), Size(entry))

(* A bug: continue goes to the condition.                                  *)
ContinueAtCond(entry, value) == Size(entry)

(* Where continue goes in a for loop: to its increment.                    *)
ContinueAt(entry, value) == Size(value)

(* (A loop without a condition has no test.)                               *)
CompileFor(c, e) ==
    LET entry == CompileStatement(LoopEntry(c), e.init)
        cond  == IF e.cond = Empty THEN entry ELSE CompileExpression(entry, e.cond)
        test  == IF e.cond = Empty THEN cond
                 ELSE Emit(cond, "JUMP_NOT_TRUE", JUMP_PLACEHOLDER_BREAK)
        start == Emit(test, "POP", 0)
        body  == CompileBlock(start, e.body)
        value == LoopValue(body)
        back  == Emit(CompileStatement(value, e.inc), "JUMP", Size(entry))
        exit  == IF e.cond = Empty THEN back ELSE ChangeOperand(back, Size(cond), Size(back))
    IN  PatchLoop(exit, Size(start), Size(body), Size(back), ContinueAt(entry, value))

(* The end of a function's body.                                           *)
FunctionEnd(c) ==
    CASE LastIs(c, "POP") ->
            [c EXCEPT !.ins[c.last.pos + 1] = Opcode("RETURN_VALUE"),
                      !.prev = c.last,
                      !.last = [op |-> "RETURN_VALUE", pos |-> c.last.pos]]
      [] ~LastIs(c, "POP") /\ LastIs(c, "RETURN_VALUE") -> c
      [] OTHER -> Emit(c, "RETURN", 0)

CompileFunction(c, e) ==
    LET params == FoldLeft(Define, EnterScope(c), e.params)
    IN  EmitConst(LeaveScope(FunctionEnd(CompileBlock(params, e.body))))

CompileExpression(c, e) ==
    CASE e.x = "int" ->
            EmitConst([c EXCEPT !.consts = Append(@, [t |-> "int", n |-> e.n])])
      [] e.x = "bool" -> Emit(c, IF e.b THEN "TRUE" ELSE "FALSE", 0)
      [] e.x = "ident" ->
            IF Tables(c, e.name) = {} THEN [c EXCEPT !.err = TRUE]
            ELSE Emit(c, GetOp(Symbol(c, e.name)), Symbol(c, e.name).index)
      [] e.x = "infix" ->
            Emit(CompileExpression(CompileExpression(c, e.left), e.right), e.op, 0)
      [] e.x = "prefix" -> Emit(CompileExpression(c, e.right), e.op, 0)
      [] e.x = "if" -> CompileIf(c, e)
      [] e.x = "while" -> CompileWhile(c, e)
      [] e.x = "for" -> CompileFor(c, e)
      [] e.x = "function" -> CompileFunction(c, e)
      [] e.x = "call" ->
            Emit(FoldLeft(CompileExpression, CompileExpression(c, e.fn), e.args),
                 "CALL", Len(e.args))
      [] e.x = "assign" ->
            IF Tables(c, e.name) = {} THEN [c EXCEPT !.err = TRUE]
            ELSE LET sym == Symbol(c, e.name)
                     set == Emit(CompileExpression(c, e.value), SetOp(sym), sym.index)
                 IN  Emit(set, GetOp(sym), sym.index)

(* The byte code of a program.                                             *)
CompileProgram(program) ==
    LET c == Emit(CompileBlock(CompilerNew, program), "HALT", 0)
    IN  [ins |-> c.ins, consts |-> c.consts, names |-> c.tabs[1], err |-> c.err]
================================================================================
