------------------------------- MODULE MonkeyEval --------------------------------
(***************************************************************************)
(* What a Monkey program means, by recursion on its syntax: the reference  *)
(* for the compiler and the virtual machine.  It knows no stack, no jumps  *)
(* and no indices of variables.                                            *)
(*                                                                         *)
(* A statement or an expression takes an environment to a result: a value, *)
(* the environment after it, and how it ended, which is "next" unless a    *)
(* break, continue or return statement was met.  An environment has global *)
(* variables and, in a function, local ones.  Values that differ from what *)
(* the operators need make no result here; the programs have none.         *)
(***************************************************************************)
EXTENDS MonkeyAst, TLC

Null         == [t |-> "null", n |-> 0]
Number(n)    == [t |-> "int", n |-> n]
Truth(b)     == [t |-> "bool", n |-> IF b THEN 1 ELSE 0]
Closed(e)    == [t |-> "fn", params |-> e.params, body |-> e.body]

(* Only null and false are not true.                                       *)
IsTrue(v) == ~(v.t = "null" \/ v = Truth(FALSE))

(* A number is negated as if those above zero were true.                   *)
Not(v) == Truth(v.t = "null" \/ v = Truth(FALSE) \/ (v.t = "int" /\ v.n <= 0))

Apply(op, l, r) ==
    CASE op = "ADD" -> Number(l.n + r.n)
      [] op = "SUBTRACT" -> Number(l.n - r.n)
      [] op = "MULTIPLY" -> Number(l.n * r.n)
      [] op = "DIVIDE" -> Number(l.n \div r.n)
      [] op = "MODULO" -> Number(l.n % r.n)
      [] op = "EQUAL" -> Truth(l = r)
      [] op = "NOT_EQUAL" -> Truth(l # r)
      [] op = "GREATER_THAN" -> Truth(l.n > r.n)
      [] op = "GREATER_THAN_OR_EQUALS" -> Truth(l.n >= r.n)
      [] op = "LESS_THAN" -> Truth(l.n < r.n)
      [] op = "LESS_THAN_OR_EQUALS" -> Truth(l.n <= r.n)
      [] op = "AND" -> Truth(l = Truth(TRUE) /\ r = Truth(TRUE))
      [] op = "OR" -> Truth(l = Truth(TRUE) \/ r = Truth(TRUE))

None == <<>>     (* no variables *)

Start == [globals |-> None, locals |-> None, inside |-> FALSE]

ValueOf(env, name) ==
    IF name \in DOMAIN env.locals THEN env.locals[name] ELSE env.globals[name]

Declare(env, name, v) ==
    IF env.inside THEN [env EXCEPT !.locals = (name :> v) @@ @]
    ELSE [env EXCEPT !.globals = (name :> v) @@ @]

Set(env, name, v) ==
    IF name \in DOMAIN env.locals THEN [env EXCEPT !.locals[name] = v]
    ELSE [env EXCEPT !.globals[name] = v]

Result(v, env, end) == [v |-> v, env |-> env, end |-> end]

RECURSIVE Eval(_, _), Exec(_, _), ExecBlock(_, _, _), Turns(_, _, _), EvalArgs(_, _, _)

Exec(env, stmt) ==
    CASE stmt.s = "expr" -> Eval(env, stmt.value)
      [] stmt.s = "empty" -> Result(Null, env, "next")
      [] stmt.s = "let" ->
            LET r == Eval(env, stmt.value)
            IN  IF r.end # "next" THEN r
                ELSE Result(Null, Declare(r.env, stmt.name, r.v), "next")
      [] stmt.s = "return" ->
            LET r == Eval(env, stmt.value)
            IN  Result(r.v, r.env, "return")
      [] stmt.s = "break" -> Result(Null, env, "break")
      [] stmt.s = "continue" -> Result(Null, env, "continue")

(* The rest of a block, given the result of what is before it.             *)
ExecBlock(r, block, i) ==
    IF r.end # "next" \/ i > Len(block) THEN r
    ELSE ExecBlock(Exec(r.env, block[i]), block, i + 1)

Block(env, block) == ExecBlock(Result(Null, env, "next"), block, 1)

(* The turns of a loop that are left, given the result of the one before.  *)
Turns(r, e, cond) ==
    LET c == Eval(r.env, cond)
        body == Block(c.env, e.body)
        inc == IF e.x = "for" THEN Exec(body.env, e.inc) ELSE body
        v == IF body.end = "next" THEN body.v ELSE Null
    IN  CASE ~IsTrue(c.v) -> Result(r.v, c.env, "next")
          [] IsTrue(c.v) /\ body.end = "return" -> body
          [] IsTrue(c.v) /\ body.end = "break" -> Result(Null, body.env, "next")
          [] OTHER -> Turns(Result(v, inc.env, "next"), e, cond)

(* The arguments of a call from the i-th on, behind those before it.       *)
EvalArgs(r, args, i) ==
    IF i > Len(args) THEN r
    ELSE LET a == Eval(r.env, args[i])
         IN  EvalArgs(Result(Append(r.v, a.v), a.env, "next"), args, i + 1)

Eval(env, e) ==
    CASE e.x = "int" -> Result(Number(e.n), env, "next")
      [] e.x = "bool" -> Result(Truth(e.b), env, "next")
      [] e.x = "ident" -> Result(ValueOf(env, e.name), env, "next")
      [] e.x = "infix" ->
            LET l == Eval(env, e.left)
                r == Eval(l.env, e.right)
            IN  Result(Apply(e.op, l.v, r.v), r.env, "next")
      [] e.x = "prefix" ->
            LET r == Eval(env, e.right)
            IN  Result(IF e.op = "MINUS" THEN Number(-r.v.n) ELSE Not(r.v), r.env, "next")
      [] e.x = "if" ->
            LET c == Eval(env, e.cond)
            IN  CASE IsTrue(c.v) -> Block(c.env, e.then)
                  [] ~IsTrue(c.v) /\ e.alt # <<>> -> Block(c.env, e.alt[1])
                  [] OTHER -> Result(Null, c.env, "next")
      [] e.x = "while" -> Turns(Result(Null, env, "next"), e, e.cond)
      [] e.x = "for" ->
            Turns(Result(Null, Exec(env, e.init).env, "next"), e,
                  IF e.cond = Empty THEN Bool(TRUE) ELSE e.cond)
      [] e.x = "function" -> Result(Closed(e), env, "next")
      [] e.x = "call" ->
            LET f == Eval(env, e.fn)
                args == EvalArgs(Result(<<>>, f.env, "next"), e.args, 1)
                params == {f.v.params[i] : i \in DOMAIN f.v.params}
                place(name) == CHOOSE i \in DOMAIN f.v.params : f.v.params[i] = name
                inner == [globals |-> args.env.globals, inside |-> TRUE,
                          locals |-> [name \in params |-> args.v[place(name)]]]
                body == Block(inner, f.v.body)
            IN  Result(body.v, [args.env EXCEPT !.globals = body.env.globals], "next")
      [] e.x = "assign" ->
            LET r == Eval(env, e.value)
            IN  IF r.end # "next" THEN r
                ELSE Result(r.v, Set(r.env, e.name, r.v), "next")

Meaning(program) == Block(Start, program)
================================================================================
