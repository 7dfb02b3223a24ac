-------------------------------- MODULE MonkeyAst --------------------------------
(***************************************************************************)
(* Programs of the Monkey language as monkey/src/parser.c builds them: the *)
(* statements and expressions of monkey/inc/parser.h.  A block is a        *)
(* sequence of statements, an identifier a string.                         *)
(*                                                                         *)
(* Integers, booleans, functions and all control are here; strings,        *)
(* arrays and built-in functions are not.                                  *)
(***************************************************************************)
EXTENDS Integers, Sequences

(* Expressions.                                                            *)
IntLit(n)           == [x |-> "int", n |-> n]
Bool(b)             == [x |-> "bool", b |-> b]
Id(name)            == [x |-> "ident", name |-> name]
Infix(l, op, r)     == [x |-> "infix", left |-> l, op |-> op, right |-> r]
Prefix(op, r)       == [x |-> "prefix", op |-> op, right |-> r]
If(c, b)            == [x |-> "if", cond |-> c, then |-> b, alt |-> <<>>]
IfElse(c, b, a)     == [x |-> "if", cond |-> c, then |-> b, alt |-> <<a>>]
While(c, b)         == [x |-> "while", cond |-> c, body |-> b]
For(init, c, inc, b) ==
    [x |-> "for", init |-> init, cond |-> c, inc |-> inc, body |-> b]
Fn(params, b)       == [x |-> "function", params |-> params, body |-> b]
Call(f, args)       == [x |-> "call", fn |-> f, args |-> args]
Assign(name, e)     == [x |-> "assign", name |-> name, value |-> e]

(* Statements.                                                             *)
Expr(e)      == [s |-> "expr", value |-> e]
Empty        == [s |-> "empty"]
Let(name, e) == [s |-> "let", name |-> name, value |-> e]
Return(e)    == [s |-> "return", value |-> e]
Break        == [s |-> "break"]
Continue     == [s |-> "continue"]

Arithmetic  == {"ADD", "SUBTRACT", "MULTIPLY", "DIVIDE", "MODULO"}
Logic       == {"AND", "OR"}
Comparisons == {"EQUAL", "NOT_EQUAL", "GREATER_THAN", "GREATER_THAN_OR_EQUALS",
                "LESS_THAN", "LESS_THAN_OR_EQUALS"}
================================================================================
