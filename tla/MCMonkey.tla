-------------------------------- MODULE MCMonkey ---------------------------------
(***************************************************************************)
(* The programs MonkeyVM is checked with: every loop whose body is one or  *)
(* two statements of a small set, with branches that leave it; every loop  *)
(* in a loop; and functions that return from anywhere.                     *)
(*                                                                         *)
(* Left out are the programs for which the compiler is known to go wrong   *)
(* (README): a branch of an if whose last statement leaves no value, break *)
(* and continue where an operand is waiting on the stack, a local name     *)
(* that is also a global one, a function that uses its caller's locals,    *)
(* division and remainder.                                                 *)
(***************************************************************************)
EXTENDS MonkeyVM

I == Id("i")
X == Id("x")
Y == Id("y")

Inc(name, n) == Assign(name, Infix(Id(name), "ADD", IntLit(n)))
IsLess(v, n) == Infix(v, "LESS_THAN", IntLit(n))

(* f of each pair of elements of two sequences.                            *)
Each2(f(_, _), s, t) ==
    [k \in 1 .. Len(s) * Len(t) |->
        f(s[(k - 1) \div Len(t) + 1], t[((k - 1) % Len(t)) + 1])]

Each(f(_), s) == [k \in DOMAIN s |-> f(s[k])]

--------------------------------------------------------------------------------
(* Branches of an if by their ends.                                        *)
Branches == << <<Expr(I)>>, <<Expr(Inc("x", 1))>>, <<Break>>, <<Continue>>,
               <<Let("y", X), Break>> >>

Cond == IsLess(I, 2)

PlainIfs == Each(LAMBDA b : Expr(If(Cond, b)), Branches)

Ifs == PlainIfs \o Each2(LAMBDA b, d : Expr(IfElse(Cond, b, d)), Branches, Branches)

Simple == <<Expr(Inc("x", 2)), Let("y", I), Break, Continue>>

Statements == Simple \o Ifs

Bodies == << <<>> >> \o Each(LAMBDA s : <<s>>, Statements)
          \o Each2(LAMBDA s, u : <<s, u>>, Statements, Simple)
          \o Each2(LAMBDA s, u : <<s, u>>, Simple, Ifs)
          \o Each2(LAMBDA s, u : <<s, u>>, PlainIfs, PlainIfs)

WhileLoop(v, n, b) == While(IsLess(Id(v), n), <<Expr(Inc(v, 1))>> \o b)
ForLoop(v, n, b)   == For(Let(v, IntLit(0)), IsLess(Id(v), n), Expr(Inc(v, 1)), b)
Endless(b)         == For(Empty, Empty, Empty, b \o <<Break>>)

Loops(v, n, bodies) ==
    Each(LAMBDA b : WhileLoop(v, n, b), bodies) \o Each(LAMBDA b : ForLoop(v, n, b), bodies)

Prologue == <<Let("i", IntLit(0)), Let("x", IntLit(0)), Let("j", IntLit(0))>>

OneLoop == Each(LAMBDA l : Prologue \o <<Expr(l)>>, Loops("i", 2, Bodies))

(* An inner loop, at each place of the outer one's body, before a          *)
(* statement and as the value of a variable.                               *)
Inner == Loops("j", 2, << <<Break>>, <<Continue>>, <<Expr(Inc("x", 1))>>, <<Let("y", X)>> >>)
         \o <<Endless(<<Expr(Inc("x", 1))>>)>>

OuterBodies == Each(LAMBDA l : <<Expr(l)>>, Inner)
               \o Each2(LAMBDA l, s : <<Expr(l), s>>, Inner, Simple)
               \o Each(LAMBDA l : <<Let("y", l), Expr(Y)>>, Inner)

Nested == Each(LAMBDA l : Prologue \o <<Expr(l), Expr(X)>>, Loops("i", 2, OuterBodies))

--------------------------------------------------------------------------------
(* Functions of two parameters.                                            *)

A == Id("a")
B == Id("b")

Results == << Return(B), Expr(Infix(A, "SUBTRACT", B)), Expr(Id("g")) >>

FnLoop(s) ==
    <<Let("c", Infix(A, "MULTIPLY", IntLit(3))),
      Expr(While(IsLess(A, 3), <<Expr(Inc("a", 1)), s>>))>>

(* Ways into the last statement of a function's body, if it is reached.    *)
Starts1 == << <<>>, <<Expr(If(IsLess(A, 2), <<Return(A)>>))>>,
              <<Expr(IfElse(IsLess(A, 2), <<Return(A)>>, <<Expr(Inc("g", 1))>>))>>,
              FnLoop(Return(Id("c"))), FnLoop(Break), FnLoop(Expr(Inc("b", 1))) >>

FnBodies == Each2(LAMBDA b, r : Append(b, r), Starts1, Results)

Args == << <<IntLit(1), IntLit(5)>>,
           <<IntLit(2), Call(Id("f"), <<IntLit(1), IntLit(7)>>)>>,
           <<IntLit(4), IntLit(2)>> >>

Functions1 ==
    Each2(LAMBDA b, args : <<Let("g", IntLit(0)), Let("f", Fn(<<"a", "b">>, b)),
                             Let("z", Infix(IntLit(9), "ADD", Call(Id("f"), args))),
                             Expr(Id("z"))>>,
          FnBodies, Args)
    \o Each2(LAMBDA b, args : <<Let("g", IntLit(0)),
                                Let("f", Fn(<<"a", "b">>, Append(b, Let("c", A)))),
                                Expr(Call(Id("f"), args))>>,
             Starts1, << Args[1], Args[3] >>)

Fib == Fn(<<"n">>, <<Expr(If(IsLess(Id("n"), 2), <<Return(Id("n"))>>)),
                     Return(Infix(Call(Id("fib"), <<Infix(Id("n"), "SUBTRACT", IntLit(1))>>), "ADD",
                                  Call(Id("fib"), <<Infix(Id("n"), "SUBTRACT", IntLit(2))>>)))>>)

Recursions == Each(LAMBDA n : <<Let("fib", Fib), Expr(Call(Id("fib"), <<IntLit(n)>>))>>,
                   <<0, 1, 2, 5>>)

--------------------------------------------------------------------------------
(* Operators, alone and in one another, and programs with an undefined     *)
(* name.                                                                   *)

OfInts  == <<"ADD", "SUBTRACT", "MULTIPLY", "EQUAL", "NOT_EQUAL", "GREATER_THAN",
             "GREATER_THAN_OR_EQUALS", "LESS_THAN", "LESS_THAN_OR_EQUALS">>
OfBools == <<"AND", "OR", "EQUAL", "NOT_EQUAL">>
Pairs   == << <<TRUE, TRUE>>, <<TRUE, FALSE>>, <<FALSE, TRUE>>, <<FALSE, FALSE>> >>

InfixTerms ==
    Each2(LAMBDA n, op : <<Expr(Infix(IntLit(n), op, IntLit(2)))>>, <<1, 2, 3>>, OfInts)
    \o Each2(LAMBDA p, op : <<Expr(Infix(Bool(p[1]), op, Bool(p[2])))>>, Pairs, OfBools)

N1 == IntLit(1)
N2 == IntLit(2)
N3 == Prefix("MINUS", IntLit(3))

OfNumbers == <<"ADD", "SUBTRACT", "MULTIPLY">>

Trees ==
    Each2(LAMBDA o, p : <<Expr(Infix(Infix(N1, o, N2), p, N3))>>, OfNumbers, OfInts)
    \o Each2(LAMBDA o, p : <<Expr(Infix(N1, p, Infix(N2, o, N3)))>>, OfNumbers, OfInts)
    \o Each2(LAMBDA o, p : <<Expr(Prefix("BANG", Infix(Infix(N1, o, N2), p, N3)))>>,
             OfNumbers, <<"EQUAL", "LESS_THAN">>)
    \o Each2(LAMBDA o, p : <<Let("t", Bool(TRUE)), Let("u", Infix(Id("t"), o, Infix(N1, p, N2))),
                             Expr(Assign("t", Infix(Prefix("BANG", Id("t")), o,
                                                    Infix(Id("u"), "AND", Id("t")))))>>,
             OfBools, <<"EQUAL", "LESS_THAN">>)
    \o Each2(LAMBDA o, p : <<Let("t", Bool(FALSE)),
                             Expr(Infix(Infix(Id("t"), o, Bool(TRUE)), p, Prefix("BANG", Id("t"))))>>,
             OfBools, OfBools)

(* Statements that begin like the rest of an expression, and chains.       *)
Texts ==
    << <<Let("x", IntLit(1)), Expr(Prefix("MINUS", X))>>,
       <<Let("x", IntLit(1)), Expr(Infix(Prefix("MINUS", Assign("x", IntLit(2))), "ADD", X))>>,
       <<Let("x", IntLit(2)), Let("y", IntLit(0)),
         Expr(IfElse(IsLess(X, 1), <<Expr(IntLit(1))>>,
                     <<Expr(IfElse(IsLess(X, 2), <<Expr(IntLit(2))>>,
                                   <<Expr(If(IsLess(X, 3), <<Expr(IntLit(3))>>))>>))>>)),
         Expr(Assign("y", Assign("x", IntLit(7)))), Expr(Infix(X, "ADD", Y))>>,
       <<Expr(Call(Fn(<<>>, <<Return(IntLit(3))>>), <<>>))>> >>

PrefixTerms ==
    Each(LAMBDA e : <<Expr(Prefix("BANG", e))>>,
         <<Bool(TRUE), Bool(FALSE), IntLit(0), IntLit(1)>>)
    \o << <<Expr(Prefix("MINUS", IntLit(1)))>> >>

Undefined == << <<Expr(X)>>, <<Expr(Assign("x", IntLit(1)))>> >>

MCPrograms == OneLoop \o Nested \o Functions1 \o Recursions \o InfixTerms \o PrefixTerms
              \o Trees \o Texts \o Undefined
================================================================================
