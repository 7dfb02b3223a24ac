------------------------------ MODULE MonkeyParser -------------------------------
(***************************************************************************)
(* monkey/src/parser.c: tokens become the programs of MonkeyAst.           *)
(*                                                                         *)
(* A parser is the tokens, the place of the current one and whether it has *)
(* met nothing it does not expect: where the code prints a message and     *)
(* ends the process, the model's parser goes to the end of the text.  Each *)
(* function of the code returns the parser after what it has read, p, with *)
(* the expression, statement, block or list it has built.                  *)
(***************************************************************************)
EXTENDS MonkeyAst, SequencesExt

(* A token is its type and, of identifiers and numbers, what it stands for. *)
Tok(t)     == [t |-> t, v |-> 0]
Word(name) == [t |-> "IDENT", v |-> name]
Digits(n)  == [t |-> "INT", v |-> n]

(* enum precedence.                                                        *)
LOWEST == 1
ASSIGN == 2
PREFIX == 9
CALL   == 10

TokenPrecedence(t) ==
    CASE t = "ASSIGN" -> ASSIGN
      [] t = "OR" -> 3
      [] t = "AND" -> 4
      [] t \in {"EQ", "NOT_EQ"} -> 5
      [] t \in {"LT", "LTE", "GT", "GTE"} -> 6
      [] t \in {"PLUS", "MINUS"} -> 7
      [] t \in {"PERCENT", "SLASH", "ASTERISK"} -> 8
      [] t = "LPAREN" -> CALL
      [] OTHER -> LOWEST

InfixOps ==
    [PLUS |-> "ADD", MINUS |-> "SUBTRACT", ASTERISK |-> "MULTIPLY", SLASH |-> "DIVIDE",
     PERCENT |-> "MODULO", EQ |-> "EQUAL", NOT_EQ |-> "NOT_EQUAL", GT |-> "GREATER_THAN",
     GTE |-> "GREATER_THAN_OR_EQUALS", LT |-> "LESS_THAN",
     LTE |-> "LESS_THAN_OR_EQUALS", AND |-> "AND", OR |-> "OR"]

PrefixOps == [BANG |-> "BANG", MINUS |-> "MINUS"]

NewParser(tokens) == [toks |-> tokens, i |-> 1, ok |-> TRUE]

TokenAt(p, i) == IF i > Len(p.toks) THEN Tok("EOF") ELSE p.toks[i]
CurrentIs(p, t) == TokenAt(p, p.i).t = t
NextIs(p, t)    == TokenAt(p, p.i + 1).t = t

NextToken(p) == [p EXCEPT !.i = @ + 1]
Reject(p)    == [p EXCEPT !.i = Len(p.toks) + 1, !.ok = FALSE]

AdvanceTo(p, t) == IF NextIs(p, t) THEN NextToken(p) ELSE Reject(p)
SkipIf(p, t)    == IF NextIs(p, t) THEN NextToken(p) ELSE p

Built(p, e) == [p |-> p, e |-> e]

--------------------------------------------------------------------------------
RECURSIVE ParseExpression(_, _), ParseOperators(_, _), ParseStatement(_),
          ParseStatements(_, _, _), ParseListRest(_, _), ParseNames(_, _)

(* The rest of a list of expressions, which are in e.                      *)
ParseListRest(r, end) ==
    IF NextIs(r.p, "COMMA")
    THEN LET x == ParseExpression(NextToken(NextToken(r.p)), LOWEST)
         IN  ParseListRest(Built(x.p, Append(r.e, x.e)), end)
    ELSE Built(AdvanceTo(r.p, end), r.e)

ParseExpressionList(p, end) ==
    IF NextIs(p, end) THEN Built(NextToken(p), <<>>)
    ELSE LET first == ParseExpression(NextToken(p), LOWEST)
         IN  ParseListRest(Built(first.p, <<first.e>>), end)

(* Statements up to a token; a semicolon after each is optional.           *)
ParseStatements(p, end, block) ==
    IF CurrentIs(p, end) \/ CurrentIs(p, "EOF") THEN Built(p, block)
    ELSE LET s == ParseStatement(p)
         IN  ParseStatements(NextToken(SkipIf(s.p, "SEMICOLON")), end, Append(block, s.e))

ParseBlockStatement(p) == ParseStatements(NextToken(p), "RBRACE", <<>>)

(* (condition) and the opening brace.                                      *)
ParseCondition(p) ==
    LET c == ParseExpression(NextToken(AdvanceTo(p, "LPAREN")), LOWEST)
    IN  Built(AdvanceTo(AdvanceTo(c.p, "RPAREN"), "LBRACE"), c.e)

ParseWhile(p) ==
    LET c == ParseCondition(p)
        b == ParseBlockStatement(c.p)
    IN  Built(b.p, While(c.e, b.e))

ParseIf(p) ==
    LET c == ParseCondition(p)
        b == ParseBlockStatement(c.p)
        else == NextToken(b.p)
        chained == ParseStatement(NextToken(else))
        other == ParseBlockStatement(AdvanceTo(else, "LBRACE"))
    IN  CASE ~NextIs(b.p, "ELSE") -> Built(b.p, If(c.e, b.e))
          [] NextIs(b.p, "ELSE") /\ NextIs(else, "IF") ->
                Built(chained.p, IfElse(c.e, b.e, <<chained.e>>))
          [] OTHER -> Built(other.p, IfElse(c.e, b.e, other.e))

(* Each part of a for loop's header may be empty.                          *)
ParseFor(p) ==
    LET open == AdvanceTo(p, "LPAREN")
        init == IF NextIs(open, "SEMICOLON") THEN Built(open, Empty)
                ELSE ParseStatement(NextToken(open))
        semi == AdvanceTo(init.p, "SEMICOLON")
        cond == IF NextIs(semi, "SEMICOLON") THEN Built(semi, Empty)
                ELSE ParseExpression(NextToken(semi), LOWEST)
        then == AdvanceTo(cond.p, "SEMICOLON")
        inc  == IF NextIs(then, "RPAREN") THEN Built(then, Empty)
                ELSE ParseStatement(NextToken(then))
        b    == ParseBlockStatement(AdvanceTo(AdvanceTo(inc.p, "RPAREN"), "LBRACE"))
    IN  Built(b.p, For(init.e, cond.e, inc.e, b.e))

ParseNames(p, names) ==
    LET more == Append(names, TokenAt(p, p.i).v)
    IN  IF NextIs(p, "COMMA") THEN ParseNames(NextToken(NextToken(p)), more)
        ELSE Built(AdvanceTo(p, "RPAREN"), more)

ParseFunction(p) ==
    LET open == AdvanceTo(p, "LPAREN")
        params == IF NextIs(open, "RPAREN") THEN Built(NextToken(open), <<>>)
                  ELSE ParseNames(NextToken(open), <<>>)
        b == ParseBlockStatement(AdvanceTo(params.p, "LBRACE"))
    IN  Built(b.p, Fn(params.e, b.e))

(* What an expression begins with.                                         *)
ParseOperand(p) ==
    LET tok == TokenAt(p, p.i)
        inner == ParseExpression(NextToken(p), LOWEST)
        right == ParseExpression(NextToken(p), PREFIX)
    IN  CASE tok.t = "IDENT" -> Built(p, Id(tok.v))
          [] tok.t = "INT" -> Built(p, IntLit(tok.v))
          [] tok.t \in {"BANG", "MINUS"} -> Built(right.p, Prefix(PrefixOps[tok.t], right.e))
          [] tok.t \in {"TRUE", "FALSE"} -> Built(p, Bool(tok.t = "TRUE"))
          [] tok.t = "LPAREN" -> Built(AdvanceTo(inner.p, "RPAREN"), inner.e)
          [] tok.t = "IF" -> ParseIf(p)
          [] tok.t = "FOR" -> ParseFor(p)
          [] tok.t = "WHILE" -> ParseWhile(p)
          [] tok.t = "FUNCTION" -> ParseFunction(p)
          [] OTHER -> Built(Reject(p), Empty)

(* A bug: an operator takes what follows it with its own precedence.       *)
BindsLoosely(prec, t) == prec <= TokenPrecedence(t)

(* Whether an operator takes the operand on its left from the one before.  *)
Binds(prec, t) == prec < TokenPrecedence(t)

(* The operators behind an operand, or what is built of it so far.         *)
ParseOperators(r, prec) ==
    LET t == TokenAt(r.p, r.p.i + 1).t
        op == NextToken(r.p)
        right == ParseExpression(NextToken(op), TokenPrecedence(t))
        args == ParseExpressionList(op, "RPAREN")
        assign == IF r.e.x = "ident" THEN Built(right.p, Assign(r.e.name, right.e))
                  ELSE Built(Reject(op), r.e)
        more == Binds(prec, t) /\ r.p.ok
    IN  CASE more /\ t = "ASSIGN" -> ParseOperators(assign, prec)
          [] more /\ t \in DOMAIN InfixOps ->
                ParseOperators(Built(right.p, Infix(r.e, InfixOps[t], right.e)), prec)
          [] more /\ t = "LPAREN" -> ParseOperators(Built(args.p, Call(r.e, args.e)), prec)
          [] OTHER -> r

ParseExpression(p, prec) == ParseOperators(ParseOperand(p), prec)

ParseStatement(p) ==
    LET let == AdvanceTo(AdvanceTo(p, "IDENT"), "ASSIGN")
        next == ParseExpression(NextToken(p), LOWEST)
        value == ParseExpression(NextToken(let), LOWEST)
        whole == ParseExpression(p, LOWEST)
    IN  CASE CurrentIs(p, "LET") ->
                Built(value.p, Let(TokenAt(p, p.i + 1).v, value.e))
          [] CurrentIs(p, "RETURN") -> Built(next.p, Return(next.e))
          [] CurrentIs(p, "BREAK") -> Built(p, Break)
          [] CurrentIs(p, "CONTINUE") -> Built(p, Continue)
          [] OTHER -> Built(whole.p, Expr(whole.e))

ParseProgram(tokens) == ParseStatements(NewParser(tokens), "EOF", <<>>)

--------------------------------------------------------------------------------
(* The reference: a program as text, with only the parentheses it needs.   *)

TokenOf(op) == CHOOSE t \in DOMAIN InfixOps : InfixOps[t] = op

(* How tightly an expression holds together.                               *)
Strength(e) ==
    CASE e.x = "assign" -> ASSIGN
      [] e.x = "infix" -> TokenPrecedence(TokenOf(e.op))
      [] e.x = "prefix" -> PREFIX
      [] OTHER -> CALL

Commas(lists) ==
    FoldLeft(LAMBDA done, l : IF done = <<>> THEN l ELSE done \o <<Tok("COMMA")>> \o l,
             <<>>, lists)

Parens(t) == <<Tok("LPAREN")>> \o t \o <<Tok("RPAREN")>>

RECURSIVE Text(_, _), StatementText(_, _), BlockText(_, _)

(* In parentheses if it is weaker than its place asks.                     *)
Grouped(e, least, semi) ==
    IF Strength(e) >= least THEN Text(e, semi) ELSE Parens(Text(e, semi))

Braces(block, semi) == <<Tok("LBRACE")>> \o BlockText(block, semi) \o <<Tok("RBRACE")>>

IsChain(block) == Len(block) = 1 /\ block[1].s = "expr" /\ block[1].value.x = "if"

Text(e, semi) ==
    CASE e.x = "int" -> <<Digits(e.n)>>
      [] e.x = "bool" -> <<Tok(IF e.b THEN "TRUE" ELSE "FALSE")>>
      [] e.x = "ident" -> <<Word(e.name)>>
      [] e.x = "infix" ->
            Grouped(e.left, Strength(e), semi) \o <<Tok(TokenOf(e.op))>>
            \o Grouped(e.right, Strength(e) + 1, semi)
      [] e.x = "prefix" -> <<Tok(e.op)>> \o Grouped(e.right, PREFIX, semi)
      [] e.x = "assign" -> <<Word(e.name), Tok("ASSIGN")>> \o Grouped(e.value, ASSIGN + 1, semi)
      [] e.x = "while" -> <<Tok("WHILE")>> \o Parens(Text(e.cond, semi)) \o Braces(e.body, semi)
      [] e.x = "for" ->
            <<Tok("FOR")>>
            \o Parens(StatementText(e.init, semi) \o <<Tok("SEMICOLON")>>
                      \o (IF e.cond = Empty THEN <<>> ELSE Text(e.cond, semi))
                      \o <<Tok("SEMICOLON")>> \o StatementText(e.inc, semi))
            \o Braces(e.body, semi)
      [] e.x = "if" ->
            <<Tok("IF")>> \o Parens(Text(e.cond, semi)) \o Braces(e.then, semi)
            \o (CASE e.alt = <<>> -> <<>>
                  [] e.alt # <<>> /\ IsChain(e.alt[1]) ->
                        <<Tok("ELSE")>> \o Text(e.alt[1][1].value, semi)
                  [] OTHER -> <<Tok("ELSE")>> \o Braces(e.alt[1], semi))
      [] e.x = "function" ->
            <<Tok("FUNCTION")>>
            \o Parens(Commas([i \in DOMAIN e.params |-> <<Word(e.params[i])>>]))
            \o Braces(e.body, semi)
      [] e.x = "call" ->
            Grouped(e.fn, CALL, semi)
            \o Parens(Commas([i \in DOMAIN e.args |-> Text(e.args[i], semi)]))

StatementText(stmt, semi) ==
    CASE stmt.s = "expr" -> Text(stmt.value, semi)
      [] stmt.s = "empty" -> <<>>
      [] stmt.s = "let" -> <<Tok("LET"), Word(stmt.name), Tok("ASSIGN")>> \o Text(stmt.value, semi)
      [] stmt.s = "return" -> <<Tok("RETURN")>> \o Text(stmt.value, semi)
      [] stmt.s = "break" -> <<Tok("BREAK")>>
      [] stmt.s = "continue" -> <<Tok("CONTINUE")>>

(* With a semicolon after every statement, or only where the next one      *)
(* would be taken for the rest of an expression.                           *)
Separator(block, i, semi) ==
    LET opens == i < Len(block)
                 /\ Head(StatementText(block[i + 1], semi)).t \in {"LPAREN", "MINUS"}
    IN  IF semi \/ opens THEN <<Tok("SEMICOLON")>> ELSE <<>>

BlockText(block, semi) ==
    FlattenSeq([i \in DOMAIN block |->
                    StatementText(block[i], semi) \o Separator(block, i, semi)])
================================================================================
