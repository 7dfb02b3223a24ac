---------------------------------- MODULE Lexan ----------------------------------
(***************************************************************************)
(* shell/lexan.c: a command line is divided into tokens.  A line is a      *)
(* sequence of characters without its newline; a token has a type and the  *)
(* characters that stand in tokbuf for it.                                 *)
(*                                                                         *)
(* The code walks a pointer along the line.  Each of its inner loops stops *)
(* at the first character of some set, so each is a minimum here; the      *)
(* outer loop is the recursive function Scan.  LexRef says the same with   *)
(* an automaton that reads one character at a time, and LexanAgrees        *)
(* compares the two on every line a shell is given.                        *)
(***************************************************************************)
EXTENDS Integers, Sequences, FiniteSetsExt, SequencesExt

CONSTANTS
    MAXTOK,      (* SHELL_MAXTOK                                         *)
    Chars        (* characters of a command line                         *)

ASSUME LexanAssumption == MAXTOK \in Nat \ {0}

Blank  == " "
Amper  == "&"
Quotes == {"quote", "dquote"}

Token(type, text) == [type |-> type, text |-> text]

SYSERR == [ok |-> FALSE, toks |-> <<>>]
None   == [ok |-> TRUE, toks |-> <<>>]

(* The tokens found from here on, put behind one found already.            *)
Then(t, found) == IF found.ok THEN [ok |-> TRUE, toks |-> <<t>> \o found.toks] ELSE SYSERR

(* The first place at or after p that has a character of the set, or the   *)
(* place behind the line.                                                  *)
First(line, p, stops) ==
    Min({q \in p .. Len(line) : line[q] \in stops} \cup {Len(line) + 1})

NotBlank == Chars \ {Blank}

(* A bug: the word's loop does not look for an ampersand.                  *)
EndsWordNotAmper == {Blank} \cup Quotes

EndsWord == {Blank, Amper} \cup Quotes

(* The outer loop, at place p with n tokens found.                         *)
Lexan(line) ==
    LET Scan[here \in (1 .. Len(line) + 1) \X (0 .. MAXTOK)] ==
          LET p == here[1]
              n == here[2]
              q == First(line, p, NotBlank)
              close == First(line, q + 1, {line[q]})
              end == First(line, q + 1, EndsWord)
          IN  CASE p > Len(line) -> None
                [] p <= Len(line) /\ n >= MAXTOK -> SYSERR
                [] n < MAXTOK /\ p <= Len(line) /\ q > Len(line) -> None
                [] OTHER ->
                   CASE line[q] = Amper ->
                          Then(Token("amper", <<Amper>>), Scan[<<q + 1, n + 1>>])
                     [] line[q] \in Quotes ->
                          IF close > Len(line) THEN SYSERR
                          ELSE Then(Token("other", SubSeq(line, q + 1, close - 1)),
                                    Scan[<<close + 1, n + 1>>])
                     [] OTHER ->
                          IF end <= Len(line) /\ line[end] \in Quotes THEN SYSERR
                          ELSE Then(Token("other", SubSeq(line, q, end - 1)),
                                    Scan[<<end, n + 1>>])
    IN  Scan[<<1, 0>>]

--------------------------------------------------------------------------------
(* The reference.                                                          *)

(* mode is the quote that is open, "word" inside a word, "gap" elsewhere.  *)
LexStart == [mode |-> "gap", bad |-> FALSE, toks |-> <<>>]

Longer(toks, c) == [toks EXCEPT ![Len(toks)].text = Append(@, c)]

LexStep(s, c) ==
    CASE s.mode \in Quotes /\ c = s.mode -> [s EXCEPT !.mode = "gap"]
      [] s.mode \in Quotes /\ c # s.mode -> [s EXCEPT !.toks = Longer(@, c)]
      [] s.mode \notin Quotes /\ c = Blank -> [s EXCEPT !.mode = "gap"]
      [] s.mode \notin Quotes /\ c = Amper ->
            [s EXCEPT !.mode = "gap", !.toks = Append(@, Token("amper", <<Amper>>))]
      [] s.mode \notin Quotes /\ c \in Quotes ->
            [mode |-> c, bad |-> s.bad \/ s.mode = "word",
             toks |-> Append(s.toks, Token("other", <<>>))]
      [] s.mode = "word" /\ c \notin {Blank, Amper} \cup Quotes ->
            [s EXCEPT !.toks = Longer(@, c)]
      [] OTHER ->
            [s EXCEPT !.mode = "word", !.toks = Append(@, Token("other", <<c>>))]

(* A line with as many tokens as there may be is refused if a blank is     *)
(* behind them: the limit is tested before blanks are skipped.             *)
LexRef(line) ==
    LET s == FoldLeft(LexStep, LexStart, line)
        full == Len(s.toks) > MAXTOK
                \/ (Len(s.toks) = MAXTOK /\ s.mode = "gap" /\ line[Len(line)] = Blank)
    IN  IF s.bad \/ s.mode \in Quotes \/ full THEN SYSERR
        ELSE [ok |-> TRUE, toks |-> s.toks]
================================================================================
