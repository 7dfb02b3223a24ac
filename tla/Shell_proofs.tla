------------------------------- MODULE Shell_proofs -------------------------------
(***************************************************************************)
(* The lexical analyser and the foreground wait of the shell, for any      *)
(* number of processes and any command lines.                              *)
(***************************************************************************)
EXTENDS Shell, XinuLists_proofs

(* The process about to be resumed is a suspended job.                     *)
Created == at \in {"clear", "resume"} => child \in Jobs /\ job[child] = "susp"

(* A message is there to be taken, names a job that no longer runs, and,   *)
(* once the slot has been cleared, not the job to be resumed.              *)
Messages ==
    /\ at = "take" => prhasmsg
    /\ prhasmsg => prmsg \in Jobs /\ job[prmsg] # "run"
    /\ at = "resume" /\ prhasmsg => prmsg # child

(* A running foreground job is the one the shell waits for.                *)
Foreground ==
    /\ \A p \in Jobs : fore[p] /\ job[p] = "run" => p = child /\ Waiting
    /\ at = "resume" => fore[child] = ~backgnd
    /\ at = "clear" => fore[child] = ~backgnd
    /\ Waiting => child \in Jobs

(* A line read has a character.                                            *)
LineRead == at = "parse" => buf # <<>>

IInv == TypeOK /\ LineRead /\ Created /\ Messages /\ Foreground

--------------------------------------------------------------------------------
LEMMA NewpidRange == ASSUME NEW p \in Jobs PROVE p \in Nat /\ p + 1 \in 1 .. NPROC
BY ShellAssumption DEF Jobs

LEMMA AroundRange == ASSUME NEW n \in 1 .. NPROC PROVE Around(n) \in 1 .. NPROC
<1>1. NPROC \in Nat /\ NPROC > 0 /\ n + NPROC - 1 \in Int
  BY ShellAssumption
<1>2. (n + NPROC - 1) % NPROC \in 0 .. NPROC - 1
  BY <1>1
<1> QED
  BY <1>1, <1>2 DEF Around

(* The first state.                                                        *)
LEMMA InitIInv == Init => IInv
<1> SUFFICES ASSUME Init PROVE IInv
  OBVIOUS
<1>1. SHELL \notin Jobs /\ NPROC \in Nat /\ 2 \in 1 .. NPROC
  BY ShellAssumption DEF SHELL, Jobs
<1>2. buf \in Seq(Chars)
  BY DEF Init
<1>3. job \in [Jobs -> {"free", "susp", "run", "ending"}] /\ fore \in [Jobs -> BOOLEAN]
  BY DEF Init
<1>4. TypeOK
  BY <1>1, <1>2, <1>3 DEF Init, TypeOK
<1> QED
  BY <1>1, <1>4 DEF Init, IInv, LineRead, Created, Messages, Foreground, Waiting

(* Each action.                                                            *)
LEMMA NextIInv == IInv /\ [Next]_vars => IInv'
<1> SUFFICES ASSUME IInv, [Next]_vars PROVE IInv'
  OBVIOUS
<1> USE DEF IInv, LineRead, Created, Messages, Foreground, Waiting, proc, slot
<1>1. CASE Read
  <2>1. buf' \in Seq(Chars)
    BY <1>1 DEF Read
  <2> QED
    BY <1>1, <2>1 DEF Read, TypeOK
<1>2. CASE Parse
  <2>1. at' \in {"spawn", "kill", "exit", "prompt"} /\ backgnd' \in BOOLEAN
    BY <1>2 DEF Parse, cmdtab, TypeOK
  <2> QED
    BY <1>2, <2>1 DEF Parse, TypeOK
<1>3. CASE KillFails
  BY <1>3 DEF KillFails, TypeOK
<1>4. CASE End
  BY <1>4 DEF End, TypeOK, Builtin
<1>5. CASE Spawn
  <2>1. CASE \E p \in Jobs :
               /\ child' = p /\ nextpid' = p + 1
               /\ job' = [job EXCEPT ![p] = "susp"]
               /\ fore' = [fore EXCEPT ![p] = ~backgnd]
               /\ at' = "clear"
    <3>1. PICK p \in Jobs : /\ child' = p /\ nextpid' = p + 1
                            /\ job' = [job EXCEPT ![p] = "susp"]
                            /\ fore' = [fore EXCEPT ![p] = ~backgnd]
                            /\ at' = "clear"
      BY <2>1
    <3>2. nextpid' \in 1 .. NPROC
      BY <3>1, NewpidRange
    <3> QED
      BY <1>5, <3>1, <3>2 DEF Spawn, TypeOK
  <2>2. CASE /\ nextpid' = Around(nextpid) /\ at' = "prompt"
             /\ UNCHANGED <<child, job, fore>>
    <3>1. nextpid' \in 1 .. NPROC
      BY <2>2, AroundRange DEF TypeOK
    <3> QED
      BY <1>5, <2>2, <3>1 DEF Spawn, TypeOK
  <2> QED
    BY <1>5, <2>1, <2>2 DEF Spawn, Free
<1>6. CASE Recvclr
  BY <1>6 DEF Recvclr, TypeOK
<1>7. CASE Resume
  BY <1>7 DEF Resume, TypeOK
<1>8. CASE Test
  BY <1>8 DEF Test, TypeOK
<1>9. CASE Sleep
  BY <1>9 DEF Sleep, TypeOK
<1>10. CASE Take
  BY <1>10 DEF Take, TypeOK
<1>11. ASSUME NEW p \in Jobs, KillJob(p) PROVE IInv'
  BY <1>11 DEF KillJob, SendToShell, TypeOK
<1>12. ASSUME NEW p \in Jobs, JobEnds(p) PROVE IInv'
  BY <1>12 DEF JobEnds, SendToShell, TypeOK
<1>13. ASSUME NEW p \in Jobs, JobGone(p) PROVE IInv'
  BY <1>13 DEF JobGone, TypeOK
<1>14. CASE UNCHANGED vars
  BY <1>14 DEF vars, TypeOK
<1> QED
  BY <1>1, <1>2, <1>3, <1>4, <1>5, <1>6, <1>7, <1>8, <1>9, <1>10, <1>11, <1>12, <1>13,
     <1>14 DEF Next, WaitStep

(* The inductive invariant: messages name jobs that have ended, and a      *)
(* running foreground job is the one waited for.                           *)
THEOREM ShellInvariance == Spec => []IInv
BY InitIInv, NextIInv, PTL DEF Spec

(* The state of the shell and its jobs keeps its type (shell.c:80-346).    *)
THEOREM ShellTypes == Spec => []TypeOK
<1>1. IInv => TypeOK
  BY DEF IInv
<1> QED
  BY <1>1, ShellInvariance, PTL

(* The shell prompts only when its foreground job has ended                *)
(* (shell.c:327-336), however ids and messages are used again.             *)
THEOREM ForegroundDone == Spec => []JobDone
<1>1. IInv => JobDone
  BY DEF IInv, Foreground, JobDone, Waiting
<1> QED
  BY <1>1, ShellInvariance, PTL

--------------------------------------------------------------------------------
(* The lexical analyser: what its loops and what the automaton make of a   *)
(* line, place by place.                                                   *)

Tokens == [type : {"amper", "other"}, text : Seq(Chars)]

(* The automaton is in the middle of a token only if there is one.         *)
LexStates ==
    {s \in [mode : {"gap", "word"} \cup Quotes, bad : BOOLEAN, toks : Seq(Tokens)] :
        s.mode = "gap" \/ Len(s.toks) >= 1}

LEMMA OtherText ==
    ASSUME NEW e \in Tokens, NEW x \in Seq(Chars)
    PROVE  [e EXCEPT !.text = x] \in Tokens /\ [e EXCEPT !.text = x] = Token(e.type, x)
<1>1. e = [type |-> e.type, text |-> e.text] /\ e.type \in {"amper", "other"}
  BY DEF Tokens
<1>2. [e EXCEPT !.text = x] = [type |-> e.type, text |-> x]
  BY <1>1
<1> QED
  BY <1>1, <1>2 DEF Tokens, Token

LEMMA LongerTypes ==
    ASSUME NEW toks \in Seq(Tokens), Len(toks) >= 1, NEW c \in Chars
    PROVE  /\ Longer(toks, c) \in Seq(Tokens)
           /\ Len(Longer(toks, c)) = Len(toks)
           /\ \A i \in 1 .. Len(toks) - 1 : Longer(toks, c)[i] = toks[i]
           /\ Longer(toks, c)[Len(toks)]
                = Token(toks[Len(toks)].type, Append(toks[Len(toks)].text, c))
<1>1. Len(toks) \in Nat /\ toks = [i \in 1 .. Len(toks) |-> toks[i]]
      /\ \A i \in 1 .. Len(toks) : toks[i] \in Tokens
  BY LenProperties, ElementOfSeq
<1> DEFINE n == Len(toks)
           t == toks[n]
           u == [t EXCEPT !.text = Append(@, c)]
<1>2. t \in Tokens
  BY <1>1
<1>3. Append(t.text, c) \in Seq(Chars)
  BY <1>2, AppendProperties DEF Tokens
<1>4. u \in Tokens /\ u = Token(t.type, Append(t.text, c))
  BY <1>2, <1>3, OtherText
<1>5. Longer(toks, c) = [i \in 1 .. n |-> IF i = n THEN u ELSE toks[i]]
  BY <1>1 DEF Longer
<1> DEFINE new == [i \in 1 .. n |-> IF i = n THEN u ELSE toks[i]]
<1> HIDE DEF u, t
<1>6. new \in [1 .. n -> Tokens]
  BY <1>1, <1>4
<1>7. new \in Seq(Tokens) /\ Len(new) = n
  BY <1>1, <1>6, IsASeq, LenProperties
<1> QED
  BY <1>1, <1>4, <1>5, <1>7 DEF t

LEMMA NewTokens ==
    ASSUME NEW c \in Chars
    PROVE  /\ Token("other", <<>>) \in Tokens /\ Token("other", <<c>>) \in Tokens
           /\ c = Amper => Token("amper", <<Amper>>) \in Tokens
<1>1. <<>> \in Seq(Chars) /\ <<c>> \in Seq(Chars)
  OBVIOUS
<1> QED
  BY <1>1 DEF Token, Tokens

LEMMA StepTypes ==
    ASSUME NEW s \in LexStates, NEW c \in Chars
    PROVE  LexStep(s, c) \in LexStates
<1>1. s = [mode |-> s.mode, bad |-> s.bad, toks |-> s.toks]
      /\ s.mode \in {"gap", "word"} \cup Quotes /\ s.bad \in BOOLEAN /\ s.toks \in Seq(Tokens)
      /\ (s.mode = "gap" \/ Len(s.toks) >= 1)
  BY DEF LexStates
<1>2. \A e \in Tokens : Append(s.toks, e) \in Seq(Tokens) /\ Len(Append(s.toks, e)) >= 1
  BY <1>1, AppendProperties, LenProperties
<1>4. Token("other", <<>>) \in Tokens /\ Token("other", <<c>>) \in Tokens
  BY NewTokens
<1>5. c = Amper => Token("amper", <<Amper>>) \in Tokens
  BY NewTokens
<1>6. Len(s.toks) >= 1 => Longer(s.toks, c) \in Seq(Tokens) /\ Len(Longer(s.toks, c)) >= 1
  BY <1>1, LongerTypes
<1>7. "gap" \notin Quotes /\ "word" \notin Quotes
  BY DEF Quotes
<1>8. CASE s.mode \in Quotes /\ c = s.mode
  <2>1. LexStep(s, c) = [s EXCEPT !.mode = "gap"]
    BY <1>8 DEF LexStep
  <2> QED
    BY <2>1, <1>1 DEF LexStates
<1>9. CASE s.mode \in Quotes /\ c # s.mode
  <2>1. LexStep(s, c) = [s EXCEPT !.toks = Longer(s.toks, c)]
    BY <1>9 DEF LexStep
  <2> QED
    BY <2>1, <1>1, <1>6, <1>7, <1>9 DEF LexStates
<1>10. CASE s.mode \notin Quotes /\ c = Blank
  <2>1. LexStep(s, c) = [s EXCEPT !.mode = "gap"]
    BY <1>10 DEF LexStep, Blank, Amper, Quotes
  <2> QED
    BY <2>1, <1>1 DEF LexStates
<1>11. CASE s.mode \notin Quotes /\ c = Amper
  <2>1. LexStep(s, c) = [s EXCEPT !.mode = "gap",
                                  !.toks = Append(s.toks, Token("amper", <<Amper>>))]
    BY <1>11 DEF LexStep, Blank, Amper, Quotes
  <2> QED
    BY <2>1, <1>1, <1>2, <1>5, <1>11 DEF LexStates
<1>12. CASE s.mode \notin Quotes /\ c \in Quotes
  <2>1. LexStep(s, c) = [mode |-> c, bad |-> s.bad \/ s.mode = "word",
                         toks |-> Append(s.toks, Token("other", <<>>))]
    BY <1>12 DEF LexStep, Blank, Amper, Quotes
  <2> QED
    BY <2>1, <1>1, <1>2, <1>4, <1>12 DEF LexStates
<1>13. CASE s.mode = "word" /\ c \notin {Blank, Amper} \cup Quotes
  <2>1. LexStep(s, c) = [s EXCEPT !.toks = Longer(s.toks, c)]
    BY <1>7, <1>13 DEF LexStep
  <2> QED
    BY <2>1, <1>1, <1>6, <1>7, <1>13 DEF LexStates
<1>14. CASE s.mode = "gap" /\ c \notin {Blank, Amper} \cup Quotes
  <2>1. LexStep(s, c) = [s EXCEPT !.mode = "word", !.toks = Append(s.toks, Token("other", <<c>>))]
    BY <1>7, <1>14 DEF LexStep
  <2> QED
    BY <2>1, <1>1, <1>2, <1>4 DEF LexStates
<1> QED
  BY <1>1, <1>8, <1>9, <1>10, <1>11, <1>12, <1>13, <1>14

(* One character read by two automatons, of which one has a token more.    *)
Trails(s, u, t) == s.mode = u.mode /\ s.bad = u.bad /\ s.toks = <<t>> \o u.toks

LEMMA LongerBehind ==
    ASSUME NEW t \in Tokens, NEW toks \in Seq(Tokens), Len(toks) >= 1, NEW c \in Chars
    PROVE  Longer(<<t>> \o toks, c) = <<t>> \o Longer(toks, c)
<1> DEFINE both == <<t>> \o toks
           new == Longer(toks, c)
<1>1. Len(toks) \in Nat /\ \A i \in 1 .. Len(toks) : toks[i] \in Tokens
  BY LenProperties, ElementOfSeq
<1>2. <<t>> \in Seq(Tokens) /\ Len(<<t>>) = 1 /\ <<t>>[1] = t
  OBVIOUS
<1>3. /\ both \in Seq(Tokens) /\ Len(both) = 1 + Len(toks)
      /\ both[1] = t /\ \A i \in 2 .. Len(toks) + 1 : both[i] = toks[i - 1]
  BY <1>1, <1>2, ConcatProperties
<1>4. /\ new \in Seq(Tokens) /\ Len(new) = Len(toks)
      /\ \A i \in 1 .. Len(toks) - 1 : new[i] = toks[i]
      /\ new[Len(toks)] = Token(toks[Len(toks)].type, Append(toks[Len(toks)].text, c))
  BY LongerTypes
<1>5. /\ <<t>> \o new \in Seq(Tokens) /\ Len(<<t>> \o new) = 1 + Len(toks)
      /\ (<<t>> \o new)[1] = t
      /\ \A i \in 2 .. Len(toks) + 1 : (<<t>> \o new)[i] = new[i - 1]
  <2> HIDE DEF new
  <2> QED
    BY <1>1, <1>2, <1>4, ConcatProperties
<1> HIDE DEF both
<1>6. /\ Longer(both, c) \in Seq(Tokens) /\ Len(Longer(both, c)) = Len(both)
      /\ \A i \in 1 .. Len(both) - 1 : Longer(both, c)[i] = both[i]
      /\ Longer(both, c)[Len(both)]
            = Token(both[Len(both)].type, Append(both[Len(both)].text, c))
  <2>1. both \in Seq(Tokens) /\ Len(both) >= 1
    BY <1>1, <1>3
  <2> QED
    BY <2>1, LongerTypes
<1> HIDE DEF new
<1> DEFINE a == Longer(both, c)
           b == <<t>> \o new
<1>7. a \in Seq(Tokens) /\ Len(a) = 1 + Len(toks) /\ b \in Seq(Tokens) /\ Len(b) = Len(a)
  BY <1>3, <1>5, <1>6
<1>8. ASSUME NEW i \in 1 .. Len(a) PROVE a[i] = b[i]
  <2>1. CASE i = 1
    BY <1>1, <1>3, <1>5, <1>6, <2>1
  <2>2. CASE i \in 2 .. Len(toks)
    <3>1. i - 1 \in 1 .. Len(toks) - 1
      BY <1>1, <2>2
    <3> QED
      BY <1>1, <1>3, <1>4, <1>5, <1>6, <2>2, <3>1
  <2>3. CASE i = Len(toks) + 1
    <3>1. both[Len(both)] = toks[Len(toks)]
      BY <1>1, <1>3
    <3>2. b[i] = new[Len(toks)]
      BY <1>1, <1>5, <2>3
    <3> QED
      BY <1>1, <1>3, <1>4, <1>6, <2>3, <3>1, <3>2
  <2> QED
    BY <1>1, <1>7, <2>1, <2>2, <2>3
<1> HIDE DEF a, b
<1>9. a = b
  BY <1>7, <1>8, SeqEqual
<1> QED
  BY <1>9 DEF a, b, both, new

LEMMA StepBehind ==
    ASSUME NEW s \in LexStates, NEW u \in LexStates, NEW t \in Tokens, NEW c \in Chars,
           Trails(s, u, t)
    PROVE  Trails(LexStep(s, c), LexStep(u, c), t)
<1>1. s.mode = u.mode /\ s.bad = u.bad /\ s.toks = <<t>> \o u.toks
  BY DEF Trails
<1>2. /\ s.mode \in {"gap", "word"} \cup Quotes
      /\ s = [mode |-> s.mode, bad |-> s.bad, toks |-> s.toks]
      /\ u = [mode |-> u.mode, bad |-> u.bad, toks |-> u.toks]
      /\ u.toks \in Seq(Tokens) /\ (u.mode = "gap" \/ Len(u.toks) >= 1)
  BY DEF LexStates
<1>3. \A e \in Tokens : Append(s.toks, e) = <<t>> \o Append(u.toks, e)
  <2> SUFFICES ASSUME NEW e \in Tokens PROVE Append(s.toks, e) = <<t>> \o Append(u.toks, e)
    OBVIOUS
  <2>1. <<t>> \in Seq(Tokens) /\ <<e>> \in Seq(Tokens) /\ <<t>> \o u.toks \in Seq(Tokens)
    BY <1>2
  <2>2. (<<t>> \o u.toks) \o <<e>> = <<t>> \o (u.toks \o <<e>>)
    BY <1>2, <2>1, ConcatAssociative
  <2>3. Append(<<t>> \o u.toks, e) = (<<t>> \o u.toks) \o <<e>>
    BY <2>1, AppendIsConcat
  <2>4. Append(u.toks, e) = u.toks \o <<e>>
    BY <1>2, AppendIsConcat
  <2> QED
    BY <1>1, <2>2, <2>3, <2>4
<1>4. Len(u.toks) >= 1 => Longer(s.toks, c) = <<t>> \o Longer(u.toks, c)
  BY <1>1, <1>2, LongerBehind
<1>5. "gap" \notin Quotes /\ "word" \notin Quotes
  BY DEF Quotes
<1>6. CASE s.mode \in Quotes /\ c = s.mode
  <2>1. /\ LexStep(s, c) = [s EXCEPT !.mode = "gap"]
        /\ LexStep(u, c) = [u EXCEPT !.mode = "gap"]
    BY <1>1, <1>6 DEF LexStep
  <2> QED
    BY <2>1, <1>1, <1>2 DEF Trails
<1>7. CASE s.mode \in Quotes /\ c # s.mode
  <2>1. /\ LexStep(s, c) = [s EXCEPT !.toks = Longer(s.toks, c)]
        /\ LexStep(u, c) = [u EXCEPT !.toks = Longer(u.toks, c)]
    BY <1>1, <1>7 DEF LexStep
  <2> QED
    BY <2>1, <1>1, <1>2, <1>4, <1>5, <1>7 DEF Trails
<1>8. CASE s.mode \notin Quotes /\ c = Blank
  <2>1. /\ LexStep(s, c) = [s EXCEPT !.mode = "gap"]
        /\ LexStep(u, c) = [u EXCEPT !.mode = "gap"]
    BY <1>1, <1>8 DEF LexStep, Blank, Amper, Quotes
  <2> QED
    BY <2>1, <1>1, <1>2 DEF Trails
<1>9. CASE s.mode \notin Quotes /\ c = Amper
  <2> DEFINE e == Token("amper", <<Amper>>)
  <2>1. /\ LexStep(s, c) = [s EXCEPT !.mode = "gap", !.toks = Append(s.toks, e)]
        /\ LexStep(u, c) = [u EXCEPT !.mode = "gap", !.toks = Append(u.toks, e)]
    BY <1>1, <1>9 DEF LexStep, Blank, Amper, Quotes
  <2>2. e \in Tokens
    BY <1>9, NewTokens
  <2> HIDE DEF e
  <2> QED
    BY <2>1, <2>2, <1>1, <1>2, <1>3 DEF Trails
<1>10. CASE s.mode \notin Quotes /\ c \in Quotes
  <2> DEFINE e == Token("other", <<>>)
  <2>1. /\ LexStep(s, c) = [mode |-> c, bad |-> s.bad \/ s.mode = "word",
                            toks |-> Append(s.toks, e)]
        /\ LexStep(u, c) = [mode |-> c, bad |-> u.bad \/ u.mode = "word",
                            toks |-> Append(u.toks, e)]
    BY <1>1, <1>10 DEF LexStep, Blank, Amper, Quotes
  <2>2. e \in Tokens
    BY NewTokens
  <2> HIDE DEF e
  <2> QED
    BY <2>1, <2>2, <1>1, <1>3 DEF Trails
<1>11. CASE s.mode = "word" /\ c \notin {Blank, Amper} \cup Quotes
  <2>1. /\ LexStep(s, c) = [s EXCEPT !.toks = Longer(s.toks, c)]
        /\ LexStep(u, c) = [u EXCEPT !.toks = Longer(u.toks, c)]
    BY <1>1, <1>5, <1>11 DEF LexStep
  <2> QED
    BY <2>1, <1>1, <1>2, <1>4, <1>11 DEF Trails
<1>12. CASE s.mode = "gap" /\ c \notin {Blank, Amper} \cup Quotes
  <2> DEFINE e == Token("other", <<c>>)
  <2>1. /\ LexStep(s, c) = [s EXCEPT !.mode = "word", !.toks = Append(s.toks, e)]
        /\ LexStep(u, c) = [u EXCEPT !.mode = "word", !.toks = Append(u.toks, e)]
    BY <1>1, <1>5, <1>12 DEF LexStep
  <2>2. e \in Tokens
    BY NewTokens
  <2> HIDE DEF e
  <2> QED
    BY <2>1, <2>2, <1>1, <1>2, <1>3 DEF Trails
<1> QED
  BY <1>2, <1>6, <1>7, <1>8, <1>9, <1>10, <1>11, <1>12

--------------------------------------------------------------------------------
(* What the automaton is in after each place of the line if it reads the   *)
(* characters at the places of a set.                                      *)
Reads(h, line, places) ==
    /\ h \in [0 .. Len(line) -> LexStates]
    /\ h[0] = LexStart
    /\ \A i \in 1 .. Len(line) :
          h[i] = IF i \in places THEN LexStep(h[i - 1], line[i]) ELSE h[i - 1]

Reading(line, places) == CHOOSE h : Reads(h, line, places)

LEMMA StartTypes == LexStart \in LexStates
BY DEF LexStart, LexStates

LEMMA ReadingReads ==
    ASSUME NEW line \in Seq(Chars), NEW places
    PROVE  Reads(Reading(line, places), line, places)
<1> DEFINE n == Len(line)
           F(i) == [s \in LexStates |-> IF i \in places THEN LexStep(s, line[i]) ELSE s]
           step == [i \in 1 .. n |-> F(i)]
<1>1. n \in Nat /\ \A i \in 1 .. n : line[i] \in Chars
  BY LenProperties, ElementOfSeq
<1>2. \A i \in 1 .. n : F(i) \in [LexStates -> LexStates]
  BY <1>1, StepTypes
<1>3. step \in [1 .. n -> [LexStates -> LexStates]]
  <2> HIDE DEF F
  <2> QED
    BY <1>2
<1>4. \A i \in 1 .. n : \A s \in LexStates :
          step[i][s] = IF i \in places THEN LexStep(s, line[i]) ELSE s
  OBVIOUS
<1> HIDE DEF step
<1>5. \E h \in [0 .. n -> LexStates] : Iterated(h, n, LexStart, step)
  <2> HIDE DEF n
  <2> QED
    BY <1>1, <1>3, StartTypes, Iterates
<1>6. PICK h \in [0 .. n -> LexStates] : Iterated(h, n, LexStart, step)
  BY <1>5
<1>7. Reads(h, line, places)
  <2>1. \A i \in 1 .. n : i - 1 \in 0 .. n
    BY <1>1
  <2> QED
    BY <1>4, <1>6, <2>1 DEF Iterated, Reads
<1> QED
  BY <1>7 DEF Reading

(* Two readings agree as long as they read the same places.                *)
LEMMA SameReading ==
    ASSUME NEW line \in Seq(Chars), NEW a, NEW b, NEW n \in 0 .. Len(line),
           \A i \in 1 .. n : i \in a <=> i \in b
    PROVE  Reading(line, a)[n] = Reading(line, b)[n]
<1> DEFINE g == Reading(line, a)
           h == Reading(line, b)
           T == {i \in 0 .. n : g[i] = h[i]}
<1>1. Len(line) \in Nat /\ n \in Nat
  BY LenProperties
<1>2. Reads(g, line, a) /\ Reads(h, line, b)
  BY ReadingReads
<1> HIDE DEF g, h
<1>3. 0 \in T
  BY <1>1, <1>2 DEF Reads
<1>4. ASSUME NEW i \in 1 .. n, i - 1 \in T PROVE i \in T
  <2>1. i \in 1 .. Len(line) /\ i \in 0 .. n
    BY <1>1
  <2>2. g[i - 1] = h[i - 1]
    BY <1>4
  <2> QED
    BY <1>2, <2>1, <2>2 DEF Reads
<1>5. \A i \in 0 .. n : i \in T
  <2> HIDE DEF T
  <2> QED
    BY <1>1, <1>3, <1>4, Ascent
<1> QED
  BY <1>1, <1>5 DEF g, h

(* Nothing is read behind the last place of the set.                       *)
LEMMA ReadingRests ==
    ASSUME NEW line \in Seq(Chars), NEW a, NEW m \in 0 .. Len(line),
           \A i \in m + 1 .. Len(line) : i \notin a
    PROVE  Reading(line, a)[Len(line)] = Reading(line, a)[m]
<1> DEFINE h == Reading(line, a)
           T == {k \in 0 .. Len(line) - m : h[m + k] = h[m]}
<1>1. Len(line) \in Nat /\ m \in Nat /\ Len(line) - m \in Nat
  BY LenProperties
<1>2. Reads(h, line, a)
  BY ReadingReads
<1> HIDE DEF h
<1>3. 0 \in T
  BY <1>1
<1>4. ASSUME NEW k \in 1 .. Len(line) - m, k - 1 \in T PROVE k \in T
  <2>1. m + k \in 1 .. Len(line) /\ m + k \notin a /\ (m + k) - 1 = m + (k - 1)
        /\ k \in 0 .. Len(line) - m
    BY <1>1
  <2>2. h[m + k] = h[(m + k) - 1]
    BY <1>2, <2>1 DEF Reads
  <2> QED
    BY <1>4, <2>1, <2>2
<1>5. \A k \in 0 .. Len(line) - m : k \in T
  <2> HIDE DEF T
  <2> QED
    BY <1>1, <1>3, <1>4, Ascent
<1>6. Len(line) - m \in T /\ m + (Len(line) - m) = Len(line)
  BY <1>1, <1>5
<1> QED
  BY <1>6 DEF h

(* The fold of the reference is the reading of the whole line.             *)
LEMMA FoldReads ==
    ASSUME NEW line \in Seq(Chars)
    PROVE  FoldLeft(LexStep, LexStart, line) = Reading(line, 1 .. Len(line))[Len(line)]
<1> DEFINE n == Len(line)
           S == DOMAIN line
           Value(s) == Reading(line, s)[n]
           Body(f, s) == IF s = {} THEN LexStart ELSE LexStep(f[s \ {Max(s)}], line[Max(s)])
           Solves(f) == f = [s \in SUBSET S |-> Body(f, s)]
           g == [s \in SUBSET S |-> Value(s)]
<1>1. n \in Nat /\ S = 1 .. n
  BY LenProperties
<1>2. \A s \in SUBSET S : s # {} => Max(s) \in s /\ \A i \in s : i <= Max(s)
  <2> SUFFICES ASSUME NEW s \in SUBSET S, s # {}
               PROVE  \E m \in s : \A i \in s : m >= i
    BY <1>1 DEF Max
  <2> DEFINE B == {n - i : i \in s}
  <2>1. B \subseteq Nat /\ B # {}
    BY <1>1
  <2>2. PICK x \in B : \A y \in B : x <= y
    <3> HIDE DEF B
    <3> QED
      BY <2>1, Least
  <2>3. PICK m \in s : x = n - m
    OBVIOUS
  <2>4. \A i \in s : n - m <= n - i
    BY <2>2, <2>3
  <2>5. \A i \in s : m >= i
    <3> HIDE DEF B
    <3> QED
      BY <1>1, <2>4
  <2> QED
    BY <2>5
<1>3. Value({}) = LexStart
  <2>1. 0 \in 0 .. Len(line) /\ \A i \in 0 + 1 .. Len(line) : i \notin {}
    BY <1>1
  <2>2. Reading(line, {})[Len(line)] = Reading(line, {})[0]
    BY <2>1, ReadingRests
  <2> QED
    BY <2>2, ReadingReads DEF Reads
<1>4. ASSUME NEW s \in SUBSET S, s # {}
      PROVE  Value(s) = LexStep(Value(s \ {Max(s)}), line[Max(s)])
  <2> DEFINE m == Max(s)
             rest == s \ {m}
  <2>1. m \in s /\ m \in 1 .. n /\ \A i \in s : i <= m
    BY <1>1, <1>2, <1>4
  <2> HIDE DEF m
  <2>2. Value(s) = Reading(line, s)[m]
    <3>1. m \in 0 .. Len(line) /\ \A i \in m + 1 .. Len(line) : i \notin s
      BY <1>1, <2>1
    <3> QED
      BY <3>1, ReadingRests
  <2>3. Value(rest) = Reading(line, rest)[m - 1]
    <3>1. m - 1 \in 0 .. Len(line) /\ \A i \in (m - 1) + 1 .. Len(line) : i \notin rest
      BY <1>1, <2>1
    <3> HIDE DEF rest
    <3> QED
      BY <3>1, ReadingRests
  <2>4. Reading(line, s)[m - 1] = Reading(line, rest)[m - 1]
    <3>1. PICK p \in 0 .. Len(line) : p = m - 1
      BY <1>1, <2>1
    <3>2. \A i \in 1 .. p : i \in s <=> i \in rest
      BY <1>1, <2>1, <3>1
    <3> HIDE DEF rest
    <3>3. Reading(line, s)[p] = Reading(line, rest)[p]
      BY <3>2, SameReading
    <3> QED
      BY <3>1, <3>3
  <2>5. Reading(line, s)[m] = LexStep(Reading(line, s)[m - 1], line[m])
    BY <2>1, ReadingReads DEF Reads
  <2> QED
    BY <2>2, <2>3, <2>4, <2>5 DEF m
<1> HIDE DEF Value
<1>5. Solves(g)
  <2>1. ASSUME NEW s \in SUBSET S PROVE Value(s) = Body(g, s)
    <3>1. CASE s = {}
      BY <1>3, <3>1
    <3>2. CASE s # {}
      <4>1. s \ {Max(s)} \in SUBSET S
        OBVIOUS
      <4>2. g[s \ {Max(s)}] = Value(s \ {Max(s)})
        BY <4>1
      <4> QED
        BY <1>4, <3>2, <4>2
    <3> QED
      BY <3>1, <3>2
  <2> DEFINE k == [s \in SUBSET S |-> Body(g, s)]
  <2>2. \A s \in SUBSET S : g[s] = k[s]
    <3> HIDE DEF Body, S
    <3> QED
      BY <2>1
  <2>3. g = k
    <3> HIDE DEF Body
    <3> QED
      BY <2>2
  <2> QED
    BY <2>3
<1> DEFINE chosen == CHOOSE f : Solves(f)
<1>6. Solves(chosen)
  <2> HIDE DEF Solves, g
  <2> QED
    BY <1>5
<1>7. FoldLeft(LexStep, LexStart, line) = chosen[S]
  BY DEF FoldLeft, MapThenFoldSet
<1>8. \A s \in SUBSET S : chosen[s] = Body(chosen, s)
  <2> HIDE DEF chosen, Body
  <2> QED
    BY <1>6
<1> HIDE DEF chosen
<1> DEFINE T == {i \in 0 .. n : chosen[1 .. i] = Value(1 .. i)}
<1>9. 0 \in T
  <2>1. 1 .. 0 = {} /\ {} \in SUBSET S
    OBVIOUS
  <2>2. chosen[{}] = Body(chosen, {})
    BY <1>8, <2>1
  <2>3. chosen[1 .. 0] = Value(1 .. 0)
    BY <1>3, <2>1, <2>2
  <2> HIDE DEF S
  <2> QED
    BY <1>1, <2>3
<1>10. ASSUME NEW i \in 1 .. n, i - 1 \in T PROVE i \in T
  <2> DEFINE s == 1 .. i
             r == 1 .. i - 1
  <2>1. s \in SUBSET S /\ s # {} /\ i \in s /\ i \in 0 .. n /\ i - 1 \in 0 .. n
    <3>1. \A k \in 1 .. i : k \in S
      BY <1>1
    <3>2. i \in s /\ i \in 0 .. n /\ i - 1 \in 0 .. n
      BY <1>1
    <3> QED
      BY <3>1, <3>2
  <2>2. Max(s) = i
    <3>1. Max(s) \in s /\ \A k \in s : k <= Max(s)
      <4> HIDE DEF s, S
      <4> QED
        BY <1>2, <2>1
    <3> QED
      BY <2>1, <3>1
  <2>3. s \ {i} = r
    OBVIOUS
  <2>4. chosen[s] = LexStep(chosen[r], line[i])
    <3>1. chosen[s] = Body(chosen, s)
      BY <1>8, <2>1
    <3>2. s # {} /\ Max(s) = i /\ s \ {Max(s)} = r
      BY <2>1, <2>2, <2>3
    <3> HIDE DEF s, r
    <3> QED
      BY <3>1, <3>2
  <2>5. Value(s) = LexStep(Value(r), line[i])
    <3>1. Value(s) = LexStep(Value(s \ {Max(s)}), line[Max(s)])
      BY <1>4, <2>1
    <3>2. Max(s) = i /\ s \ {Max(s)} = r
      BY <2>2, <2>3
    <3> HIDE DEF s, r
    <3> QED
      BY <3>1, <3>2
  <2>6. chosen[r] = Value(r)
    BY <1>10
  <2> QED
    BY <2>1, <2>4, <2>5, <2>6
<1>11. \A i \in 0 .. n : i \in T
  <2> HIDE DEF T, n
  <2> QED
    BY <1>1, <1>9, <1>10, Ascent
<1>12. chosen[1 .. n] = Value(1 .. n)
  BY <1>1, <1>11
<1> QED
  BY <1>1, <1>7, <1>12 DEF Value

--------------------------------------------------------------------------------
(* The inner loops: what the automaton is in while one of them runs.       *)

LEMMA FirstPlace ==
    ASSUME NEW line \in Seq(Chars), NEW p \in 1 .. Len(line) + 1, NEW stops
    PROVE  /\ First(line, p, stops) \in p .. Len(line) + 1
           /\ First(line, p, stops) <= Len(line) => line[First(line, p, stops)] \in stops
           /\ \A i \in p .. First(line, p, stops) - 1 : line[i] \notin stops
<1> DEFINE n == Len(line)
           T == {q \in p .. n : line[q] \in stops} \cup {n + 1}
           m == Min(T)
<1>1. n \in Nat
  BY LenProperties
<1>2. T \subseteq p .. n + 1 /\ T # {}
  BY <1>1
<1>3. \E k \in T : \A x \in T : k <= x
  <2>1. T \subseteq Nat
    BY <1>1, <1>2
  <2> HIDE DEF T
  <2> QED
    BY <1>2, <2>1, Least
<1>4. m \in T /\ \A x \in T : m <= x
  <2> HIDE DEF T
  <2> QED
    BY <1>3 DEF Min
<1>5. m = First(line, p, stops)
  BY DEF First
<1> HIDE DEF m
<1>6. m \in p .. n + 1 /\ (m <= n => line[m] \in stops)
  BY <1>1, <1>4
<1>7. ASSUME NEW i \in p .. m - 1 PROVE line[i] \notin stops
  <2>1. i \in p .. n /\ ~ (m <= i)
    BY <1>1, <1>6
  <2> QED
    BY <1>4, <2>1
<1> QED
  BY <1>5, <1>6, <1>7

(* A relation of the state to the place, kept by every character from one  *)
(* place to another.                                                       *)
LEMMA Onwards ==
    ASSUME NEW a \in Nat, NEW b \in Nat, a <= b, NEW T, a \in T,
           \A i \in a + 1 .. b : i - 1 \in T => i \in T
    PROVE  \A i \in a .. b : i \in T
<1> DEFINE U == {k \in 0 .. b - a : a + k \in T}
<1>1. b - a \in Nat /\ 0 \in U
  OBVIOUS
<1>2. ASSUME NEW k \in 1 .. b - a, k - 1 \in U PROVE k \in U
  <2>1. a + k \in a + 1 .. b /\ (a + k) - 1 = a + (k - 1) /\ k \in 0 .. b - a
    OBVIOUS
  <2>2. a + (k - 1) \in T
    BY <1>2
  <2> QED
    BY <2>1, <2>2
<1>3. \A k \in 0 .. b - a : k \in U
  <2> HIDE DEF U
  <2> QED
    BY <1>1, <1>2, Ascent
<1>4. \A i \in a .. b : i - a \in 0 .. b - a /\ a + (i - a) = i
  OBVIOUS
<1> QED
  BY <1>3, <1>4

(* The reading of the line from p on, by its steps.                        *)
From(line, p) == Reading(line, p .. Len(line))

LEMMA FromSteps ==
    ASSUME NEW line \in Seq(Chars), NEW p \in 1 .. Len(line) + 1
    PROVE  /\ \A i \in 0 .. Len(line) : From(line, p)[i] \in LexStates
           /\ \A i \in p .. Len(line) :
                 From(line, p)[i] = LexStep(From(line, p)[i - 1], line[i])
           /\ \A i \in 0 .. p - 1 : From(line, p)[i] = LexStart
<1> DEFINE h == From(line, p)
           T == {i \in 0 .. p - 1 : h[i] = LexStart}
<1>1. Len(line) \in Nat
  BY LenProperties
<1>2. Reads(h, line, p .. Len(line))
  BY ReadingReads DEF From
<1> HIDE DEF h
<1>3. \A i \in 0 .. Len(line) : h[i] \in LexStates
  BY <1>2 DEF Reads
<1>4. \A i \in p .. Len(line) : h[i] = LexStep(h[i - 1], line[i])
  BY <1>1, <1>2 DEF Reads
<1>5. 0 \in T
  BY <1>2 DEF Reads
<1>6. ASSUME NEW i \in 1 .. p - 1, i - 1 \in T PROVE i \in T
  <2>1. i \in 1 .. Len(line) /\ i \notin p .. Len(line) /\ i \in 0 .. p - 1
    BY <1>1
  <2>2. h[i] = h[i - 1]
    BY <1>2, <2>1 DEF Reads
  <2> QED
    BY <1>6, <2>1, <2>2
<1>7. \A i \in 0 .. p - 1 : i \in T
  <2>1. p - 1 \in Nat
    BY <1>1
  <2> HIDE DEF T
  <2> QED
    BY <1>5, <1>6, <2>1, Ascent
<1> QED
  BY <1>3, <1>4, <1>7 DEF h

(* Blanks before a token.                                                  *)
LEMMA BlanksRead ==
    ASSUME NEW line \in Seq(Chars), NEW p \in 1 .. Len(line) + 1,
           NEW q \in p .. Len(line) + 1, \A i \in p .. q - 1 : line[i] = Blank
    PROVE  From(line, p)[q - 1] = LexStart
<1> DEFINE h == From(line, p)
           T == {i \in 0 .. Len(line) : h[i] = LexStart}
<1>1. Len(line) \in Nat /\ p - 1 \in Nat /\ q - 1 \in Nat /\ p - 1 <= q - 1
  BY LenProperties
<1>2. p - 1 \in T
  BY <1>1, FromSteps
<1>3. LexStep(LexStart, Blank) = LexStart
  BY DEF LexStep, LexStart, Quotes, Blank, Amper
<1>4. ASSUME NEW i \in (p - 1) + 1 .. q - 1, i - 1 \in T PROVE i \in T
  <2>1. i \in p .. Len(line) /\ i \in p .. q - 1 /\ i \in 0 .. Len(line)
    BY <1>1
  <2>2. h[i] = LexStep(h[i - 1], line[i])
    BY <2>1, FromSteps
  <2> QED
    BY <1>3, <1>4, <2>1, <2>2
<1>5. \A i \in p - 1 .. q - 1 : i \in T
  <2> HIDE DEF T
  <2>1. PICK a \in Nat : a = p - 1
    BY <1>1
  <2>2. PICK b \in Nat : b = q - 1
    BY <1>1
  <2> QED
    BY <1>1, <1>2, <1>4, <2>1, <2>2, Onwards
<1> QED
  BY <1>1, <1>5

(* A token alone, and what a further character makes of it.                *)
LEMMA LongerText ==
    ASSUME NEW x \in Seq(Chars), NEW c \in Chars
    PROVE  Longer(<<Token("other", x)>>, c) = <<Token("other", Append(x, c))>>
<1> DEFINE toks == <<Token("other", x)>>
           new == Longer(toks, c)
<1>1. toks \in Seq(Tokens) /\ Len(toks) = 1 /\ toks[1] = Token("other", x)
  BY DEF Tokens, Token
<1>2. Token("other", x).type = "other" /\ Token("other", x).text = x
  BY DEF Token
<1>3. new \in Seq(Tokens) /\ Len(new) = 1 /\ new[1] = Token("other", Append(x, c))
  <2>1. /\ new \in Seq(Tokens) /\ Len(new) = Len(toks)
        /\ new[Len(toks)] = Token(toks[Len(toks)].type, Append(toks[Len(toks)].text, c))
    <3>1. toks \in Seq(Tokens) /\ Len(toks) >= 1
      BY <1>1
    <3> HIDE DEF toks
    <3> QED
      BY <3>1, LongerTypes
  <2> HIDE DEF toks, new
  <2> QED
    BY <1>1, <1>2, <2>1
<1> HIDE DEF new
<1>4. new = <<new[1]>>
  BY <1>3
<1> QED
  BY <1>3, <1>4 DEF new

LEMMA OneMore ==
    ASSUME NEW line \in Seq(Chars), NEW a \in 1 .. Len(line) + 1,
           NEW i \in a .. Len(line)
    PROVE  /\ SubSeq(line, a, i - 1) \in Seq(Chars)
           /\ SubSeq(line, a, i) = Append(SubSeq(line, a, i - 1), line[i])
<1>1. Len(line) \in Nat /\ \A k \in 1 .. Len(line) : line[k] \in Chars
  BY LenProperties, ElementOfSeq
<1>2. SubSeq(line, a, i - 1) \in Seq(Chars)
  BY <1>1, SubSeqProperties
<1>3. SubSeq(line, a, i) = SubSeq(line, a, i - 1) \o <<line[i]>>
  BY <1>1, SubSeqRecursiveSecond
<1> QED
  BY <1>1, <1>2, <1>3, AppendIsConcat

(* The automaton has read one token.                                       *)
OneToken(s, mode, x) == s.mode = mode /\ ~s.bad /\ s.toks = <<Token("other", x)>>

(* It reads a character more of it.                                        *)
LEMMA TokenGoesOn ==
    ASSUME NEW s \in LexStates, NEW x \in Seq(Chars), NEW c \in Chars,
           OneToken(s, s.mode, x),
           \/ s.mode = "word" /\ c \notin {Blank, Amper} \cup Quotes
           \/ s.mode \in Quotes /\ c # s.mode
    PROVE  OneToken(LexStep(s, c), s.mode, Append(x, c))
<1>1. LexStep(s, c) = [s EXCEPT !.toks = Longer(s.toks, c)]
  BY DEF LexStep, Quotes
<1>2. Longer(s.toks, c) = <<Token("other", Append(x, c))>>
  BY LongerText DEF OneToken
<1>3. s = [mode |-> s.mode, bad |-> s.bad, toks |-> s.toks] /\ ~s.bad
  BY DEF LexStates, OneToken
<1> QED
  BY <1>1, <1>2, <1>3 DEF OneToken

(* It reads the first one.                                                 *)
LEMMA TokenBegins ==
    ASSUME NEW c \in Chars, c \notin {Blank, Amper}
    PROVE  /\ c \notin Quotes => OneToken(LexStep(LexStart, c), "word", <<c>>)
           /\ c \in Quotes => OneToken(LexStep(LexStart, c), c, <<>>)
<1>1. LexStart.mode = "gap" /\ ~LexStart.bad /\ LexStart.toks = <<>> /\ "gap" \notin Quotes
      /\ LexStart \in [mode : {"gap"}, bad : BOOLEAN, toks : {<<>>}]
  BY DEF LexStart, Quotes
<1>2. \A e : Append(<<>>, e) = <<e>>
  OBVIOUS
<1>3. CASE c \notin Quotes
  <2> DEFINE e == Token("other", <<c>>)
             s == [LexStart EXCEPT !.mode = "word", !.toks = Append(@, e)]
  <2>1. LexStep(LexStart, c) = s
    BY <1>1, <1>3 DEF LexStep
  <2> HIDE DEF e
  <2>2. s.mode = "word" /\ s.bad = LexStart.bad /\ s.toks = Append(LexStart.toks, e)
    BY <1>1
  <2>3. Append(LexStart.toks, e) = <<e>>
    BY <1>1, <1>2, Zenon
  <2> HIDE DEF s
  <2> QED
    BY <1>1, <1>3, <2>1, <2>2, <2>3 DEF OneToken, e
<1>4. CASE c \in Quotes
  <2> DEFINE e == Token("other", <<>>)
             s == [mode |-> c, bad |-> LexStart.bad \/ LexStart.mode = "word",
                   toks |-> Append(LexStart.toks, e)]
  <2>1. LexStep(LexStart, c) = s
    BY <1>1, <1>4 DEF LexStep, Quotes, Blank, Amper
  <2> HIDE DEF e
  <2>2. s.mode = c /\ ~s.bad /\ s.toks = Append(LexStart.toks, e)
    BY <1>1
  <2>3. Append(LexStart.toks, e) = <<e>>
    BY <1>1, <1>2, Zenon
  <2> HIDE DEF s
  <2> QED
    BY <1>1, <1>4, <2>1, <2>2, <2>3 DEF OneToken, e
<1> QED
  BY <1>3, <1>4

(* The loop over a word, up to the place e where it stops.                 *)
LEMMA WordRead ==
    ASSUME NEW line \in Seq(Chars), NEW p \in 1 .. Len(line), NEW q \in p .. Len(line),
           From(line, p)[q - 1] = LexStart, line[q] \notin {Blank, Amper} \cup Quotes,
           NEW e \in q + 1 .. Len(line) + 1,
           \A i \in q + 1 .. e - 1 : line[i] \notin EndsWord
    PROVE  OneToken(From(line, p)[e - 1], "word", SubSeq(line, q, e - 1))
<1> DEFINE h == From(line, p)
           T == {i \in 0 .. Len(line) : OneToken(h[i], "word", SubSeq(line, q, i))}
<1>1. /\ Len(line) \in Nat /\ q \in Nat /\ e - 1 \in Nat /\ q <= e - 1
      /\ \A i \in 1 .. Len(line) : line[i] \in Chars
  BY LenProperties, ElementOfSeq
<1>2. q \in T
  <2>1. h[q] = LexStep(LexStart, line[q])
    <3>1. q \in p .. Len(line)
      OBVIOUS
    <3> QED
      BY <3>1, FromSteps
  <2>2. <<line[q]>> = SubSeq(line, q, q)
    BY <1>1
  <2>3. line[q] \in Chars
    BY <1>1
  <2>4. OneToken(h[q], "word", SubSeq(line, q, q))
    BY <2>1, <2>2, <2>3, TokenBegins
  <2> QED
    BY <1>1, <2>4
<1>3. ASSUME NEW i \in q + 1 .. e - 1, i - 1 \in T PROVE i \in T
  <2>1. /\ i \in p .. Len(line) /\ i \in q .. Len(line) /\ i \in 0 .. Len(line)
        /\ i - 1 \in 0 .. Len(line)
        /\ line[i] \in Chars /\ line[i] \notin {Blank, Amper} \cup Quotes
    BY <1>1 DEF EndsWord
  <2>2. h[i] = LexStep(h[i - 1], line[i]) /\ h[i - 1] \in LexStates
    BY <2>1, FromSteps
  <2> DEFINE x == SubSeq(line, q, i - 1)
  <2>3. q \in 1 .. Len(line) + 1
    BY <1>1
  <2>4. x \in Seq(Chars) /\ SubSeq(line, q, i) = Append(x, line[i])
    BY <2>1, <2>3, OneMore
  <2>5. OneToken(h[i - 1], "word", x)
    BY <1>3
  <2>6. h[i - 1].mode = "word"
    BY <2>5 DEF OneToken
  <2> HIDE DEF x, h
  <2>7. OneToken(h[i], "word", Append(x, line[i]))
    BY <2>1, <2>2, <2>4, <2>5, <2>6, TokenGoesOn
  <2> QED
    BY <2>1, <2>4, <2>7
<1>4. \A i \in q .. e - 1 : i \in T
  <2> HIDE DEF T
  <2>1. PICK b \in Nat : b = e - 1
    BY <1>1
  <2> QED
    BY <1>1, <1>2, <1>3, <2>1, Onwards
<1> QED
  BY <1>1, <1>4

(* The loop over a quoted string, up to the place e where it stops.        *)
LEMMA QuoteRead ==
    ASSUME NEW line \in Seq(Chars), NEW p \in 1 .. Len(line), NEW q \in p .. Len(line),
           From(line, p)[q - 1] = LexStart, line[q] \in Quotes,
           NEW e \in q + 1 .. Len(line) + 1,
           \A i \in q + 1 .. e - 1 : line[i] \notin {line[q]}
    PROVE  OneToken(From(line, p)[e - 1], line[q], SubSeq(line, q + 1, e - 1))
<1> DEFINE h == From(line, p)
           T == {i \in 0 .. Len(line) : OneToken(h[i], line[q], SubSeq(line, q + 1, i))}
<1>1. /\ Len(line) \in Nat /\ q \in Nat /\ e - 1 \in Nat /\ q <= e - 1
      /\ \A i \in 1 .. Len(line) : line[i] \in Chars
  BY LenProperties, ElementOfSeq
<1>2. q \in T
  <2>1. h[q] = LexStep(LexStart, line[q])
    <3>1. q \in p .. Len(line)
      OBVIOUS
    <3> QED
      BY <3>1, FromSteps
  <2>2. <<>> = SubSeq(line, q + 1, q)
    BY <1>1
  <2>3. line[q] \in Chars /\ line[q] \notin {Blank, Amper}
    <3>1. line[q] \in Chars
      BY <1>1
    <3>2. line[q] \notin {Blank, Amper}
      BY DEF Quotes, Blank, Amper
    <3> QED
      BY <3>1, <3>2
  <2>4. OneToken(h[q], line[q], SubSeq(line, q + 1, q))
    BY <2>1, <2>2, <2>3, TokenBegins
  <2> QED
    BY <1>1, <2>4
<1>3. ASSUME NEW i \in q + 1 .. e - 1, i - 1 \in T PROVE i \in T
  <2>1. /\ i \in p .. Len(line) /\ i \in q + 1 .. Len(line) /\ i \in 0 .. Len(line)
        /\ i - 1 \in 0 .. Len(line)
        /\ line[i] \in Chars /\ line[i] # line[q]
    BY <1>1
  <2>2. h[i] = LexStep(h[i - 1], line[i]) /\ h[i - 1] \in LexStates
    BY <2>1, FromSteps
  <2> DEFINE x == SubSeq(line, q + 1, i - 1)
  <2>3. q + 1 \in 1 .. Len(line) + 1
    BY <1>1
  <2>4. x \in Seq(Chars) /\ SubSeq(line, q + 1, i) = Append(x, line[i])
    BY <2>1, <2>3, OneMore
  <2>5. OneToken(h[i - 1], line[q], x)
    BY <1>3
  <2>6. h[i - 1].mode = line[q]
    BY <2>5 DEF OneToken
  <2> HIDE DEF x, h
  <2>7. OneToken(h[i], line[q], Append(x, line[i]))
    BY <2>1, <2>2, <2>4, <2>5, <2>6, TokenGoesOn
  <2> QED
    BY <2>1, <2>4, <2>7
<1>4. \A i \in q .. e - 1 : i \in T
  <2> HIDE DEF T
  <2>1. PICK b \in Nat : b = e - 1
    BY <1>1
  <2> QED
    BY <1>1, <1>2, <1>3, <2>1, Onwards
<1> QED
  BY <1>1, <1>4

(* A reading that began later stays behind by one token.                   *)
LEMMA BehindOn ==
    ASSUME NEW line \in Seq(Chars), NEW p \in 1 .. Len(line) + 1,
           NEW r \in 1 .. Len(line) + 1, NEW k \in 0 .. Len(line),
           k >= p - 1, k >= r - 1, NEW t \in Tokens,
           Trails(From(line, p)[k], From(line, r)[k], t)
    PROVE  Trails(From(line, p)[Len(line)], From(line, r)[Len(line)], t)
<1> DEFINE g == From(line, p)
           h == From(line, r)
           n == Len(line)
           T == {i \in 0 .. n : Trails(g[i], h[i], t)}
<1>1. n \in Nat /\ k \in Nat /\ k <= n /\ \A i \in 1 .. n : line[i] \in Chars
  BY LenProperties, ElementOfSeq
<1>2. k \in T
  OBVIOUS
<1>3. ASSUME NEW i \in k + 1 .. n, i - 1 \in T PROVE i \in T
  <2>1. i \in p .. n /\ i \in r .. n /\ i \in 0 .. n /\ i - 1 \in 0 .. n /\ line[i] \in Chars
    BY <1>1
  <2>2. g[i] = LexStep(g[i - 1], line[i]) /\ g[i - 1] \in LexStates
    BY <2>1, FromSteps
  <2>3. h[i] = LexStep(h[i - 1], line[i]) /\ h[i - 1] \in LexStates
    BY <2>1, FromSteps
  <2>4. Trails(g[i - 1], h[i - 1], t)
    BY <1>3
  <2> HIDE DEF g, h
  <2>5. Trails(g[i], h[i], t)
    BY <2>1, <2>2, <2>3, <2>4, StepBehind
  <2> QED
    BY <2>1, <2>5
<1>4. \A i \in k .. n : i \in T
  <2> HIDE DEF T, n
  <2> QED
    BY <1>1, <1>2, <1>3, Onwards
<1> QED
  BY <1>1, <1>4

--------------------------------------------------------------------------------
(* The outer loop.                                                         *)

(* What the reference makes of the line from p on, with n tokens found     *)
(* before.                                                                 *)
Rest(line, p, n) ==
    LET s == From(line, p)[Len(line)]
        full == n + Len(s.toks) > MAXTOK
                \/ (n + Len(s.toks) = MAXTOK /\ s.mode = "gap" /\ p <= Len(line)
                    /\ line[Len(line)] = Blank)
    IN  IF s.bad \/ s.mode \in Quotes \/ full THEN SYSERR
        ELSE [ok |-> TRUE, toks |-> s.toks]

LEMMA WholeLine ==
    ASSUME NEW line \in Seq(Chars), line # <<>>
    PROVE  LexRef(line) = Rest(line, 1, 0)
<1> DEFINE s == From(line, 1)[Len(line)]
<1>1. FoldLeft(LexStep, LexStart, line) = s
  BY FoldReads DEF From
<1>2. 1 <= Len(line) /\ Len(line) \in Nat
  BY LenProperties, EmptySeq
<1>3. s \in LexStates
  <2>1. Len(line) \in 0 .. Len(line) /\ 1 \in 1 .. Len(line) + 1
    BY <1>2
  <2> QED
    BY <2>1, FromSteps
<1> HIDE DEF s
<1>4. Len(s.toks) \in Nat
  BY <1>3, LenProperties DEF LexStates
<1>5. 0 + Len(s.toks) = Len(s.toks)
  BY <1>4
<1> QED
  BY <1>1, <1>2, <1>5 DEF LexRef, Rest, s

(* A token of the code is one of the reference.                            *)
LEMMA TokenFound ==
    ASSUME NEW line \in Seq(Chars), NEW p \in 1 .. Len(line),
           NEW r \in p + 1 .. Len(line) + 1, NEW n \in 0 .. MAXTOK - 1, NEW t \in Tokens,
           Trails(From(line, p)[Len(line)], From(line, r)[Len(line)], t),
           r = Len(line) + 1 => line[Len(line)] # Blank
    PROVE  Rest(line, p, n) = Then(t, Rest(line, r, n + 1))
<1> DEFINE s == From(line, p)[Len(line)]
           u == From(line, r)[Len(line)]
           Full(m, x, q) == m + Len(x.toks) > MAXTOK
                \/ (m + Len(x.toks) = MAXTOK /\ x.mode = "gap" /\ q <= Len(line)
                    /\ line[Len(line)] = Blank)
<1>1. Len(line) \in Nat /\ Len(line) \in 0 .. Len(line)
      /\ p \in 1 .. Len(line) + 1 /\ r \in 1 .. Len(line) + 1
  BY LenProperties
<1>2. s \in LexStates /\ u \in LexStates
  BY <1>1, FromSteps
<1>3. Trails(s, u, t)
  OBVIOUS
<1> HIDE DEF s, u
<1>4. u.toks \in Seq(Tokens) /\ s.toks = <<t>> \o u.toks /\ s.mode = u.mode /\ s.bad = u.bad
  BY <1>2, <1>3 DEF Trails, LexStates
<1>5. Len(u.toks) \in Nat /\ Len(s.toks) = 1 + Len(u.toks)
  BY <1>4, ConcatProperties, LenProperties
<1>6. n \in Nat /\ MAXTOK \in Nat
  BY LexanAssumption
<1>7. n + Len(s.toks) = (n + 1) + Len(u.toks)
  <2>1. \A x, y \in Nat : x = 1 + y => n + x = (n + 1) + y
    BY <1>6
  <2>2. Len(s.toks) \in Nat
    BY <1>5
  <2> QED
    BY <1>5, <2>1, <2>2
<1>8. p <= Len(line) /\ (line[Len(line)] = Blank => r <= Len(line))
  BY <1>1
<1>9. Full(n, s, p) <=> Full(n + 1, u, r)
  <2>1. n + Len(s.toks) > MAXTOK <=> (n + 1) + Len(u.toks) > MAXTOK
    BY <1>7
  <2>2. n + Len(s.toks) = MAXTOK <=> (n + 1) + Len(u.toks) = MAXTOK
    BY <1>7
  <2> QED
    BY <1>4, <1>8, <2>1, <2>2
<1>10. Rest(line, p, n) = IF s.bad \/ s.mode \in Quotes \/ Full(n, s, p) THEN SYSERR
                          ELSE [ok |-> TRUE, toks |-> s.toks]
  BY DEF Rest, s
<1>11. Rest(line, r, n + 1) = IF u.bad \/ u.mode \in Quotes \/ Full(n + 1, u, r) THEN SYSERR
                              ELSE [ok |-> TRUE, toks |-> u.toks]
  BY DEF Rest, u
<1> HIDE DEF Full
<1>12. CASE s.bad \/ s.mode \in Quotes \/ Full(n, s, p)
  <2>1. Rest(line, p, n) = SYSERR /\ Rest(line, r, n + 1) = SYSERR
    BY <1>4, <1>9, <1>10, <1>11, <1>12
  <2> QED
    BY <2>1 DEF Then, SYSERR
<1>13. CASE ~ (s.bad \/ s.mode \in Quotes \/ Full(n, s, p))
  <2>1. /\ Rest(line, p, n) = [ok |-> TRUE, toks |-> s.toks]
        /\ Rest(line, r, n + 1) = [ok |-> TRUE, toks |-> u.toks]
    BY <1>4, <1>9, <1>10, <1>11, <1>13
  <2> DEFINE found == Rest(line, r, n + 1)
  <2>2. found.ok /\ found.toks = u.toks
    BY <2>1
  <2> HIDE DEF found
  <2>3. Then(t, found) = [ok |-> TRUE, toks |-> <<t>> \o u.toks]
    BY <2>2 DEF Then
  <2> QED
    BY <1>4, <2>1, <2>3 DEF found
<1> QED
  BY <1>12, <1>13

(* Nothing is left but, perhaps, blanks.                                   *)
LEMMA RestNone ==
    ASSUME NEW line \in Seq(Chars), NEW p \in 1 .. Len(line) + 1, NEW n \in 0 .. MAXTOK,
           p <= Len(line) => n < MAXTOK,
           \A i \in p .. Len(line) : line[i] = Blank
    PROVE  Rest(line, p, n) = None
<1> DEFINE s == From(line, p)[Len(line)]
<1>1. Len(line) \in Nat /\ MAXTOK \in Nat
  BY LenProperties, LexanAssumption
<1>2. s = LexStart
  <2>1. PICK q \in p .. Len(line) + 1 : q - 1 = Len(line)
    BY <1>1
  <2>2. \A i \in p .. q - 1 : line[i] = Blank
    BY <2>1
  <2>3. From(line, p)[q - 1] = LexStart
    BY <2>2, BlanksRead
  <2> QED
    BY <2>1, <2>3
<1>3. ~s.bad /\ s.mode = "gap" /\ "gap" \notin Quotes /\ s.toks = <<>> /\ Len(s.toks) = 0
  BY <1>2 DEF LexStart, Quotes
<1> HIDE DEF s
<1>4. ~ (n + Len(s.toks) > MAXTOK)
      /\ ~ (n + Len(s.toks) = MAXTOK /\ s.mode = "gap" /\ p <= Len(line)
            /\ line[Len(line)] = Blank)
  BY <1>1, <1>3
<1>5. Rest(line, p, n) = [ok |-> TRUE, toks |-> s.toks]
  BY <1>3, <1>4 DEF Rest, s
<1> QED
  BY <1>3, <1>5 DEF None

LEMMA StepEmpty ==
    ASSUME NEW s \in LexStates, NEW c \in Chars, LexStep(s, c).toks = <<>>
    PROVE  c = Blank /\ LexStep(s, c).mode = "gap"
<1>1. s = [mode |-> s.mode, bad |-> s.bad, toks |-> s.toks]
      /\ s.mode \in {"gap", "word"} \cup Quotes /\ s.toks \in Seq(Tokens)
      /\ (s.mode = "gap" \/ Len(s.toks) >= 1)
  BY DEF LexStates
<1>2. \A e \in Tokens : Append(s.toks, e) # <<>>
  BY <1>1, AppendProperties
<1>3. Len(s.toks) >= 1 => Longer(s.toks, c) # <<>> /\ s.toks # <<>>
  BY <1>1, LongerTypes, EmptySeq
<1>4. "gap" \notin Quotes /\ "word" \notin Quotes
  BY DEF Quotes
<1>5. CASE s.mode \in Quotes /\ c = s.mode
  <2>1. LexStep(s, c) = [s EXCEPT !.mode = "gap"]
    BY <1>5 DEF LexStep
  <2> QED
    BY <2>1, <1>1, <1>3, <1>4, <1>5
<1>6. CASE s.mode \in Quotes /\ c # s.mode
  <2>1. LexStep(s, c) = [s EXCEPT !.toks = Longer(s.toks, c)]
    BY <1>6 DEF LexStep
  <2> QED
    BY <2>1, <1>1, <1>3, <1>4, <1>6
<1>7. CASE s.mode \notin Quotes /\ c = Blank
  <2>1. LexStep(s, c) = [s EXCEPT !.mode = "gap"]
    BY <1>7 DEF LexStep, Blank, Amper, Quotes
  <2> QED
    BY <2>1, <1>1, <1>7
<1>8. CASE s.mode \notin Quotes /\ c = Amper
  <2> DEFINE e == Token("amper", <<Amper>>)
  <2>1. LexStep(s, c) = [s EXCEPT !.mode = "gap", !.toks = Append(s.toks, e)]
    BY <1>8 DEF LexStep, Blank, Amper, Quotes
  <2>2. e \in Tokens
    BY <1>8, NewTokens
  <2> HIDE DEF e
  <2> QED
    BY <2>1, <2>2, <1>1, <1>2
<1>9. CASE s.mode \notin Quotes /\ c \in Quotes
  <2> DEFINE e == Token("other", <<>>)
  <2>1. LexStep(s, c) = [mode |-> c, bad |-> s.bad \/ s.mode = "word",
                         toks |-> Append(s.toks, e)]
    BY <1>9 DEF LexStep, Blank, Amper, Quotes
  <2>2. e \in Tokens
    BY NewTokens
  <2> HIDE DEF e
  <2> QED
    BY <2>1, <2>2, <1>2
<1>10. CASE s.mode = "word" /\ c \notin {Blank, Amper} \cup Quotes
  <2>1. LexStep(s, c) = [s EXCEPT !.toks = Longer(s.toks, c)]
    BY <1>4, <1>10 DEF LexStep
  <2> QED
    BY <2>1, <1>1, <1>3, <1>10
<1>11. CASE s.mode = "gap" /\ c \notin {Blank, Amper} \cup Quotes
  <2> DEFINE e == Token("other", <<c>>)
  <2>1. LexStep(s, c) = [s EXCEPT !.mode = "word", !.toks = Append(s.toks, e)]
    BY <1>4, <1>11 DEF LexStep
  <2>2. e \in Tokens
    BY NewTokens
  <2> HIDE DEF e
  <2> QED
    BY <2>1, <2>2, <1>1, <1>2
<1> QED
  BY <1>1, <1>5, <1>6, <1>7, <1>8, <1>9, <1>10, <1>11

(* Something is left, and there is no room for another token.              *)
LEMMA RestFull ==
    ASSUME NEW line \in Seq(Chars), NEW p \in 1 .. Len(line)
    PROVE  Rest(line, p, MAXTOK) = SYSERR
<1> DEFINE h == From(line, p)
           s == h[Len(line)]
<1>1. Len(line) \in Nat /\ MAXTOK \in Nat /\ Len(line) >= 1 /\ p \in 1 .. Len(line) + 1
      /\ line[Len(line)] \in Chars
  BY LenProperties, ElementOfSeq, LexanAssumption
<1>2. s = LexStep(h[Len(line) - 1], line[Len(line)]) /\ h[Len(line) - 1] \in LexStates
      /\ s \in LexStates
  <2>1. /\ Len(line) - 1 \in 0 .. Len(line) /\ Len(line) \in p .. Len(line)
        /\ Len(line) \in 0 .. Len(line)
    BY <1>1
  <2> QED
    BY <1>1, <2>1, FromSteps
<1>3. s.toks = <<>> => line[Len(line)] = Blank /\ s.mode = "gap"
  BY <1>1, <1>2, StepEmpty
<1> HIDE DEF s, h
<1>4. Len(s.toks) \in Nat /\ (Len(s.toks) = 0 => s.toks = <<>>)
  BY <1>2, LenProperties, EmptySeq DEF LexStates
<1>5. \/ MAXTOK + Len(s.toks) > MAXTOK
      \/ (MAXTOK + Len(s.toks) = MAXTOK /\ s.mode = "gap" /\ p <= Len(line)
          /\ line[Len(line)] = Blank)
  BY <1>1, <1>3, <1>4
<1> QED
  BY <1>5 DEF Rest, s, h

(* An ampersand.                                                           *)
LEMMA AmperFound ==
    ASSUME NEW line \in Seq(Chars), NEW p \in 1 .. Len(line), NEW n \in 0 .. MAXTOK - 1,
           NEW q \in p .. Len(line), From(line, p)[q - 1] = LexStart, line[q] = Amper
    PROVE  Rest(line, p, n) = Then(Token("amper", <<Amper>>), Rest(line, q + 1, n + 1))
<1> DEFINE t == Token("amper", <<Amper>>)
           s == From(line, p)[q]
           u == From(line, q + 1)[q]
<1>1. /\ Len(line) \in Nat /\ line[q] \in Chars /\ q \in 0 .. Len(line)
      /\ q + 1 \in 1 .. Len(line) + 1 /\ q \in 0 .. (q + 1) - 1
      /\ p \in 1 .. Len(line) + 1
  BY LenProperties, ElementOfSeq
<1>2. t \in Tokens
  BY <1>1, NewTokens
<1>3. s = LexStep(LexStart, Amper) /\ u = LexStart
  BY <1>1, FromSteps
<1> HIDE DEF t
<1>4. Trails(s, u, t)
  <2>1. /\ LexStart.mode = "gap" /\ LexStart.toks = <<>>
        /\ LexStart \in [mode : {"gap"}, bad : BOOLEAN, toks : {<<>>}]
    BY DEF LexStart
  <2>2. LexStep(LexStart, Amper)
            = [LexStart EXCEPT !.mode = "gap", !.toks = Append(LexStart.toks, t)]
    BY <2>1 DEF LexStep, Amper, Blank, Quotes, t
  <2>3. Append(LexStart.toks, t) = <<t>>
    <3>1. Append(<<>>, t) = <<t>>
      OBVIOUS
    <3> QED
      BY <2>1, <3>1, Zenon
  <2>4. <<t>> = <<t>> \o LexStart.toks
    <3>1. <<t>> \o <<>> = <<t>>
      BY <1>2, ConcatEmptySeq
    <3> QED
      BY <2>1, <3>1, Zenon
  <2> DEFINE v == LexStep(LexStart, Amper)
  <2>5. v.mode = "gap" /\ v.bad = LexStart.bad /\ v.toks = Append(LexStart.toks, t)
    BY <2>1, <2>2
  <2> HIDE DEF v
  <2>6. Trails(v, LexStart, t)
    BY <2>1, <2>3, <2>4, <2>5 DEF Trails
  <2> QED
    BY <1>3, <2>6 DEF v
<1>5. PICK r \in p + 1 .. Len(line) + 1 : r = q + 1
  BY <1>1
<1>6. Trails(From(line, p)[Len(line)], From(line, r)[Len(line)], t)
  <2>1. q >= p - 1 /\ q >= r - 1 /\ r \in 1 .. Len(line) + 1
    BY <1>1, <1>5
  <2> QED
    BY <1>1, <1>2, <1>4, <1>5, <2>1, BehindOn
<1>7. r = Len(line) + 1 => line[Len(line)] # Blank
  <2>1. r = Len(line) + 1 => q = Len(line)
    BY <1>1, <1>5
  <2>2. line[q] # Blank
    BY DEF Amper, Blank
  <2> QED
    BY <2>1, <2>2
<1>8. Rest(line, p, n) = Then(t, Rest(line, r, n + 1))
  BY <1>2, <1>6, <1>7, TokenFound
<1> QED
  BY <1>5, <1>8 DEF t

(* A quoted string that ends.                                              *)
LEMMA QuotedFound ==
    ASSUME NEW line \in Seq(Chars), NEW p \in 1 .. Len(line), NEW n \in 0 .. MAXTOK - 1,
           NEW q \in p .. Len(line), From(line, p)[q - 1] = LexStart, line[q] \in Quotes,
           NEW e \in q + 1 .. Len(line), line[e] = line[q],
           \A i \in q + 1 .. e - 1 : line[i] \notin {line[q]}
    PROVE  Rest(line, p, n) = Then(Token("other", SubSeq(line, q + 1, e - 1)),
                                   Rest(line, e + 1, n + 1))
<1> DEFINE x == SubSeq(line, q + 1, e - 1)
           t == Token("other", x)
           s == From(line, p)[e - 1]
           u == From(line, e + 1)[e]
<1>1. /\ Len(line) \in Nat /\ e \in 0 .. Len(line) /\ e - 1 \in 0 .. Len(line)
      /\ e \in p .. Len(line) /\ e \in 0 .. (e + 1) - 1 /\ e + 1 \in 1 .. Len(line) + 1
      /\ p \in 1 .. Len(line) + 1 /\ e \in q + 1 .. Len(line) + 1
      /\ \A i \in 1 .. Len(line) : line[i] \in Chars
  BY LenProperties, ElementOfSeq
<1>2. OneToken(s, line[q], x)
  BY <1>1, QuoteRead
<1>3. From(line, p)[e] = LexStep(s, line[e]) /\ s \in LexStates
  BY <1>1, FromSteps
<1>4. u = LexStart
  BY <1>1, FromSteps
<1>5. t \in Tokens
  <2>1. x \in Seq(Chars)
    BY <1>1, SubSeqProperties
  <2> QED
    BY <2>1 DEF Tokens, Token
<1> HIDE DEF x, s
<1>6. Trails(From(line, p)[e], u, t)
  <2>1. s.mode = line[q] /\ ~s.bad /\ s.toks = <<t>>
    BY <1>2 DEF OneToken
  <2>2. LexStep(s, line[e]) = [s EXCEPT !.mode = "gap"]
    BY <2>1 DEF LexStep
  <2> DEFINE v == LexStep(s, line[e])
  <2> HIDE DEF t
  <2>3. v.mode = "gap" /\ (v.bad <=> s.bad) /\ v.toks = <<t>> /\ v \in LexStates
    BY <1>3, <2>1, <2>2 DEF LexStates
  <2> HIDE DEF v
  <2>4. LexStart.mode = "gap" /\ ~LexStart.bad /\ LexStart.toks = <<>>
        /\ LexStart \in LexStates
    BY StartTypes DEF LexStart
  <2>5. <<t>> = <<t>> \o LexStart.toks
    <3>1. <<t>> \o <<>> = <<t>>
      BY <1>5, ConcatEmptySeq
    <3> QED
      BY <2>4, <3>1, Zenon
  <2>6. v.bad = LexStart.bad
    BY <2>1, <2>3, <2>4 DEF LexStates
  <2>7. Trails(v, LexStart, t)
    BY <2>3, <2>4, <2>5, <2>6, Zenon DEF Trails
  <2> QED
    BY <1>3, <1>4, <2>7 DEF v
<1>7. PICK r \in p + 1 .. Len(line) + 1 : r = e + 1
  BY <1>1
<1> HIDE DEF t
<1>8. Trails(From(line, p)[Len(line)], From(line, r)[Len(line)], t)
  <2>1. e >= p - 1 /\ e >= r - 1 /\ r \in 1 .. Len(line) + 1
    BY <1>1, <1>7
  <2> QED
    BY <1>1, <1>5, <1>6, <1>7, <2>1, BehindOn
<1>9. r = Len(line) + 1 => line[Len(line)] # Blank
  <2>1. r = Len(line) + 1 => e = Len(line)
    BY <1>1, <1>7
  <2>2. line[e] # Blank
    BY DEF Quotes, Blank
  <2> QED
    BY <2>1, <2>2
<1>10. Rest(line, p, n) = Then(t, Rest(line, r, n + 1))
  BY <1>5, <1>8, <1>9, TokenFound
<1> QED
  BY <1>7, <1>10 DEF t, x

(* A quoted string that does not.                                          *)
LEMMA QuoteOpen ==
    ASSUME NEW line \in Seq(Chars), NEW p \in 1 .. Len(line), NEW n \in 0 .. MAXTOK - 1,
           NEW q \in p .. Len(line), From(line, p)[q - 1] = LexStart, line[q] \in Quotes,
           \A i \in q + 1 .. Len(line) : line[i] \notin {line[q]}
    PROVE  Rest(line, p, n) = SYSERR
<1>1. Len(line) \in Nat
  BY LenProperties
<1>2. PICK e \in q + 1 .. Len(line) + 1 : e - 1 = Len(line)
  BY <1>1
<1>3. \A i \in q + 1 .. e - 1 : line[i] \notin {line[q]}
  BY <1>2
<1>4. OneToken(From(line, p)[e - 1], line[q], SubSeq(line, q + 1, e - 1))
  BY <1>3, QuoteRead
<1>5. From(line, p)[Len(line)].mode \in Quotes
  BY <1>2, <1>4 DEF OneToken
<1> QED
  BY <1>5 DEF Rest

(* A word, and what ends it.                                               *)
LEMMA WordFound ==
    ASSUME NEW line \in Seq(Chars), NEW p \in 1 .. Len(line), NEW n \in 0 .. MAXTOK - 1,
           NEW q \in p .. Len(line), From(line, p)[q - 1] = LexStart,
           line[q] \notin {Blank, Amper} \cup Quotes,
           NEW e \in q + 1 .. Len(line), line[e] \in {Blank, Amper},
           \A i \in q + 1 .. e - 1 : line[i] \notin EndsWord
    PROVE  Rest(line, p, n) = Then(Token("other", SubSeq(line, q, e - 1)),
                                   Rest(line, e, n + 1))
<1> DEFINE x == SubSeq(line, q, e - 1)
           t == Token("other", x)
           s == From(line, p)[e - 1]
           c == line[e]
<1>1. /\ Len(line) \in Nat /\ e \in 0 .. Len(line) /\ e - 1 \in 0 .. Len(line)
      /\ e \in p .. Len(line) /\ e \in 1 .. Len(line) + 1 /\ e - 1 \in 0 .. e - 1
      /\ p \in 1 .. Len(line) + 1 /\ e \in q + 1 .. Len(line) + 1
      /\ \A i \in 1 .. Len(line) : line[i] \in Chars
  BY LenProperties, ElementOfSeq
<1>2. OneToken(s, "word", x)
  BY <1>1, WordRead
<1>3. From(line, p)[e] = LexStep(s, c) /\ s \in LexStates
  BY <1>1, FromSteps
<1>4. From(line, e)[e] = LexStep(LexStart, c)
  <2>1. e \in e .. Len(line) /\ From(line, e)[e - 1] = LexStart
    BY <1>1, FromSteps
  <2> QED
    BY <1>1, <2>1, FromSteps
<1>5. t \in Tokens
  <2>1. x \in Seq(Chars)
    BY <1>1, SubSeqProperties
  <2> QED
    BY <2>1 DEF Tokens, Token
<1>6. c \in Chars
  BY <1>1
<1> HIDE DEF x, s, c
<1>7. Trails(LexStep(s, c), LexStep(LexStart, c), t)
  <2>1. s.mode = "word" /\ ~s.bad /\ s.toks = <<t>>
    BY <1>2 DEF OneToken
  <2> DEFINE g == [s EXCEPT !.mode = "gap"]
  <2>2. g \in LexStates /\ LexStep(g, c) = LexStep(s, c)
    <3>1. s = [mode |-> s.mode, bad |-> s.bad, toks |-> s.toks] /\ g \in LexStates
      BY <1>3 DEF LexStates
    <3>2. "gap" \notin Quotes /\ "word" \notin Quotes
      BY DEF Quotes
    <3>3. g.mode = "gap" /\ g.toks = s.toks
      BY <3>1
    <3>4. CASE c = Blank
      <4>1. LexStep(s, c) = [s EXCEPT !.mode = "gap"]
        BY <2>1, <3>2, <3>4 DEF LexStep, Blank, Amper, Quotes
      <4>2. LexStep(g, c) = [g EXCEPT !.mode = "gap"]
        BY <3>3, <3>2, <3>4 DEF LexStep, Blank, Amper, Quotes
      <4> QED
        BY <3>1, <4>1, <4>2
    <3>5. CASE c = Amper
      <4> DEFINE a == Token("amper", <<Amper>>)
      <4>1. LexStep(s, c) = [s EXCEPT !.mode = "gap", !.toks = Append(s.toks, a)]
        BY <2>1, <3>2, <3>5 DEF LexStep, Blank, Amper, Quotes
      <4>2. LexStep(g, c) = [g EXCEPT !.mode = "gap", !.toks = Append(g.toks, a)]
        BY <3>3, <3>2, <3>5 DEF LexStep, Blank, Amper, Quotes
      <4> QED
        BY <3>1, <3>3, <4>1, <4>2
    <3> QED
      BY <3>1, <3>4, <3>5 DEF c
  <2>3. g.mode = "gap" /\ (g.bad <=> s.bad) /\ g.toks = <<t>>
    BY <1>3, <2>1 DEF LexStates
  <2> HIDE DEF g, t
  <2>4. LexStart.mode = "gap" /\ ~LexStart.bad /\ LexStart.toks = <<>>
        /\ LexStart \in LexStates
    BY StartTypes DEF LexStart
  <2>5. <<t>> = <<t>> \o LexStart.toks
    <3>1. <<t>> \o <<>> = <<t>>
      BY <1>5, ConcatEmptySeq
    <3> QED
      BY <2>4, <3>1, Zenon
  <2>6. g.bad = LexStart.bad
    BY <2>1, <2>2, <2>3, <2>4 DEF LexStates
  <2>7. Trails(g, LexStart, t)
    BY <2>3, <2>4, <2>5, <2>6, Zenon DEF Trails
  <2>8. Trails(LexStep(g, c), LexStep(LexStart, c), t)
    BY <1>5, <1>6, <2>2, <2>4, <2>7, StepBehind
  <2> QED
    BY <2>2, <2>8
<1>8. PICK r \in p + 1 .. Len(line) + 1 : r = e
  BY <1>1
<1> HIDE DEF t
<1>9. Trails(From(line, p)[Len(line)], From(line, r)[Len(line)], t)
  <2>1. e >= p - 1 /\ e >= r - 1 /\ r \in 1 .. Len(line) + 1
    BY <1>1, <1>8
  <2>2. Trails(From(line, p)[e], From(line, r)[e], t)
    BY <1>3, <1>4, <1>7, <1>8
  <2> QED
    BY <1>1, <1>5, <2>1, <2>2, BehindOn
<1>10. r # Len(line) + 1
  BY <1>1, <1>8
<1>11. Rest(line, p, n) = Then(t, Rest(line, r, n + 1))
  BY <1>5, <1>9, <1>10, TokenFound
<1> QED
  BY <1>8, <1>11 DEF t, x

(* A word at the end of the line.                                          *)
LEMMA WordLast ==
    ASSUME NEW line \in Seq(Chars), NEW p \in 1 .. Len(line), NEW n \in 0 .. MAXTOK - 1,
           NEW q \in p .. Len(line), From(line, p)[q - 1] = LexStart,
           line[q] \notin {Blank, Amper} \cup Quotes,
           \A i \in q + 1 .. Len(line) : line[i] \notin EndsWord
    PROVE  Rest(line, p, n) = Then(Token("other", SubSeq(line, q, Len(line))),
                                   Rest(line, Len(line) + 1, n + 1))
<1> DEFINE x == SubSeq(line, q, Len(line))
           t == Token("other", x)
           s == From(line, p)[Len(line)]
<1>1. Len(line) \in Nat /\ MAXTOK \in Nat
  BY LenProperties, LexanAssumption
<1>2. OneToken(s, "word", x)
  <2>1. PICK e \in q + 1 .. Len(line) + 1 : e - 1 = Len(line)
    BY <1>1
  <2>2. \A i \in q + 1 .. e - 1 : line[i] \notin EndsWord
    BY <2>1
  <2>3. OneToken(From(line, p)[e - 1], "word", SubSeq(line, q, e - 1))
    BY <2>2, WordRead
  <2> QED
    BY <2>1, <2>3
<1>3. t \in Tokens
  <2>1. x \in Seq(Chars)
    <3>1. \A i \in q .. Len(line) : line[i] \in Chars
      BY <1>1, ElementOfSeq
    <3> QED
      BY <1>1, <3>1, SubSeqProperties
  <2> QED
    BY <2>1 DEF Tokens, Token
<1>4. s.mode = "word" /\ ~s.bad /\ s.toks = <<t>> /\ "word" \notin Quotes
  BY <1>2 DEF OneToken, Quotes
<1> HIDE DEF s, t
<1>5. Len(s.toks) = 1
  BY <1>4
<1>6. ~ (n + Len(s.toks) > MAXTOK) /\ s.mode # "gap"
  BY <1>1, <1>4, <1>5
<1>7. Rest(line, p, n) = [ok |-> TRUE, toks |-> s.toks]
  BY <1>4, <1>6 DEF Rest, s
<1>8. Rest(line, Len(line) + 1, n + 1) = None
  <2>1. /\ Len(line) + 1 \in 1 .. Len(line) + 1 /\ n + 1 \in 0 .. MAXTOK
        /\ \A i \in Len(line) + 1 .. Len(line) : line[i] = Blank
        /\ ~ (Len(line) + 1 <= Len(line))
    BY <1>1
  <2> QED
    BY <2>1, RestNone
<1>9. Then(t, None) = [ok |-> TRUE, toks |-> <<t>> \o <<>>]
  BY DEF Then, None
<1>10. <<t>> \o <<>> = <<t>>
  BY <1>3, ConcatEmptySeq
<1> QED
  BY <1>4, <1>7, <1>8, <1>9, <1>10 DEF t, x

LEMMA StepBad ==
    ASSUME NEW s \in LexStates, NEW c, s.bad
    PROVE  LexStep(s, c).bad
<1>1. s = [mode |-> s.mode, bad |-> s.bad, toks |-> s.toks]
  BY DEF LexStates
<1>2. CASE s.mode \notin Quotes /\ c \in Quotes
  <2> DEFINE v == [mode |-> c, bad |-> s.bad \/ s.mode = "word",
                   toks |-> Append(s.toks, Token("other", <<>>))]
  <2>1. LexStep(s, c) = v
    BY <1>2 DEF LexStep, Blank, Amper, Quotes
  <2>2. v.bad
    OBVIOUS
  <2> HIDE DEF v
  <2> QED
    BY <2>1, <2>2
<1>3. \A m, x : [s EXCEPT !.mode = m, !.toks = x].bad /\ [s EXCEPT !.mode = m].bad
                /\ [s EXCEPT !.toks = x].bad
  BY <1>1
<1>4. CASE s.mode \in Quotes /\ c = s.mode
  <2>1. LexStep(s, c) = [s EXCEPT !.mode = "gap"]
    BY <1>4 DEF LexStep
  <2> QED
    BY <2>1, <1>3
<1>5. CASE s.mode \in Quotes /\ c # s.mode
  <2>1. LexStep(s, c) = [s EXCEPT !.toks = Longer(s.toks, c)]
    BY <1>5 DEF LexStep
  <2> QED
    BY <2>1, <1>3
<1>6. CASE s.mode \notin Quotes /\ c = Blank
  <2>1. LexStep(s, c) = [s EXCEPT !.mode = "gap"]
    BY <1>6 DEF LexStep, Blank, Amper, Quotes
  <2> QED
    BY <2>1, <1>3
<1>7. CASE s.mode \notin Quotes /\ c = Amper
  <2>1. LexStep(s, c) = [s EXCEPT !.mode = "gap",
                                  !.toks = Append(s.toks, Token("amper", <<Amper>>))]
    BY <1>7 DEF LexStep, Blank, Amper, Quotes
  <2> QED
    BY <2>1, <1>3
<1>8. CASE s.mode = "word" /\ c \notin {Blank, Amper} \cup Quotes
  <2>1. LexStep(s, c) = [s EXCEPT !.toks = Longer(s.toks, c)]
    BY <1>8 DEF LexStep, Quotes
  <2> QED
    BY <2>1, <1>3
<1>9. CASE s.mode \notin {"word"} \cup Quotes /\ c \notin {Blank, Amper} \cup Quotes
  <2>1. LexStep(s, c) = [s EXCEPT !.mode = "word",
                                  !.toks = Append(s.toks, Token("other", <<c>>))]
    BY <1>9 DEF LexStep, Quotes
  <2> QED
    BY <2>1, <1>3
<1> QED
  BY <1>2, <1>4, <1>5, <1>6, <1>7, <1>8, <1>9

(* A word with a quote in it.                                              *)
LEMMA WordBad ==
    ASSUME NEW line \in Seq(Chars), NEW p \in 1 .. Len(line), NEW n \in 0 .. MAXTOK - 1,
           NEW q \in p .. Len(line), From(line, p)[q - 1] = LexStart,
           line[q] \notin {Blank, Amper} \cup Quotes,
           NEW e \in q + 1 .. Len(line), line[e] \in Quotes,
           \A i \in q + 1 .. e - 1 : line[i] \notin EndsWord
    PROVE  Rest(line, p, n) = SYSERR
<1> DEFINE h == From(line, p)
           T == {i \in 0 .. Len(line) : h[i].bad}
<1>1. /\ Len(line) \in Nat /\ e \in Nat /\ e <= Len(line)
      /\ e \in 0 .. Len(line) /\ e - 1 \in 0 .. Len(line)
      /\ e \in p .. Len(line) /\ p \in 1 .. Len(line) + 1 /\ e \in q + 1 .. Len(line) + 1
      /\ \A i \in 1 .. Len(line) : line[i] \in Chars
  BY LenProperties, ElementOfSeq
<1>2. e \in T
  <2>1. OneToken(h[e - 1], "word", SubSeq(line, q, e - 1))
    BY <1>1, WordRead
  <2>2. h[e] = LexStep(h[e - 1], line[e]) /\ h[e - 1].mode = "word" /\ "word" \notin Quotes
    BY <1>1, <2>1, FromSteps DEF OneToken, Quotes
  <2> HIDE DEF h
  <2>3. LexStep(h[e - 1], line[e]).bad
    BY <2>2 DEF LexStep, Quotes, Blank, Amper
  <2> QED
    BY <1>1, <2>2, <2>3
<1>3. ASSUME NEW i \in e + 1 .. Len(line), i - 1 \in T PROVE i \in T
  <2>1. i \in p .. Len(line) /\ i - 1 \in 0 .. Len(line) /\ i \in 0 .. Len(line)
    BY <1>1
  <2>2. h[i] = LexStep(h[i - 1], line[i]) /\ h[i - 1] \in LexStates
    BY <1>1, <2>1, FromSteps
  <2>3. h[i - 1].bad
    BY <1>3
  <2> DEFINE s == h[i - 1]
             c == line[i]
  <2>4. s \in LexStates /\ s.bad /\ h[i] = LexStep(s, c)
    BY <2>2, <2>3
  <2> HIDE DEF s, c, h
  <2>5. LexStep(s, c).bad
    BY <2>4, StepBad
  <2> QED
    BY <2>1, <2>4, <2>5
<1>4. \A i \in e .. Len(line) : i \in T
  <2> HIDE DEF T
  <2> QED
    BY <1>1, <1>2, <1>3, Onwards
<1>5. h[Len(line)].bad
  BY <1>1, <1>4
<1> QED
  BY <1>5 DEF Rest

(* What a function of a place and a number has there.                      *)
At(f, p, n) == f[<<p, n>>]

(* One round of the outer loop, with f for the rounds after it.            *)
Found(line, f, p, n) ==
    LET q == First(line, p, NotBlank)
        close == First(line, q + 1, {line[q]})
        end == First(line, q + 1, EndsWord)
    IN  CASE p > Len(line) -> None
          [] p <= Len(line) /\ n >= MAXTOK -> SYSERR
          [] n < MAXTOK /\ p <= Len(line) /\ q > Len(line) -> None
          [] OTHER ->
             CASE line[q] = Amper ->
                    Then(Token("amper", <<Amper>>), At(f, q + 1, n + 1))
               [] line[q] \in Quotes ->
                    IF close > Len(line) THEN SYSERR
                    ELSE Then(Token("other", SubSeq(line, q + 1, close - 1)),
                              At(f, close + 1, n + 1))
               [] OTHER ->
                    IF end <= Len(line) /\ line[end] \in Quotes THEN SYSERR
                    ELSE Then(Token("other", SubSeq(line, q, end - 1)),
                              At(f, end, n + 1))

LEMMA FoundRest ==
    ASSUME NEW line \in Seq(Chars), NEW p \in 1 .. Len(line) + 1, NEW n \in 0 .. MAXTOK,
           NEW f,
           \A r \in p + 1 .. Len(line) + 1 : \A m \in 0 .. MAXTOK : At(f, r, m) = Rest(line, r, m)
    PROVE  Found(line, f, p, n) = Rest(line, p, n)
<1> DEFINE q == First(line, p, NotBlank)
           close == First(line, q + 1, {line[q]})
           end == First(line, q + 1, EndsWord)
<1>1. /\ Len(line) \in Nat /\ MAXTOK \in Nat
      /\ \A i \in 1 .. Len(line) : line[i] \in Chars
  BY LenProperties, ElementOfSeq, LexanAssumption
<1>2. CASE p > Len(line)
  <2>1. Found(line, f, p, n) = None
    BY <1>1, <1>2 DEF Found
  <2>2. \A i \in p .. Len(line) : line[i] = Blank
    BY <1>1, <1>2
  <2>3. ~ (p <= Len(line))
    BY <1>1, <1>2
  <2> QED
    BY <2>1, <2>2, <2>3, RestNone
<1>3. CASE p <= Len(line) /\ n >= MAXTOK
  <2>1. Found(line, f, p, n) = SYSERR
    BY <1>1, <1>3 DEF Found
  <2>2. n = MAXTOK /\ p \in 1 .. Len(line)
    BY <1>1, <1>3
  <2> QED
    BY <2>1, <2>2, RestFull
<1>4. CASE p <= Len(line) /\ n < MAXTOK
  <2>1. /\ q \in p .. Len(line) + 1
        /\ q <= Len(line) => line[q] \in NotBlank
        /\ \A i \in p .. q - 1 : line[i] \notin NotBlank
    BY FirstPlace
  <2>2. \A i \in p .. q - 1 : line[i] = Blank
    <3> SUFFICES ASSUME NEW i \in p .. q - 1 PROVE line[i] = Blank
      OBVIOUS
    <3>1. line[i] \notin NotBlank
      BY <2>1
    <3> HIDE DEF q
    <3>2. i \in 1 .. Len(line)
      BY <1>1, <2>1
    <3> QED
      BY <1>1, <3>1, <3>2 DEF NotBlank
  <2>3. ~ (p > Len(line)) /\ ~ (p <= Len(line) /\ n >= MAXTOK)
    BY <1>1, <1>4
  <2>4. CASE q > Len(line)
    <3>1. Found(line, f, p, n) = None
      BY <1>4, <2>3, <2>4 DEF Found
    <3>2. \A i \in p .. Len(line) : line[i] = Blank
      BY <1>1, <2>1, <2>2, <2>4
    <3> QED
      BY <1>4, <3>1, <3>2, RestNone
  <2>5. CASE q <= Len(line)
    <3> DEFINE Round ==
             CASE line[q] = Amper ->
                    Then(Token("amper", <<Amper>>), At(f, q + 1, n + 1))
               [] line[q] \in Quotes ->
                    IF close > Len(line) THEN SYSERR
                    ELSE Then(Token("other", SubSeq(line, q + 1, close - 1)),
                              At(f, close + 1, n + 1))
               [] OTHER ->
                    IF end <= Len(line) /\ line[end] \in Quotes THEN SYSERR
                    ELSE Then(Token("other", SubSeq(line, q, end - 1)),
                              At(f, end, n + 1))
    <3>1. Found(line, f, p, n) = Round
      <4>1. ~ (q > Len(line))
        BY <1>1, <2>1, <2>5
      <4> QED
        BY <2>3, <4>1 DEF Found
    <3>2. From(line, p)[q - 1] = LexStart
      BY <2>1, <2>2, BlanksRead
    <3>3. /\ p \in 1 .. Len(line) /\ q \in p .. Len(line) /\ q + 1 \in 1 .. Len(line) + 1
          /\ n \in 0 .. MAXTOK - 1 /\ n + 1 \in 0 .. MAXTOK
          /\ line[q] \in NotBlank
      BY <1>1, <1>4, <2>1, <2>5
    <3>4. /\ close \in q + 1 .. Len(line) + 1
          /\ close <= Len(line) => line[close] \in {line[q]}
          /\ \A i \in q + 1 .. close - 1 : line[i] \notin {line[q]}
      <4> HIDE DEF q
      <4> QED
        BY <3>3, FirstPlace
    <3>5. /\ end \in q + 1 .. Len(line) + 1
          /\ end <= Len(line) => line[end] \in EndsWord
          /\ \A i \in q + 1 .. end - 1 : line[i] \notin EndsWord
      <4> HIDE DEF q
      <4> QED
        BY <3>3, FirstPlace
    <3>6. line[q] # Blank
      BY <3>3 DEF NotBlank
    <3> HIDE DEF q, close, end
    <3>7. CASE line[q] = Amper
      <4>1. Round = Then(Token("amper", <<Amper>>), At(f, q + 1, n + 1))
        BY <3>7 DEF Quotes, Amper
      <4>2. q + 1 \in p + 1 .. Len(line) + 1
        BY <1>1, <3>3
      <4>3. At(f, q + 1, n + 1) = Rest(line, q + 1, n + 1)
        BY <3>3, <4>2
      <4>4. Rest(line, p, n) = Then(Token("amper", <<Amper>>), Rest(line, q + 1, n + 1))
        BY <3>2, <3>3, <3>7, AmperFound
      <4> QED
        BY <3>1, <4>1, <4>3, <4>4
    <3>8. CASE line[q] \in Quotes /\ close > Len(line)
      <4>1. Round = SYSERR
        BY <3>8 DEF Quotes, Amper
      <4>2. \A i \in q + 1 .. Len(line) : line[i] \notin {line[q]}
        BY <1>1, <3>4, <3>8
      <4>3. Rest(line, p, n) = SYSERR
        BY <3>2, <3>3, <3>8, <4>2, QuoteOpen
      <4> QED
        BY <3>1, <4>1, <4>3
    <3>9. CASE line[q] \in Quotes /\ ~ (close > Len(line))
      <4> DEFINE t == Token("other", SubSeq(line, q + 1, close - 1))
      <4>1. Round = Then(t, At(f, close + 1, n + 1))
        BY <3>9 DEF Quotes, Amper
      <4>2. /\ close \in q + 1 .. Len(line) /\ line[close] = line[q]
            /\ close + 1 \in p + 1 .. Len(line) + 1
        BY <1>1, <3>3, <3>4, <3>9
      <4>3. At(f, close + 1, n + 1) = Rest(line, close + 1, n + 1)
        BY <3>3, <4>2
      <4>4. Rest(line, p, n) = Then(t, Rest(line, close + 1, n + 1))
        BY <3>2, <3>3, <3>4, <3>9, <4>2, QuotedFound
      <4> HIDE DEF t, Round
      <4> QED
        BY <3>1, <4>1, <4>3, <4>4
    <3>10. CASE line[q] \notin {Amper} \cup Quotes /\ end <= Len(line) /\ line[end] \in Quotes
      <4>1. Round = SYSERR
        BY <3>10
      <4>2. end \in q + 1 .. Len(line) /\ line[q] \notin {Blank, Amper} \cup Quotes
        BY <1>1, <3>5, <3>6, <3>10
      <4>3. Rest(line, p, n) = SYSERR
        BY <3>2, <3>3, <3>5, <3>10, <4>2, WordBad
      <4> QED
        BY <3>1, <4>1, <4>3
    <3>11. CASE line[q] \notin {Amper} \cup Quotes /\ ~ (end <= Len(line) /\ line[end] \in Quotes)
      <4> DEFINE t == Token("other", SubSeq(line, q, end - 1))
      <4>1. Round = Then(t, At(f, end, n + 1))
        BY <3>11
      <4>2. line[q] \notin {Blank, Amper} \cup Quotes
        BY <3>6, <3>11
      <4>3. end \in p + 1 .. Len(line) + 1
        BY <1>1, <3>3, <3>5
      <4>4. At(f, end, n + 1) = Rest(line, end, n + 1)
        BY <3>3, <4>3
      <4>5. CASE end <= Len(line)
        <5>1. end \in q + 1 .. Len(line) /\ line[end] \in {Blank, Amper}
          BY <1>1, <3>5, <3>11, <4>5 DEF EndsWord
        <5>2. Rest(line, p, n) = Then(t, Rest(line, end, n + 1))
          BY <3>2, <3>3, <3>5, <4>2, <5>1, WordFound
        <5> HIDE DEF t, Round
        <5> QED
          BY <3>1, <4>1, <4>4, <5>2
      <4>6. CASE ~ (end <= Len(line))
        <5>1. end = Len(line) + 1 /\ end - 1 = Len(line)
          BY <1>1, <3>5, <4>6
        <5>2. \A i \in q + 1 .. Len(line) : line[i] \notin EndsWord
          BY <3>5, <5>1
        <5>3. Rest(line, p, n) = Then(Token("other", SubSeq(line, q, Len(line))),
                                      Rest(line, Len(line) + 1, n + 1))
          BY <3>2, <3>3, <4>2, <5>2, WordLast
        <5> HIDE DEF Round
        <5> QED
          BY <3>1, <4>1, <4>4, <5>1, <5>3
      <4> QED
        BY <4>5, <4>6
    <3> HIDE DEF Round
    <3> QED
      BY <3>7, <3>8, <3>9, <3>10, <3>11
  <2> QED
    BY <1>1, <2>1, <2>4, <2>5
<1> QED
  BY <1>1, <1>2, <1>3, <1>4

(* The loops and the automaton agree, with any line.                       *)
LEMMA LexanIsLexRef ==
    ASSUME NEW line \in Seq(Chars), line # <<>>
    PROVE  Lexan(line) = LexRef(line)
<1> DEFINE P == 1 .. Len(line) + 1
           N == 0 .. MAXTOK
           Solves(f) == f = [here \in P \X N |-> Found(line, f, here[1], here[2])]
           chosen == CHOOSE f : Solves(f)
<1>1. Len(line) \in Nat /\ MAXTOK \in Nat
  BY LenProperties, LexanAssumption
<1>2. Lexan(line) = At(chosen, 1, 0)
  BY DEF Lexan, Found, At
<1>3. \E f : Solves(f)
  <2>1. PICK g : g = [here \in P \X N |-> Rest(line, here[1], here[2])]
    OBVIOUS
  <2>2. ASSUME NEW p \in P, NEW n \in N PROVE At(g, p, n) = Rest(line, p, n)
    <3> HIDE DEF P, N
    <3> QED
      BY <2>1 DEF At
  <2>3. ASSUME NEW p \in P, NEW n \in N PROVE Rest(line, p, n) = Found(line, g, p, n)
    <3>1. ASSUME NEW r \in p + 1 .. Len(line) + 1, NEW m \in 0 .. MAXTOK
          PROVE  At(g, r, m) = Rest(line, r, m)
      <4>1. r \in P /\ m \in N
        BY <1>1
      <4> QED
        BY <2>2, <4>1
    <3> QED
      BY <3>1, FoundRest
  <2>4. g = [here \in P \X N |-> Found(line, g, here[1], here[2])]
    <3> HIDE DEF P, N
    <3> QED
      BY <2>1, <2>3
  <2> QED
    BY <2>4
<1>4. Solves(chosen)
  <2> HIDE DEF Solves
  <2> QED
    BY <1>3
<1>5. \A p \in P : \A n \in N : At(chosen, p, n) = Found(line, chosen, p, n)
  <2> HIDE DEF chosen, P, N
  <2> QED
    BY <1>4 DEF At
<1> HIDE DEF chosen
(* k places are left, or fewer.                                            *)
<1> DEFINE T == {k \in 0 .. Len(line) + 1 :
                    \A p \in P : p + k > Len(line) + 1 =>
                        \A n \in N : At(chosen, p, n) = Rest(line, p, n)}
<1>6. 0 \in T
  BY <1>1
<1>7. ASSUME NEW k \in 1 .. Len(line) + 1, k - 1 \in T PROVE k \in T
  <2> SUFFICES ASSUME NEW p \in P, p + k > Len(line) + 1, NEW n \in N
               PROVE  At(chosen, p, n) = Rest(line, p, n)
    BY <1>1
  <2>1. ASSUME NEW r \in p + 1 .. Len(line) + 1, NEW m \in 0 .. MAXTOK
        PROVE  At(chosen, r, m) = Rest(line, r, m)
    <3>1. r \in P /\ r + (k - 1) > Len(line) + 1 /\ m \in N
      BY <1>1
    <3> QED
      BY <1>7, <3>1
  <2>2. Found(line, chosen, p, n) = Rest(line, p, n)
    BY <2>1, FoundRest
  <2> QED
    BY <1>5, <2>2
<1>8. \A k \in 0 .. Len(line) + 1 : k \in T
  <2>1. Len(line) + 1 \in Nat
    BY <1>1
  <2> HIDE DEF T
  <2> QED
    BY <1>6, <1>7, <2>1, Ascent
<1>9. At(chosen, 1, 0) = Rest(line, 1, 0)
  <2>1. Len(line) + 1 \in T /\ 1 \in P /\ 0 \in N /\ 1 + (Len(line) + 1) > Len(line) + 1
    BY <1>1, <1>8
  <2> QED
    BY <2>1
<1> QED
  BY <1>2, <1>9, WholeLine

(* The loops of lexan() (lexan.c:40-147) and the automaton agree on every  *)
(* line the shell reads, of any length, whatever MAXTOK is.                *)
THEOREM LineDivided == Spec => []LexanAgrees
<1>1. IInv => LexanAgrees
  BY LexanIsLexRef DEF IInv, TypeOK, LineRead, LexanAgrees
<1> QED
  BY <1>1, ShellInvariance, PTL

================================================================================
