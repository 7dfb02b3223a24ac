------------------------------- MODULE Traps_proofs -------------------------------
(***************************************************************************)
(* Proofs about Traps: for any number of processes, programs of any length *)
(* and a clock of any width, interrupted after any instruction, each       *)
(* process runs on its own stack, no program notices what interrupts it,   *)
(* and ticks come as Ticker has them.                                      *)
(***************************************************************************)
EXTENDS Traps, SequenceTheorems, TLAPS

--------------------------------------------------------------------------------
(* The invariant.                                                          *)

Regs == [ra : Label, old : Procs \cup {"none"}, new : Procs \cup {"none"},
         lo : Word, hi : Word]

Frames == [kind : {"call", "switch"}, ra : Label, status : Status]
          \cup [kind : {"trap"}, ra : Label, status : Status, reg : Regs]

Types ==
    /\ TypeOK
    /\ reg \in Regs
    /\ stack \in [Procs -> Seq(Frames)]
    /\ at \in [Procs -> 0 .. Length - 1]
    /\ masked \subseteq Procs

(* What p's program does next, and whether it has interrupts enabled.      *)
Prog(p) == [next |-> User(at[p]), on |-> p \notin masked]

(* f is the frame of a yield() or a resume() that program g has called.    *)
UserCall(g, f) ==
    /\ f.kind = "call" /\ f.ra = g.next
    /\ f.status.MIE <=> g.on
    /\ f.status.MPIE

(* Where program g can be, outside of any trap, with n frames on its stack *)
(* s, when its next instruction is at label, ra holds ra, and interrupts   *)
(* are on or off: at itself, on its way into a call, or in one.            *)
Point(g, s, n, label, ra, on) ==
    \/ /\ n = 0 /\ (on <=> g.on)
       /\ \/ label = g.next
          \/ label = At("yield") /\ ra = g.next
    \/ /\ n = 0 /\ on /\ g.on
       /\ label = At("resume") /\ ra = g.next
    \/ /\ n = 1 /\ UserCall(g, s[1])
       /\ \/ label = At("resched") /\ ra = At("restore") /\ ~on
          \/ label = At("restore")
    \/ /\ n = 1 /\ UserCall(g, s[1]) /\ on /\ g.on
       /\ \/ label = At("resched") /\ ra = At("resumed")
          \/ label = At("resumed")

(* The n-th frame is a trap's, taken where g was with those below it.      *)
Handler(g, s, n) ==
    /\ n \in {1, 2}
    /\ s[n].kind = "trap" /\ ~s[n].status.MIE
    /\ Point(g, s, n - 1, s[n].ra, s[n].reg.ra, s[n].status.MPIE)

(* The n-th frame is that of the clock handler's call of yield().          *)
HandlerCall(g, s, n) ==
    /\ Handler(g, s, n - 1)
    /\ s[n].kind = "call" /\ s[n].ra = At("exit") /\ ~s[n].status.MIE

(* g leaves the CPU in resched(), to come back at ra.                      *)
Leaves(g, s, n, ra, on) ==
    \/ n = 1 /\ UserCall(g, s[1]) /\ ra = At("restore") /\ ~on
    \/ n = 1 /\ UserCall(g, s[1]) /\ ra = At("resumed") /\ on /\ g.on
    \/ HandlerCall(g, s, n) /\ ra = At("restore") /\ ~on

(* The topmost of n frames is what ctxsw() or setupStack() has left.       *)
Saved(g, s, n) ==
    /\ n = Len(s) /\ n > 0
    /\ s[n].kind = "switch"
    /\ s[n].status.MIE => s[n].status.MPIE
    /\ \/ Leaves(g, s, n - 1, s[n].ra, s[n].status.MIE)
       \/ n = 1 /\ s[1].ra = g.next /\ s[1].status.MIE /\ g.on

Stacked ==
    \A p \in Procs :
        /\ prstkptr[p].of = p
        /\ p # sp.of => Saved(Prog(p), stack[p], prstkptr[p].n)

(* The program that runs, its stack, and whether interrupts are on.        *)
G  == Prog(sp.of)
S  == stack[sp.of]
On == mstatus.MIE

InCall == Point(G, S, sp.n, pc, reg.ra, On)

InTrap ==
    /\ ~On
    /\ \/ /\ Place = "trap" /\ mcause \in {Timer, EnvironmentCall}
          /\ mcause = Timer => mstatus.MPIE
          /\ Point(G, S, sp.n, IF mcause = EnvironmentCall THEN User(After(mepc[2])) ELSE mepc,
                   reg.ra, mstatus.MPIE)
       \/ Place = "back" /\ Point(G, S, sp.n, mepc, reg.ra, mstatus.MPIE)

InHandler ==
    /\ ~On /\ Handler(G, S, sp.n)
    /\ Place \in {"lo", "hi", "setlo", "sethi", "clock", "exit", "status", "yield"}
    /\ Place \in {"clock", "yield"} => reg.ra = At("exit")
    /\ Place = "status" => mepc = S[sp.n].ra

InHandlerCall ==
    /\ HandlerCall(G, S, sp.n)
    /\ \/ Place = "resched" /\ reg.ra = At("restore") /\ ~On
       \/ Place = "restore"

InSwitch ==
    /\ reg.new = currpid
    /\ \/ Place = "save" /\ Leaves(G, S, sp.n, reg.ra, On)
       \/ Place = "load" /\ sp = prstkptr[sp.of] /\ Saved(G, S, sp.n)

InLaunch ==
    /\ ~On
    /\ \/ Place = "launch" /\ Point(G, S, sp.n, reg.ra, reg.ra, TRUE)
       \/ Place = "mret" /\ Point(G, S, sp.n, mepc, reg.ra, TRUE)

Running ==
    /\ sp.of = IF Place \in {"save", "load"} THEN reg.old ELSE currpid
    /\ sp.n = Len(S)
    /\ InCall \/ InTrap \/ InHandler \/ InHandlerCall \/ InSwitch \/ InLaunch

(* mret turns interrupts on where it should.                               *)
Enables ==
    \/ mstatus.MPIE
    \/ currpid = Null /\ InUser
    \/ Place \in {"trap", "exit", "status", "back"}

IInv == Types /\ Stacked /\ Running /\ Enables

(* How far the clock handler has come, and the compare value it leaves.    *)
Wanted(asked, late) == asked + Interval + late

Ticking ==
    /\ Time + HALF + Interval < HALF * HALF
    /\ Place \in {"lo", "hi", "setlo", "sethi"} => mcause = Timer
    /\ IF ~Handling THEN Match = due ELSE Time > due
    /\ Place = "hi" =>
          \E h \in 0 .. timerh : due < h * HALF + reg.lo /\ h * HALF + reg.lo <= Time
    /\ Place \in {"setlo", "sethi"} =>
          \E asked \in due + 1 .. Time, late \in {0, HALF} :
              reg.hi * HALF + reg.lo = Wanted(asked, late)
    /\ Place = "sethi" => timermatchl = reg.lo
--------------------------------------------------------------------------------
(* Constants, labels and frames.                                           *)

LEMMA Sizes ==
    /\ HALF \in Nat /\ HALF > 0 /\ Interval \in Nat /\ Length \in Nat /\ Length > 0
    /\ HALF + Interval < HALF * HALF
    /\ Depth \in Nat /\ Depth > 0 /\ Null \in Procs
    /\ Elapsed \subseteq Nat
BY HartAssumption, TrapsAssumption

LEMMA Labels ==
    /\ \A x \in Places : At(x) \in Label /\ At(x)[1] = x
    /\ \A i \in 0 .. Length - 1 : User(i) \in Label
    /\ \A i : User(i)[1] = "user" /\ User(i)[2] = i
    /\ \A x : At(x)[1] = x
    /\ \A l \in Label : l[1] \in Places \/ l[1] = "user"
    /\ \A l \in Label : l[1] \in Places => l = At(l[1])
    /\ \A l \in Label : l[1] = "user" => l[2] \in 0 .. Length - 1 /\ l = User(l[2])
    /\ "user" \notin Places
BY DEF At, User, Label, Places

LEMMA Afters == \A i \in 0 .. Length - 1 : After(i) \in 0 .. Length - 1
BY Sizes DEF After

LEMMA FrameFacts ==
    /\ \A f \in Frames : f.kind \in {"call", "switch", "trap"} /\ f.ra \in Label /\ f.status \in Status
    /\ \A f \in Frames : f.kind = "trap" => f.reg \in Regs
    /\ \A k \in {"call", "switch"}, ra \in Label, status \in Status :
          [kind |-> k, ra |-> ra, status |-> status] \in Frames
    /\ \A ra \in Label, status \in Status, r \in Regs :
          [kind |-> "trap", status |-> status, reg |-> r, ra |-> ra] \in Frames
BY DEF Frames

LEMMA StatusFacts ==
    /\ \A b, c \in BOOLEAN : [MIE |-> b, MPIE |-> c] \in Status
    /\ \A s \in Status : s.MIE \in BOOLEAN /\ s.MPIE \in BOOLEAN
    /\ \A s \in Status, b \in BOOLEAN : [s EXCEPT !.MIE = b] \in Status
                                       /\ [s EXCEPT !.MIE = b].MIE = b
                                       /\ [s EXCEPT !.MIE = b].MPIE = s.MPIE
BY DEF Status

(* What the stack says of a program depends on the frames counted only.    *)
LEMMA SameFrames ==
    ASSUME NEW g, NEW s, NEW t, NEW n \in Nat, \A i \in 1 .. n : t[i] = s[i],
           NEW label, NEW ra, NEW on
    PROVE  /\ Point(g, s, n, label, ra, on) => Point(g, t, n, label, ra, on)
           /\ Handler(g, s, n) => Handler(g, t, n)
           /\ HandlerCall(g, s, n) => HandlerCall(g, t, n)
           /\ Leaves(g, s, n, ra, on) => Leaves(g, t, n, ra, on)
<1>1. ASSUME NEW l, NEW a, NEW o, NEW m \in Nat, m <= n, Point(g, s, m, l, a, o)
      PROVE  Point(g, t, m, l, a, o)
  <2>1. m = 1 => t[1] = s[1]
    BY <1>1
  <2> QED
    BY <1>1, <2>1 DEF Point
<1>2. ASSUME NEW m \in Nat, m <= n, Handler(g, s, m)
      PROVE  Handler(g, t, m)
  <2>1. m \in 1 .. n /\ t[m] = s[m] /\ m - 1 \in Nat /\ m - 1 <= n
    BY <1>2 DEF Handler
  <2> QED
    BY <1>1, <1>2, <2>1 DEF Handler
<1>3. HandlerCall(g, s, n) => HandlerCall(g, t, n)
  <2> SUFFICES ASSUME HandlerCall(g, s, n) PROVE HandlerCall(g, t, n)
    OBVIOUS
  <2>1. n - 1 \in {1, 2}
    BY DEF HandlerCall, Handler
  <2>2. n - 1 \in Nat /\ n - 1 <= n /\ n \in 1 .. n
    BY <2>1
  <2> QED
    BY <1>2, <2>2 DEF HandlerCall
<1>4. n = 1 => t[1] = s[1]
  OBVIOUS
<1>5. Leaves(g, s, n, ra, on) => Leaves(g, t, n, ra, on)
  BY <1>3, <1>4 DEF Leaves
<1> QED
  BY <1>1, <1>2, <1>3, <1>5

(* Counts of frames.                                                       *)
LEMMA Deep ==
    ASSUME NEW g, NEW s, NEW n \in Nat, NEW label, NEW ra, NEW on
    PROVE  /\ Point(g, s, n, label, ra, on) => n <= 1
           /\ Handler(g, s, n) => n \in {1, 2}
           /\ HandlerCall(g, s, n) => n \in {2, 3}
           /\ Leaves(g, s, n, ra, on) => n \in {1, 2, 3}
<1>1. Point(g, s, n, label, ra, on) => n <= 1
  <2>1. Point(g, s, n, label, ra, on) => n = 0 \/ n = 1
    BY DEF Point
  <2> QED
    BY <2>1
<1>2. ASSUME NEW m \in Int, Handler(g, s, m) PROVE m \in {1, 2}
  BY <1>2 DEF Handler
<1>3. HandlerCall(g, s, n) => n \in {2, 3}
  <2> SUFFICES ASSUME Handler(g, s, n - 1) PROVE n \in {2, 3}
    BY DEF HandlerCall
  <2>1. n - 1 \in {1, 2}
    BY <1>2
  <2> QED
    BY <2>1
<1>4. Leaves(g, s, n, ra, on) => n \in {1, 2, 3}
  BY <1>3 DEF Leaves
<1> QED
  BY <1>1, <1>2, <1>3, <1>4

LEMMA PushFacts ==
    ASSUME Types, sp.n = Len(S), sp.n < Depth, NEW f \in Frames, Push(f)
    PROVE  /\ sp' = [of |-> sp.of, n |-> sp.n + 1]
           /\ sp'.of = sp.of /\ sp'.n = sp.n + 1 /\ sp.n \in Nat
           /\ sp' \in [of : Procs, n : 0 .. Depth]
           /\ stack' \in [Procs -> Seq(Frames)]
           /\ \A q \in Procs : q # sp.of => stack'[q] = stack[q]
           /\ Len(S') = sp.n + 1 /\ S'[sp.n + 1] = f
           /\ \A i \in 1 .. sp.n : S'[i] = S[i]
<1> DEFINE t == SubSeq(S, 1, sp.n) \o <<f>>
<1>1. sp \in [of : Procs, n : 0 .. Depth] /\ S \in Seq(Frames) /\ sp.of \in Procs /\ sp.n \in Nat
  BY Sizes DEF Types, TypeOK, S
<1>2. SubSeq(S, 1, sp.n) = S
  BY <1>1
<1>3. /\ t \in Seq(Frames) /\ Len(t) = sp.n + 1 /\ t[sp.n + 1] = f
      /\ \A i \in 1 .. sp.n : t[i] = S[i]
  <2>1. t = Append(S, f)
    BY <1>1, <1>2, AppendIsConcat
  <2> HIDE DEF t
  <2>2. /\ t \in Seq(Frames) /\ Len(t) = Len(S) + 1 /\ t[Len(S) + 1] = f
        /\ \A i \in 1 .. Len(S) : t[i] = S[i]
    BY <1>1, <2>1, AppendProperties
  <2> QED
    BY <1>1, <2>2
<1>4. stack' = [stack EXCEPT ![sp.of] = t] /\ sp' = [sp EXCEPT !.n = sp.n + 1]
  BY DEF Push, S
<1>5. /\ sp' = [of |-> sp.of, n |-> sp.n + 1] /\ sp'.of = sp.of /\ sp'.n = sp.n + 1
      /\ sp' \in [of : Procs, n : 0 .. Depth]
  BY <1>1, <1>4, Sizes
<1> HIDE DEF t
<1>6. /\ stack' \in [Procs -> Seq(Frames)] /\ stack'[sp.of] = t
      /\ \A q \in Procs : q # sp.of => stack'[q] = stack[q]
  BY <1>1, <1>3, <1>4 DEF Types
<1>7. S' = t
  BY <1>5, <1>6 DEF S
<1> QED
  BY <1>1, <1>3, <1>5, <1>6, <1>7

LEMMA PopFacts ==
    ASSUME Types, sp.n = Len(S), sp.n > 0, Pop
    PROVE  /\ sp' = [of |-> sp.of, n |-> sp.n - 1]
           /\ sp'.of = sp.of /\ sp'.n = sp.n - 1 /\ sp.n - 1 \in Nat
           /\ sp' \in [of : Procs, n : 0 .. Depth]
           /\ stack' \in [Procs -> Seq(Frames)]
           /\ \A q \in Procs : q # sp.of => stack'[q] = stack[q]
           /\ Len(S') = sp.n - 1
           /\ \A i \in 1 .. sp.n - 1 : S'[i] = S[i]
           /\ Top = S[sp.n] /\ Top \in Frames
<1> DEFINE t == SubSeq(S, 1, sp.n - 1)
<1>1. sp \in [of : Procs, n : 0 .. Depth] /\ S \in Seq(Frames) /\ sp.of \in Procs /\ sp.n \in Nat
  BY Sizes DEF Types, TypeOK, S
<1>2. /\ t \in Seq(Frames) /\ Len(t) = sp.n - 1
      /\ \A i \in 1 .. sp.n - 1 : t[i] = S[i]
  <2>1. 1 \in 1 .. Len(S) + 1 /\ sp.n - 1 \in 1 - 1 .. Len(S)
    BY <1>1
  <2> QED
    BY <1>1, <2>1, SubSeqProperties
<1>3. stack' = [stack EXCEPT ![sp.of] = t] /\ sp' = [sp EXCEPT !.n = sp.n - 1]
  BY DEF Pop, S
<1>4. /\ sp' = [of |-> sp.of, n |-> sp.n - 1] /\ sp'.of = sp.of /\ sp'.n = sp.n - 1
      /\ sp' \in [of : Procs, n : 0 .. Depth]
  BY <1>1, <1>3, Sizes
<1> HIDE DEF t
<1>5. /\ stack' \in [Procs -> Seq(Frames)] /\ stack'[sp.of] = t
      /\ \A q \in Procs : q # sp.of => stack'[q] = stack[q]
  BY <1>1, <1>2, <1>3 DEF Types
<1>6. S' = t
  BY <1>4, <1>5 DEF S
<1>7. Top = S[sp.n] /\ S[sp.n] \in Frames
  BY <1>1, ElementOfSeq DEF Top, S
<1> QED
  BY <1>1, <1>2, <1>4, <1>5, <1>6, <1>7


--------------------------------------------------------------------------------
(* The two words of a time.                                                *)

LEMMA Halves ==
    ASSUME NEW x \in Nat
    PROVE  /\ x % HALF \in Word /\ x \div HALF \in Nat
           /\ x = (x \div HALF) * HALF + (x % HALF)
           /\ (x \div HALF) % HALF \in Word
<1>1. HALF \in Nat /\ HALF > 0
  BY Sizes
<1>2. x % HALF \in Word
  BY <1>1 DEF Word
<1>3. x \div HALF \in Nat
  BY <1>1
<1>4. x = (x \div HALF) * HALF + (x % HALF)
  BY <1>1
<1>5. (x \div HALF) % HALF \in Word
  BY <1>1, <1>3 DEF Word
<1> QED
  BY <1>2, <1>3, <1>4, <1>5

LEMMA Products ==
    ASSUME NEW a \in Nat, NEW b \in Nat, NEW l \in Word, NEW m \in Word
    PROVE  /\ a * HALF \in Nat /\ a * HALF + l \in Nat
           /\ a < b => a * HALF + HALF <= b * HALF
           /\ a < b => a * HALF + l < b * HALF + m
           /\ (a + 1) * HALF = a * HALF + HALF
<1>1. HALF \in Nat /\ HALF > 0 /\ l \in 0 .. HALF - 1 /\ m \in 0 .. HALF - 1
  BY Sizes DEF Word
<1>2. a * HALF \in Nat /\ b * HALF \in Nat
  BY <1>1
<1>3. (a + 1) * HALF = a * HALF + HALF
  BY <1>1
<1>4. ASSUME a < b PROVE a * HALF + HALF <= b * HALF
  <2>1. PICK d \in Nat : b = a + 1 + d
    <3>1. b - a - 1 \in Nat /\ b = a + 1 + (b - a - 1)
      BY <1>4
    <3> QED
      BY <3>1
  <2>2. b * HALF = a * HALF + HALF + d * HALF
    BY <1>1, <2>1
  <2>3. d * HALF \in Nat
    BY <1>1
  <2> QED
    BY <1>1, <1>2, <2>2, <2>3
<1>5. a * HALF + l \in Nat
  BY <1>1, <1>2
<1>6. ASSUME a < b PROVE a * HALF + l < b * HALF + m
  BY <1>1, <1>2, <1>4, <1>6
<1> QED
  BY <1>2, <1>3, <1>4, <1>5, <1>6

(* A time that the clock can reach has its upper part in a word.           *)
LEMMA Upper ==
    ASSUME NEW x \in Nat, x < HALF * HALF
    PROVE  x \div HALF \in Word /\ (x \div HALF) % HALF = x \div HALF
<1>1. HALF \in Nat /\ HALF > 0
  BY Sizes
<1> DEFINE q == x \div HALF
<1>2. q \in Nat /\ x % HALF \in Word /\ x = q * HALF + (x % HALF)
  BY Halves
<1> HIDE DEF q
<1>3. q < HALF
  <2> SUFFICES ASSUME ~(q < HALF) PROVE FALSE
    OBVIOUS
  <2>1. HALF < q \/ HALF = q
    BY <1>1, <1>2
  <2>2. HALF * HALF <= q * HALF
    BY <1>1, <1>2, <2>1, Products
  <2>3. q * HALF \in Nat /\ x % HALF \in Nat /\ HALF * HALF \in Nat
    BY <1>1, <1>2, Products DEF Word
  <2>4. x >= q * HALF
    BY <1>2, <2>3
  <2> QED
    BY <2>2, <2>3, <2>4
<1>4. q \in 0 .. HALF - 1
  BY <1>1, <1>2, <1>3
<1>5. q % HALF = q
  BY <1>1, <1>4
<1> QED
  BY <1>4, <1>5 DEF Word, q

--------------------------------------------------------------------------------
(* Reading the invariant, and what it does not look at.                    *)

(* Where a program that is not in a trap can be.                           *)
LEMMA PointPlaces ==
    ASSUME NEW p, NEW s, NEW n, NEW label, NEW ra, NEW on, Point(Prog(p), s, n, label, ra, on)
    PROVE  label[1] \in {"user", "yield", "resume", "resched", "restore", "resumed"}
BY Labels DEF Point, Prog

(* What each place tells of the stack and the registers.                   *)
LEMMA Where ==
    ASSUME Types, Running
    PROVE  /\ InUser => sp.n = 0 /\ pc = G.next /\ (On <=> G.on)
           /\ Place = "yield" =>
                 \/ sp.n = 0 /\ reg.ra = G.next /\ (On <=> G.on)
                 \/ ~On /\ Handler(G, S, sp.n) /\ reg.ra = At("exit")
           /\ Place = "resume" => sp.n = 0 /\ On /\ G.on /\ reg.ra = G.next
           /\ Place = "resched" => Leaves(G, S, sp.n, reg.ra, On)
           /\ Place = "restore" => (sp.n = 1 /\ UserCall(G, S[1])) \/ HandlerCall(G, S, sp.n)
           /\ Place = "resumed" => sp.n = 1 /\ UserCall(G, S[1]) /\ On /\ G.on
           /\ Place \in {"trap", "back"} => InTrap
           /\ Place \in {"lo", "hi", "setlo", "sethi", "clock", "exit", "status"} => InHandler
           /\ Place \in {"save", "load"} => InSwitch
           /\ Place \in {"launch", "mret"} => InLaunch
           /\ Place \notin {"save", "load"} => sp.of = currpid
           /\ sp.n \in Nat /\ sp.n = Len(S) /\ sp.of \in Procs
<1>1. InCall => Place \in {"user", "yield", "resume", "resched", "restore", "resumed"}
  BY PointPlaces DEF InCall, G, Place
<1>2. InTrap => Place \in {"trap", "back"}
  BY DEF InTrap
<1>3. InHandler => Place \in {"lo", "hi", "setlo", "sethi", "clock", "exit", "status", "yield"}
  BY DEF InHandler
<1>4. InHandlerCall => Place \in {"resched", "restore"}
  BY DEF InHandlerCall
<1>5. InSwitch => Place \in {"save", "load"}
  BY DEF InSwitch
<1>6. InLaunch => Place \in {"launch", "mret"}
  BY DEF InLaunch
<1>7. InCall \/ InTrap \/ InHandler \/ InHandlerCall \/ InSwitch \/ InLaunch
  BY DEF Running
<1>8. ASSUME InCall
      PROVE  /\ InUser => sp.n = 0 /\ pc = G.next /\ (On <=> G.on)
             /\ Place = "yield" => sp.n = 0 /\ reg.ra = G.next /\ (On <=> G.on)
             /\ Place = "resume" => sp.n = 0 /\ On /\ G.on /\ reg.ra = G.next
             /\ Place = "resched" => Leaves(G, S, sp.n, reg.ra, On)
             /\ Place = "restore" => sp.n = 1 /\ UserCall(G, S[1])
             /\ Place = "resumed" => sp.n = 1 /\ UserCall(G, S[1]) /\ On /\ G.on
  <2>1. G.next[1] = "user"
    BY Labels DEF G, Prog
  <2> QED
    BY <1>8, <2>1, Labels DEF InCall, Point, Place, InUser, Leaves
<1>9. InHandler /\ Place = "yield" => ~On /\ Handler(G, S, sp.n) /\ reg.ra = At("exit")
  BY DEF InHandler
<1>10. /\ InHandlerCall /\ Place = "resched" => Leaves(G, S, sp.n, reg.ra, On)
       /\ InHandlerCall => HandlerCall(G, S, sp.n)
  BY DEF InHandlerCall, Leaves
<1>11. /\ sp.n \in Nat /\ sp.n = Len(S) /\ sp.of \in Procs
       /\ Place \notin {"save", "load"} => sp.of = currpid
  BY Sizes DEF Types, TypeOK, Running
<1> QED
  BY <1>1, <1>2, <1>3, <1>4, <1>5, <1>6, <1>7, <1>8, <1>9, <1>10, <1>11 DEF InUser

(* An instruction of the kernel that leaves stacks and programs as they    *)
(* are.                                                                    *)
LEMMA Softly ==
    ASSUME Stacked, UNCHANGED <<prstkptr, stack, sp, at, masked>>
    PROVE  Stacked' /\ G' = G /\ S' = S
BY DEF Stacked, G, S, Prog

(* A push or a pop: the other stacks and the programs stay as they are.    *)
LEMMA OnTop ==
    ASSUME Types, Stacked, sp'.of = sp.of, \A q \in Procs : q # sp.of => stack'[q] = stack[q],
           UNCHANGED <<prstkptr, at, masked>>
    PROVE  Stacked' /\ G' = G
BY DEF Stacked, G, Prog

(* An instruction of the program that runs.                                *)
LEMMA OneStep ==
    ASSUME Types, Stacked, Running, InUser, UNCHANGED <<prstkptr, stack, sp>>,
           at' = [at EXCEPT ![currpid] = After(@)],
           masked' \subseteq Procs,
           \A p \in Procs : p # currpid => (p \in masked' <=> p \in masked)
    PROVE  /\ Stacked' /\ S' = S
           /\ G'.next = User(After(pc[2])) /\ G'.next \in Label
           /\ G'.on <=> currpid \notin masked'
           /\ at' \in [Procs -> 0 .. Length - 1]
           /\ sp.of = currpid /\ sp.n = 0 /\ pc = User(at[currpid])
           /\ On <=> currpid \notin masked
<1>1. sp.of = currpid /\ currpid \in Procs /\ sp.n = 0 /\ pc = G.next /\ (On <=> G.on)
  BY Where, Labels DEF InUser, Types, TypeOK
<1>2. pc = User(at[currpid]) /\ (On <=> currpid \notin masked)
  BY <1>1 DEF G, Prog
<1>3. at[currpid] \in 0 .. Length - 1 /\ pc[2] = at[currpid]
  BY <1>1, <1>2, Labels DEF Types
<1>4. After(pc[2]) \in 0 .. Length - 1 /\ User(After(pc[2])) \in Label
  BY <1>3, Afters, Labels
<1>5. /\ at' \in [Procs -> 0 .. Length - 1] /\ at'[currpid] = After(pc[2])
      /\ \A p \in Procs : p # currpid => at'[p] = at[p]
  BY <1>1, <1>3, <1>4 DEF Types
<1>6. G' = [next |-> User(After(pc[2])), on |-> currpid \notin masked'] /\ S' = S
  BY <1>1, <1>5 DEF G, Prog, S
<1>7. \A p \in Procs : p # currpid => Prog(p)' = Prog(p)
  BY <1>5 DEF Prog
<1>8. Stacked'
  BY <1>1, <1>7 DEF Stacked
<1> QED
  BY <1>1, <1>2, <1>4, <1>5, <1>6, <1>8

--------------------------------------------------------------------------------
(* The instructions of a program.                                          *)

LEMMA ComputeKeeps == ASSUME IInv, Compute PROVE IInv'
<1> USE DEF IInv
<1>1. /\ pc' = User(After(pc[2])) /\ InUser
      /\ UNCHANGED <<currpid, prstkptr, stack, sp, reg, masked, due>>
      /\ UNCHANGED <<timer, timermatch, mip, mie, mstatus, mepc, mcause>>
      /\ at' = [at EXCEPT ![currpid] = After(@)]
  BY DEF Compute, Goto, Plain, swvars, csrs
<1>2. masked' \subseteq Procs /\ \A p \in Procs : p # currpid => (p \in masked' <=> p \in masked)
  BY <1>1 DEF Types
<1>3. /\ Stacked' /\ S' = S
      /\ G'.next = pc' /\ pc' \in Label
      /\ G'.on <=> currpid \notin masked'
      /\ at' \in [Procs -> 0 .. Length - 1]
      /\ sp.of = currpid /\ sp.n = 0
      /\ On <=> currpid \notin masked
  BY <1>1, <1>2, OneStep
<1>4. InUser'
  BY <1>1, Labels DEF InUser, Place
<1>5. Types'
  BY <1>1, <1>2, <1>3 DEF Types, TypeOK, timer, timermatch
<1>6. InCall'
  BY <1>1, <1>3 DEF InCall, Point, On
<1>7. Running'
  BY <1>1, <1>3, <1>4, <1>6 DEF Running, InUser
<1>8. Enables'
  BY <1>1, <1>4 DEF Enables, InUser
<1> QED
  BY <1>3, <1>5, <1>7, <1>8

(* The other programs' instructions find MPIE set.                         *)
LEMMA CallsEnable == ASSUME IInv, InUser, Calls PROVE mstatus.MPIE
BY DEF IInv, Enables, Calls, InUser

LEMMA DisableKeeps == ASSUME IInv, Disable PROVE IInv'
<1> USE DEF IInv
<1>1. /\ pc' = User(After(pc[2])) /\ InUser /\ Calls
      /\ UNCHANGED <<currpid, prstkptr, stack, sp, reg, due>>
      /\ UNCHANGED <<timer, timermatch, mip, mie, mepc, mcause>>
      /\ mstatus' = [mstatus EXCEPT !.MIE = FALSE]
      /\ masked' = masked \cup {currpid}
      /\ at' = [at EXCEPT ![currpid] = After(@)]
  BY DEF Disable, Goto, WriteMstatus, swvars
<1>2. masked' \subseteq Procs /\ \A p \in Procs : p # currpid => (p \in masked' <=> p \in masked)
  BY <1>1 DEF Types, TypeOK
<1>3. /\ Stacked' /\ S' = S
      /\ G'.next = pc' /\ pc' \in Label
      /\ G'.on <=> currpid \notin masked'
      /\ at' \in [Procs -> 0 .. Length - 1]
      /\ sp.of = currpid /\ sp.n = 0
  BY <1>1, <1>2, OneStep
<1>4. InUser'
  BY <1>1, Labels DEF InUser, Place
<1>5. mstatus' \in Status /\ mstatus'.MPIE /\ ~mstatus'.MIE
  BY <1>1, CallsEnable, StatusFacts DEF Types, TypeOK
<1>6. Types'
  BY <1>1, <1>2, <1>3, <1>5 DEF Types, TypeOK, timer, timermatch
<1>7. InCall'
  BY <1>1, <1>3, <1>5 DEF InCall, Point, On
<1>8. Running'
  BY <1>1, <1>3, <1>4, <1>7 DEF Running, InUser
<1>9. Enables'
  BY <1>5 DEF Enables
<1> QED
  BY <1>3, <1>6, <1>8, <1>9

LEMMA RestoreKeeps == ASSUME IInv, Restore PROVE IInv'
<1> USE DEF IInv
<1>1. /\ pc' = User(After(pc[2])) /\ InUser /\ Calls
      /\ UNCHANGED <<currpid, prstkptr, stack, sp, reg, due>>
      /\ UNCHANGED <<timer, timermatch, mip, mie, mepc, mcause>>
      /\ mstatus' = [mstatus EXCEPT !.MIE = TRUE]
      /\ masked' = masked \ {currpid}
      /\ at' = [at EXCEPT ![currpid] = After(@)]
  BY DEF Restore, Goto, WriteMstatus, swvars
<1>2. masked' \subseteq Procs /\ \A p \in Procs : p # currpid => (p \in masked' <=> p \in masked)
  BY <1>1 DEF Types
<1>3. /\ Stacked' /\ S' = S
      /\ G'.next = pc' /\ pc' \in Label
      /\ G'.on <=> currpid \notin masked'
      /\ at' \in [Procs -> 0 .. Length - 1]
      /\ sp.of = currpid /\ sp.n = 0
  BY <1>1, <1>2, OneStep
<1>4. InUser'
  BY <1>1, Labels DEF InUser, Place
<1>5. mstatus' \in Status /\ mstatus'.MPIE /\ mstatus'.MIE
  BY <1>1, CallsEnable, StatusFacts DEF Types, TypeOK
<1>6. Types'
  BY <1>1, <1>2, <1>3, <1>5 DEF Types, TypeOK, timer, timermatch
<1>7. InCall'
  BY <1>1, <1>3, <1>5 DEF InCall, Point, On
<1>8. Running'
  BY <1>1, <1>3, <1>4, <1>7 DEF Running, InUser
<1>9. Enables'
  BY <1>5 DEF Enables
<1> QED
  BY <1>3, <1>6, <1>8, <1>9

LEMMA SystemCallKeeps == ASSUME IInv, SystemCall PROVE IInv'
<1> USE DEF IInv
<1>1. /\ pc' = At("trap") /\ mepc' = pc /\ mcause' = EnvironmentCall /\ InUser
      /\ UNCHANGED <<currpid, prstkptr, stack, sp, reg, masked, due>>
      /\ UNCHANGED <<timer, timermatch, mip, mie>>
      /\ mstatus' = [MIE |-> FALSE, MPIE |-> On]
      /\ at' = [at EXCEPT ![currpid] = After(@)]
  BY DEF SystemCall, Ecall, TrapTo, swvars, On
<1>2. masked' \subseteq Procs /\ \A p \in Procs : p # currpid => (p \in masked' <=> p \in masked)
  BY <1>1 DEF Types
<1>3. /\ Stacked' /\ S' = S
      /\ G'.next = User(After(pc[2]))
      /\ G'.on <=> currpid \notin masked'
      /\ at' \in [Procs -> 0 .. Length - 1]
      /\ sp.of = currpid /\ sp.n = 0
      /\ On <=> currpid \notin masked
  BY <1>1, <1>2, OneStep
<1>4. Place' = "trap" /\ pc' \in Label
  BY <1>1, Labels DEF Place, Places
<1>5. On \in BOOLEAN
  BY StatusFacts DEF Types, TypeOK, On
<1>6. mstatus' \in Status /\ mstatus'.MPIE = On /\ ~On'
  BY <1>1, <1>5, StatusFacts DEF On
<1>7. mcause' \in {0, Timer, EnvironmentCall} /\ mcause' = EnvironmentCall /\ mcause' # Timer
  BY <1>1 DEF Timer, EnvironmentCall
<1>8. Types'
  BY <1>1, <1>2, <1>3, <1>4, <1>6, <1>7 DEF Types, TypeOK, timer, timermatch
<1>9. Point(G', S', sp'.n, User(After(mepc'[2])), reg'.ra, mstatus'.MPIE)
  BY <1>1, <1>3, <1>6 DEF Point
<1>10. InTrap'
  BY <1>4, <1>6, <1>7, <1>9 DEF InTrap
<1>11. Running'
  BY <1>1, <1>3, <1>4, <1>10 DEF Running
<1>12. Enables'
  BY <1>4 DEF Enables
<1> QED
  BY <1>3, <1>8, <1>11, <1>12

LEMMA CallsKeep ==
    ASSUME IInv, NEW place \in {"yield", "resume"}, CallsOf(place), place = "resume" => On
    PROVE  IInv'
<1> USE DEF IInv
<1>1. /\ pc' = At(place) /\ InUser /\ Calls
      /\ reg' = [reg EXCEPT !.ra = User(After(pc[2]))]
      /\ UNCHANGED <<currpid, prstkptr, stack, sp, masked, due>>
      /\ UNCHANGED <<timer, timermatch, mip, mie, mstatus, mepc, mcause>>
      /\ at' = [at EXCEPT ![currpid] = After(@)]
  BY DEF CallsOf, Goto, Plain, csrs
<1>2. masked' \subseteq Procs /\ \A p \in Procs : p # currpid => (p \in masked' <=> p \in masked)
  BY <1>1 DEF Types
<1>3. /\ Stacked' /\ S' = S
      /\ G'.next = User(After(pc[2])) /\ G'.next \in Label
      /\ G'.on <=> currpid \notin masked'
      /\ at' \in [Procs -> 0 .. Length - 1]
      /\ sp.of = currpid /\ sp.n = 0
      /\ On <=> currpid \notin masked
  BY <1>1, <1>2, OneStep
<1>4. Place' = place /\ pc' \in Label
  BY <1>1, Labels DEF Place, Places
<1>5. reg' \in Regs /\ reg'.ra = G'.next
  BY <1>1, <1>3 DEF Types, Regs
<1>6. Types'
  BY <1>1, <1>2, <1>3, <1>4, <1>5 DEF Types, TypeOK, timer, timermatch, Regs
<1>7. InCall'
  BY <1>1, <1>3, <1>5 DEF InCall, Point, On
<1>8. Running'
  BY <1>1, <1>3, <1>4, <1>7 DEF Running
<1>9. Enables'
  BY <1>1, CallsEnable DEF Enables
<1> QED
  BY <1>3, <1>6, <1>8, <1>9

--------------------------------------------------------------------------------
(* yield(), resume() and resched().                                        *)

(* Everywhere in the kernel but at the ends of a trap, MPIE is set.        *)
LEMMA InKernel ==
    ASSUME IInv, Place \notin {"user", "trap", "exit", "status", "back"}
    PROVE  mstatus.MPIE
BY DEF IInv, Enables, InUser

LEMMA YieldKeeps == ASSUME IInv, Yield PROVE IInv'
<1> USE DEF IInv
<1> DEFINE f == [kind |-> "call", ra |-> reg.ra, status |-> mstatus]
<1>1. /\ pc' = At("resched") /\ Place = "yield" /\ sp.n < Depth /\ Push(f)
      /\ reg' = [reg EXCEPT !.ra = At("restore")]
      /\ UNCHANGED <<currpid, prstkptr, at, masked, due>>
      /\ UNCHANGED <<timer, timermatch, mip, mie, mepc, mcause>>
      /\ mstatus' = [mstatus EXCEPT !.MIE = FALSE]
  BY DEF Yield, Goto, WriteMstatus, history
<1>2. /\ reg.ra \in Label /\ mstatus \in Status /\ mstatus.MPIE
      /\ sp.n \in Nat /\ sp.n = Len(S) /\ sp.of = currpid
  BY <1>1, InKernel, Where DEF Types, TypeOK, Regs
<1>3. f \in Frames /\ f.kind = "call" /\ f.ra = reg.ra /\ f.status = mstatus
  BY <1>2, FrameFacts
<1> HIDE DEF f
<1>4. /\ sp'.of = sp.of /\ sp'.n = sp.n + 1
      /\ sp' \in [of : Procs, n : 0 .. Depth]
      /\ stack' \in [Procs -> Seq(Frames)]
      /\ \A q \in Procs : q # sp.of => stack'[q] = stack[q]
      /\ Len(S') = sp.n + 1 /\ S'[sp.n + 1] = f
      /\ \A i \in 1 .. sp.n : S'[i] = S[i]
  BY <1>1, <1>2, <1>3, PushFacts
<1>5. Stacked' /\ G' = G
  BY <1>1, <1>4, OnTop
<1>6. mstatus' \in Status /\ ~mstatus'.MIE /\ mstatus'.MPIE
  BY <1>1, <1>2, StatusFacts
<1>7. pc' \in Label /\ Place' = "resched" /\ At("restore") \in Label
  BY <1>1, Labels DEF Place, Places
<1>8. reg' \in Regs /\ reg'.ra = At("restore")
  BY <1>1, <1>7 DEF Types, Regs
<1>9. Types'
  BY <1>1, <1>4, <1>6, <1>7, <1>8 DEF Types, TypeOK, timer, timermatch, Regs
<1>10. ASSUME sp.n = 0, reg.ra = G.next, On <=> G.on
       PROVE  InCall'
  <2>1. sp'.n = 1 /\ S'[1] = f
    BY <1>4, <1>10
  <2>2. UserCall(G', S'[1])
    BY <1>2, <1>3, <1>5, <1>10, <2>1 DEF UserCall, On
  <2> QED
    BY <1>1, <1>6, <1>8, <2>1, <2>2 DEF InCall, Point, On
<1>11. ASSUME ~On, Handler(G, S, sp.n), reg.ra = At("exit")
       PROVE  InHandlerCall'
  <2>1. Handler(G', S', sp.n)
    BY <1>2, <1>4, <1>5, <1>11, SameFrames
  <2>2. sp'.n - 1 = sp.n /\ S'[sp'.n] = f
    BY <1>2, <1>4
  <2>3. HandlerCall(G', S', sp'.n)
    BY <1>3, <1>11, <2>1, <2>2 DEF HandlerCall, On
  <2> QED
    BY <1>6, <1>7, <1>8, <2>3 DEF InHandlerCall, On
<1>12. InCall' \/ InHandlerCall'
  BY <1>1, <1>10, <1>11, Where
<1>13. Running'
  BY <1>1, <1>2, <1>4, <1>7, <1>12 DEF Running
<1>14. Enables'
  BY <1>6 DEF Enables
<1> QED
  BY <1>5, <1>9, <1>13, <1>14

LEMMA ResumeKeeps == ASSUME IInv, Resume PROVE IInv'
<1> USE DEF IInv
<1> DEFINE f == [kind |-> "call", ra |-> reg.ra, status |-> mstatus]
<1>1. /\ pc' = At("resched") /\ Place = "resume" /\ sp.n < Depth /\ Push(f)
      /\ reg' = [reg EXCEPT !.ra = At("resumed")]
      /\ UNCHANGED <<currpid, prstkptr, at, masked, due>>
      /\ UNCHANGED <<timer, timermatch, mip, mie, mstatus, mepc, mcause>>
  BY DEF Resume, Goto, Plain, csrs, history
<1>2. /\ reg.ra \in Label /\ mstatus \in Status /\ mstatus.MPIE
      /\ sp.n = 0 /\ sp.n \in Nat /\ sp.n = Len(S) /\ sp.of = currpid
      /\ reg.ra = G.next /\ On /\ G.on
  BY <1>1, InKernel, Where DEF Types, TypeOK, Regs
<1>3. f \in Frames /\ f.kind = "call" /\ f.ra = reg.ra /\ f.status = mstatus
  BY <1>2, FrameFacts
<1> HIDE DEF f
<1>4. /\ sp'.of = sp.of /\ sp'.n = sp.n + 1
      /\ sp' \in [of : Procs, n : 0 .. Depth]
      /\ stack' \in [Procs -> Seq(Frames)]
      /\ \A q \in Procs : q # sp.of => stack'[q] = stack[q]
      /\ Len(S') = sp.n + 1 /\ S'[sp.n + 1] = f
  BY <1>1, <1>2, <1>3, PushFacts
<1>5. Stacked' /\ G' = G
  BY <1>1, <1>4, OnTop
<1>6. pc' \in Label /\ Place' = "resched" /\ At("resumed") \in Label
  BY <1>1, Labels DEF Place, Places
<1>7. reg' \in Regs /\ reg'.ra = At("resumed")
  BY <1>1, <1>6 DEF Types, Regs
<1>8. Types'
  BY <1>1, <1>4, <1>6, <1>7 DEF Types, TypeOK, timer, timermatch, Regs
<1>9. sp'.n = 1 /\ S'[1] = f
  BY <1>2, <1>4
<1>10. UserCall(G', S'[1])
  BY <1>2, <1>3, <1>5, <1>9 DEF UserCall, On
<1>11. InCall'
  BY <1>1, <1>2, <1>5, <1>7, <1>9, <1>10 DEF InCall, Point, On
<1>12. Running'
  BY <1>1, <1>2, <1>4, <1>6, <1>11 DEF Running
<1>13. Enables'
  BY <1>1, <1>2 DEF Enables
<1> QED
  BY <1>5, <1>8, <1>12, <1>13

(* Where a process that left in resched() goes on.                         *)
LEMMA Comes ==
    ASSUME NEW n, Leaves(G, S, n, reg.ra, On), n = sp.n, pc' = reg.ra,
           UNCHANGED <<reg, mstatus>>, G' = G, S' = S, sp'.n = sp.n
    PROVE  /\ InCall' \/ InHandlerCall'
           /\ Place' \in {"restore", "resumed"} /\ pc' \in Label
<1>1. CASE n = 1 /\ UserCall(G, S[1]) /\ reg.ra = At("restore") /\ ~On
  BY <1>1, Labels DEF InCall, Point, Place, Places, On
<1>2. CASE n = 1 /\ UserCall(G, S[1]) /\ reg.ra = At("resumed") /\ On /\ G.on
  BY <1>2, Labels DEF InCall, Point, Place, Places, On
<1>3. CASE HandlerCall(G, S, n) /\ reg.ra = At("restore") /\ ~On
  BY <1>3, Labels DEF InHandlerCall, Place, Places
<1> QED
  BY <1>1, <1>2, <1>3 DEF Leaves

LEMMA ReschedStaysKeeps == ASSUME IInv, ReschedStays PROVE IInv'
<1> USE DEF IInv
<1>1. /\ pc' = reg.ra /\ Place = "resched"
      /\ UNCHANGED <<currpid, prstkptr, stack, sp, reg, at, masked, due>>
      /\ UNCHANGED <<timer, timermatch, mip, mie, mstatus, mepc, mcause>>
  BY DEF ReschedStays, Goto, Plain, csrs, swvars, history
<1>2. mstatus.MPIE /\ Leaves(G, S, sp.n, reg.ra, On) /\ sp.n = Len(S) /\ sp.of = currpid
  BY <1>1, InKernel, Where
<1>3. Stacked' /\ G' = G /\ S' = S
  BY <1>1, Softly
<1>4. /\ InCall' \/ InHandlerCall'
      /\ Place' \in {"restore", "resumed"} /\ pc' \in Label
  BY <1>1, <1>2, <1>3, Comes
<1>5. Types'
  BY <1>1, <1>4 DEF Types, TypeOK, timer, timermatch
<1>6. Running'
  BY <1>1, <1>2, <1>3, <1>4 DEF Running
<1>7. Enables'
  BY <1>1, <1>2 DEF Enables
<1> QED
  BY <1>3, <1>5, <1>6, <1>7

LEMMA ReschedSwitchesKeeps == ASSUME IInv, ReschedSwitches PROVE IInv'
<1> USE DEF IInv
<1>1. PICK next \in Procs :
         /\ pc' = At("save") /\ Place = "resched"
         /\ currpid' = next
         /\ reg' = [reg EXCEPT !.old = currpid, !.new = next]
         /\ UNCHANGED <<prstkptr, stack, sp, at, masked, due>>
         /\ UNCHANGED <<timer, timermatch, mip, mie, mstatus, mepc, mcause>>
  BY DEF ReschedSwitches, Goto, Plain, csrs, history
<1>2. mstatus.MPIE /\ Leaves(G, S, sp.n, reg.ra, On) /\ sp.n = Len(S) /\ sp.of = currpid
  BY <1>1, InKernel, Where
<1>3. Stacked' /\ G' = G /\ S' = S
  BY <1>1, Softly
<1>4. pc' \in Label /\ Place' = "save"
  BY <1>1, Labels DEF Place, Places
<1>5. reg' \in Regs /\ reg'.ra = reg.ra /\ reg'.old = currpid /\ reg'.new = next
  BY <1>1 DEF Types, TypeOK, Regs
<1>6. Types'
  BY <1>1, <1>4, <1>5 DEF Types, TypeOK, timer, timermatch, Regs
<1>7. InSwitch'
  BY <1>1, <1>2, <1>3, <1>4, <1>5 DEF InSwitch, On
<1>8. Running'
  BY <1>1, <1>2, <1>3, <1>4, <1>5, <1>7 DEF Running
<1>9. Enables'
  BY <1>1, <1>2 DEF Enables
<1> QED
  BY <1>3, <1>6, <1>8, <1>9

--------------------------------------------------------------------------------
(* ctxsw() and the ends of yield() and resume().                           *)

LEMMA SaveKeeps == ASSUME IInv, CtxswSave PROVE IInv'
<1> USE DEF IInv
<1> DEFINE f == [kind |-> "switch", ra |-> reg.ra, status |-> mstatus]
<1>1. /\ pc' = At("load") /\ Place = "save" /\ sp.n < Depth /\ Push(f)
      /\ prstkptr' = [prstkptr EXCEPT ![reg.old] = sp']
      /\ UNCHANGED <<currpid, reg, at, masked, due>>
      /\ UNCHANGED <<timer, timermatch, mip, mie, mstatus, mepc, mcause>>
  BY DEF CtxswSave, Goto, Plain, csrs, history
<1>2. /\ reg.ra \in Label /\ mstatus \in Status /\ mstatus.MPIE
      /\ sp.n \in Nat /\ sp.n = Len(S) /\ sp.of = reg.old /\ sp.of \in Procs
      /\ reg.new = currpid /\ Leaves(G, S, sp.n, reg.ra, On)
  BY <1>1, InKernel, Where DEF Types, TypeOK, Regs, Running, InSwitch
<1>3. f \in Frames /\ f.kind = "switch" /\ f.ra = reg.ra /\ f.status = mstatus
  BY <1>2, FrameFacts
<1> HIDE DEF f
<1>4. /\ sp'.of = sp.of /\ sp'.n = sp.n + 1
      /\ sp' \in [of : Procs, n : 0 .. Depth]
      /\ stack' \in [Procs -> Seq(Frames)]
      /\ \A q \in Procs : q # sp.of => stack'[q] = stack[q]
      /\ Len(S') = sp.n + 1 /\ S'[sp.n + 1] = f
      /\ \A i \in 1 .. sp.n : S'[i] = S[i]
  BY <1>1, <1>2, <1>3, PushFacts
<1>5. /\ prstkptr' \in [Procs -> [of : Procs, n : 0 .. Depth]]
      /\ prstkptr'[sp.of] = sp'
      /\ \A p \in Procs : p # sp.of => prstkptr'[p] = prstkptr[p]
  BY <1>1, <1>2, <1>4 DEF Types, TypeOK
<1>6. G' = G /\ \A p \in Procs : Prog(p)' = Prog(p)
  BY <1>1, <1>4 DEF G, Prog
<1>7. Stacked'
  BY <1>4, <1>5, <1>6 DEF Stacked
<1>8. pc' \in Label /\ Place' = "load"
  BY <1>1, Labels DEF Place, Places
<1>9. Types'
  BY <1>1, <1>4, <1>5, <1>8 DEF Types, TypeOK, timer, timermatch
<1>10. Leaves(G', S', sp.n, f.ra, f.status.MIE)
  BY <1>2, <1>3, <1>4, <1>6, SameFrames DEF On
<1>11. sp'.n > 0 /\ sp'.n - 1 = sp.n /\ sp'.n = Len(S') /\ S'[sp'.n] = f
  BY <1>2, <1>4
<1>12. Saved(G', S', sp'.n)
  BY <1>2, <1>3, <1>10, <1>11 DEF Saved
<1>13. InSwitch'
  BY <1>1, <1>2, <1>4, <1>5, <1>8, <1>12 DEF InSwitch
<1>14. Running'
  BY <1>1, <1>2, <1>4, <1>8, <1>11, <1>13 DEF Running
<1>15. Enables'
  BY <1>1, <1>2 DEF Enables
<1> QED
  BY <1>7, <1>9, <1>14, <1>15

LEMMA LoadKeeps == ASSUME IInv, CtxswLoad PROVE IInv'
<1> USE DEF IInv
<1> DEFINE c == currpid
           new == prstkptr[c]
           s == stack[c]
           frame == s[new.n]
           t == SubSeq(s, 1, new.n - 1)
<1>1. Place = "load" /\ InSwitch /\ mstatus.MPIE /\ sp.of \in Procs /\ c \in Procs
  <2>1. Place = "load"
    BY DEF CtxswLoad
  <2> QED
    BY <2>1, InKernel, Where DEF Types, TypeOK
<1>2. reg.new = c /\ sp = prstkptr[sp.of] /\ Saved(G, S, sp.n)
  BY <1>1 DEF InSwitch
<1>3. \A p \in Procs : prstkptr[p].of = p /\ Saved(Prog(p), stack[p], prstkptr[p].n)
  BY <1>1, <1>2 DEF Stacked, G, S
<1>4. /\ sp' = [new EXCEPT !.n = @ - 1]
      /\ stack' = [stack EXCEPT ![c] = t]
      /\ reg' = [NoReg EXCEPT !.ra = frame.ra]
      /\ IF frame.status.MIE
         THEN /\ pc' = At("launch")
              /\ WriteMstatus([frame.status EXCEPT !.MIE = FALSE])
         ELSE /\ pc' = frame.ra
              /\ Plain
      /\ UNCHANGED <<currpid, prstkptr, at, masked, due>>
  <2>1. prstkptr[reg.new].of = c /\ prstkptr[reg.new] = new
    BY <1>1, <1>2, <1>3
  <2> QED
    BY <2>1 DEF CtxswLoad, Goto, history
<1>5. UNCHANGED <<timer, timermatch, mip, mie, mepc, mcause>>
  BY <1>4 DEF WriteMstatus, Plain, csrs
<1>6. /\ new \in [of : Procs, n : 0 .. Depth] /\ new.of = c
      /\ new.n \in Nat /\ new.n > 0 /\ new.n = Len(s) /\ s \in Seq(Frames)
      /\ Saved(Prog(c), s, new.n)
  BY <1>1, <1>3, Sizes DEF Types, TypeOK, Saved
<1>7. frame \in Frames /\ frame.kind = "switch" /\ (frame.status.MIE => frame.status.MPIE)
  BY <1>6, ElementOfSeq DEF Saved
<1>8. frame.ra \in Label /\ frame.status \in Status
  BY <1>7, FrameFacts
<1>9. t \in Seq(Frames) /\ Len(t) = new.n - 1 /\ \A i \in 1 .. new.n - 1 : t[i] = s[i]
  <2>1. 1 \in 1 .. Len(s) + 1 /\ new.n - 1 \in 1 - 1 .. Len(s)
    BY <1>6
  <2> QED
    BY <1>6, <2>1, SubSeqProperties
<1> HIDE DEF t
<1>10. /\ sp'.of = c /\ sp'.n = new.n - 1 /\ sp'.n \in Nat
       /\ sp' \in [of : Procs, n : 0 .. Depth]
  BY <1>4, <1>6, Sizes
<1>11. /\ stack' \in [Procs -> Seq(Frames)] /\ stack'[c] = t
       /\ \A p \in Procs : p # c => stack'[p] = stack[p]
  BY <1>1, <1>4, <1>9 DEF Types
<1>12. G' = Prog(c) /\ S' = t /\ \A p \in Procs : Prog(p)' = Prog(p)
  BY <1>4, <1>10, <1>11 DEF G, S, Prog
<1>13. Stacked'
  BY <1>3, <1>4, <1>10, <1>11, <1>12 DEF Stacked
<1>14. \/ Leaves(G', S', sp'.n, frame.ra, frame.status.MIE)
       \/ sp'.n = 0 /\ frame.ra = G'.next /\ frame.status.MIE /\ G'.on
  <2>1. \/ Leaves(Prog(c), s, new.n - 1, frame.ra, frame.status.MIE)
        \/ new.n = 1 /\ s[1].ra = Prog(c).next /\ s[1].status.MIE /\ Prog(c).on
    BY <1>6 DEF Saved
  <2>2. CASE Leaves(Prog(c), s, new.n - 1, frame.ra, frame.status.MIE)
    <3>1. new.n - 1 \in Nat
      BY <1>6
    <3>2. ASSUME NEW g, NEW ra, NEW on, Leaves(g, s, new.n - 1, ra, on)
          PROVE  Leaves(g, t, new.n - 1, ra, on)
      BY <1>9, <3>1, <3>2, SameFrames
    <3> QED
      BY <1>10, <1>12, <2>2, <3>2
  <2>3. CASE new.n = 1 /\ s[1].ra = Prog(c).next /\ s[1].status.MIE /\ Prog(c).on
    BY <1>10, <1>12, <2>3
  <2> QED
    BY <2>1, <2>2, <2>3
<1>15. reg' \in Regs /\ reg'.ra = frame.ra
  BY <1>4, <1>8, Sizes DEF NoReg, Regs, Word
<1>16. sp'.n = Len(S')
  BY <1>9, <1>10, <1>12
<1>17. CASE frame.status.MIE
  <2>1. /\ pc' = At("launch") /\ mstatus' = [frame.status EXCEPT !.MIE = FALSE]
    BY <1>4, <1>17 DEF WriteMstatus
  <2>2. mstatus' \in Status /\ ~mstatus'.MIE /\ mstatus'.MPIE
    BY <1>7, <1>8, <1>17, <2>1, StatusFacts
  <2>3. pc' \in Label /\ Place' = "launch"
    BY <2>1, Labels DEF Place, Places
  <2>4. Point(G', S', sp'.n, reg'.ra, reg'.ra, TRUE)
    BY <1>14, <1>15, <1>17 DEF Leaves, Point
  <2>5. InLaunch'
    BY <2>2, <2>3, <2>4 DEF InLaunch, On
  <2>6. Types'
    BY <1>4, <1>5, <1>10, <1>11, <1>15, <2>2, <2>3 DEF Types, TypeOK, timer, timermatch, Regs
  <2>7. Running'
    BY <1>4, <1>10, <1>16, <2>3, <2>5 DEF Running
  <2>8. Enables'
    BY <2>2 DEF Enables
  <2> QED
    BY <1>13, <2>6, <2>7, <2>8
<1>18. CASE ~frame.status.MIE
  <2>1. /\ pc' = frame.ra /\ mstatus' = mstatus
    BY <1>4, <1>18 DEF Plain, csrs
  <2>2. Leaves(G', S', sp'.n, frame.ra, frame.status.MIE)
    BY <1>14, <1>18
  <2>3. /\ (sp'.n = 1 /\ UserCall(G', S'[1])) \/ HandlerCall(G', S', sp'.n)
        /\ frame.ra = At("restore")
    BY <1>18, <2>2 DEF Leaves
  <2>4. pc' \in Label /\ Place' = "restore"
    BY <1>8, <2>1, <2>3, Labels DEF Place, Places
  <2>5. InCall' \/ InHandlerCall'
    BY <2>1, <2>3, <2>4 DEF InCall, InHandlerCall, Point
  <2>6. Types'
    BY <1>4, <1>5, <1>10, <1>11, <1>15, <2>1, <2>4 DEF Types, TypeOK, timer, timermatch, Regs
  <2>7. Running'
    BY <1>4, <1>10, <1>16, <2>4, <2>5 DEF Running
  <2>8. Enables'
    BY <1>1, <2>1 DEF Enables
  <2> QED
    BY <1>13, <2>6, <2>7, <2>8
<1> QED
  BY <1>17, <1>18

LEMMA LaunchKeeps == ASSUME IInv, CtxswLaunch PROVE IInv'
<1> USE DEF IInv
<1>1. /\ pc' = At("mret") /\ Place = "launch" /\ mepc' = reg.ra
      /\ UNCHANGED <<currpid, prstkptr, stack, sp, reg, at, masked, due>>
      /\ UNCHANGED <<timer, timermatch, mip, mie, mstatus, mcause>>
  BY DEF CtxswLaunch, Goto, WriteMepc, swvars, history
<1>2. /\ ~On /\ Point(G, S, sp.n, reg.ra, reg.ra, TRUE)
      /\ mstatus.MPIE /\ sp.n = Len(S) /\ sp.of = currpid
  BY <1>1, InKernel, Where, Labels DEF InLaunch, Place
<1>3. Stacked' /\ G' = G /\ S' = S
  BY <1>1, Softly
<1>4. pc' \in Label /\ Place' = "mret" /\ mepc' \in Label
  BY <1>1, Labels DEF Place, Places, Types, Regs
<1>5. Types'
  BY <1>1, <1>4 DEF Types, TypeOK, timer, timermatch
<1>6. InLaunch'
  BY <1>1, <1>2, <1>3, <1>4 DEF InLaunch, On
<1>7. Running'
  BY <1>1, <1>2, <1>3, <1>4, <1>6 DEF Running
<1>8. Enables'
  BY <1>1, <1>2 DEF Enables
<1> QED
  BY <1>3, <1>5, <1>7, <1>8

(* Interrupts are as they were when yield() was called.                    *)
LEMMA YieldRestoresKeeps == ASSUME IInv, YieldRestores PROVE IInv'
<1> USE DEF IInv
<1> DEFINE f == S[sp.n]
<1>1. Place = "restore"
  BY DEF YieldRestores
<1>2. /\ sp.n \in Nat /\ sp.n = Len(S) /\ sp.of = currpid
      /\ (sp.n = 1 /\ UserCall(G, S[1])) \/ HandlerCall(G, S, sp.n)
  BY <1>1, Where
<1>3. sp.n > 0
  BY <1>2, Deep
<1>4. Pop
  BY DEF YieldRestores, ReturnTo
<1>5. /\ sp'.of = sp.of /\ sp'.n = sp.n - 1 /\ sp.n - 1 \in Nat
      /\ sp' \in [of : Procs, n : 0 .. Depth]
      /\ stack' \in [Procs -> Seq(Frames)]
      /\ \A q \in Procs : q # sp.of => stack'[q] = stack[q]
      /\ Len(S') = sp.n - 1
      /\ \A i \in 1 .. sp.n - 1 : S'[i] = S[i]
      /\ Top = f /\ f \in Frames
  BY <1>2, <1>3, <1>4, PopFacts
<1>6. /\ pc' = f.ra /\ mstatus' = f.status /\ reg' = NoReg
      /\ UNCHANGED <<currpid, prstkptr, at, masked, due>>
      /\ UNCHANGED <<timer, timermatch, mip, mie, mepc, mcause>>
  BY <1>5 DEF YieldRestores, ReturnTo, Goto, WriteMstatus, history
<1>7. f.ra \in Label /\ f.status \in Status
  BY <1>5, FrameFacts
<1> HIDE DEF f
<1>8. Stacked' /\ G' = G
  BY <1>5, <1>6, OnTop
<1>9. reg' \in Regs
  BY <1>6, Labels, Sizes DEF NoReg, Regs, Word, Places
<1>10. Types'
  BY <1>5, <1>6, <1>7, <1>9 DEF Types, TypeOK, timer, timermatch, Regs
<1>11. CASE sp.n = 1 /\ UserCall(G, S[1])
  <2>1. f = S[1] /\ sp'.n = 0
    BY <1>5, <1>11 DEF f
  <2>2. f.ra = G.next /\ (f.status.MIE <=> G.on) /\ f.status.MPIE
    BY <1>11, <2>1 DEF UserCall
  <2>3. InCall'
    BY <1>6, <1>8, <2>1, <2>2 DEF InCall, Point, On
  <2>4. Place' = "user"
    BY <1>6, <2>2, Labels DEF Place, G, Prog
  <2>5. Running'
    BY <1>2, <1>5, <1>6, <2>3, <2>4 DEF Running
  <2>6. Enables'
    BY <1>6, <2>2 DEF Enables
  <2> QED
    BY <1>8, <1>10, <2>5, <2>6
<1>12. CASE HandlerCall(G, S, sp.n)
  <2>1. Handler(G, S, sp.n - 1) /\ f.ra = At("exit") /\ ~f.status.MIE
    BY <1>12 DEF HandlerCall, f
  <2>2. Handler(G', S', sp'.n)
    BY <1>5, <1>8, <2>1, SameFrames
  <2>3. Place' = "exit"
    BY <1>6, <2>1, Labels DEF Place
  <2>4. InHandler'
    BY <1>6, <2>1, <2>2, <2>3 DEF InHandler, On
  <2>5. Running'
    BY <1>2, <1>5, <1>6, <2>3, <2>4 DEF Running
  <2>6. Enables'
    BY <2>3 DEF Enables
  <2> QED
    BY <1>8, <1>10, <2>5, <2>6
<1> QED
  BY <1>2, <1>11, <1>12

LEMMA ResumeReturnsKeeps == ASSUME IInv, ResumeReturns PROVE IInv'
<1> USE DEF IInv
<1> DEFINE f == S[sp.n]
<1>1. Place = "resumed"
  BY DEF ResumeReturns
<1>2. /\ sp.n = 1 /\ sp.n = Len(S) /\ sp.of = currpid
      /\ UserCall(G, S[1]) /\ On /\ G.on /\ mstatus.MPIE
  BY <1>1, Where, InKernel
<1>3. Pop /\ sp.n > 0
  BY <1>2 DEF ResumeReturns, ReturnTo
<1>4. /\ sp'.of = sp.of /\ sp'.n = sp.n - 1
      /\ sp' \in [of : Procs, n : 0 .. Depth]
      /\ stack' \in [Procs -> Seq(Frames)]
      /\ \A q \in Procs : q # sp.of => stack'[q] = stack[q]
      /\ Len(S') = sp.n - 1
      /\ Top = f /\ f \in Frames
  BY <1>2, <1>3, PopFacts
<1>5. /\ pc' = f.ra /\ reg' = NoReg
      /\ UNCHANGED <<currpid, prstkptr, at, masked, due>>
      /\ UNCHANGED <<timer, timermatch, mip, mie, mstatus, mepc, mcause>>
  BY <1>4 DEF ResumeReturns, ReturnTo, Goto, Plain, csrs, history
<1>6. f.ra \in Label /\ f = S[1]
  BY <1>2, <1>4, FrameFacts
<1> HIDE DEF f
<1>7. Stacked' /\ G' = G
  BY <1>4, <1>5, OnTop
<1>8. reg' \in Regs
  BY <1>5, Labels, Sizes DEF NoReg, Regs, Word, Places
<1>9. Types'
  BY <1>4, <1>5, <1>6, <1>8 DEF Types, TypeOK, timer, timermatch, Regs
<1>10. f.ra = G.next /\ sp'.n = 0
  <2>1. UserCall(G, f)
    BY <1>2, <1>6
  <2>2. f.ra = G.next
    BY <2>1 DEF UserCall
  <2>3. sp.n = 1 /\ sp'.n = sp.n - 1
    BY <1>2, <1>4
  <2>4. sp'.n = 0
    BY <2>3
  <2> QED
    BY <2>2, <2>4
<1>11. InCall'
  BY <1>2, <1>5, <1>7, <1>10 DEF InCall, Point, On
<1>12. Place' = "user"
  BY <1>5, <1>10, Labels DEF Place, G, Prog
<1>13. Running'
  BY <1>2, <1>4, <1>5, <1>11, <1>12 DEF Running
<1>14. Enables'
  BY <1>2, <1>5 DEF Enables
<1> QED
  BY <1>7, <1>9, <1>13, <1>14

--------------------------------------------------------------------------------
(* Traps.                                                                  *)

LEMMA EntryKeeps == ASSUME IInv, TrapEntry PROVE IInv'
<1> USE DEF IInv
<1> DEFINE ra == IF mcause = EnvironmentCall THEN User(After(mepc[2])) ELSE mepc
           f == [kind |-> "trap", status |-> mstatus, reg |-> reg, ra |-> ra]
<1>1. /\ pc' = (IF mcause = Timer THEN At("lo") ELSE At("exit"))
      /\ Place = "trap" /\ sp.n < Depth /\ Push(f)
      /\ mip' = {}
      /\ UNCHANGED <<currpid, prstkptr, reg, at, masked, due>>
      /\ UNCHANGED <<timer, timermatch, mie, mstatus, mepc, mcause>>
  BY DEF TrapEntry, Goto, WriteMip, history
<1>2. InTrap /\ sp.n \in Nat /\ sp.n = Len(S) /\ sp.of = currpid
  BY <1>1, Where
<1>3. /\ ~On /\ Point(G, S, sp.n, ra, reg.ra, mstatus.MPIE)
      /\ mcause = Timer => mstatus.MPIE
  BY <1>1, <1>2 DEF InTrap
<1>4. ra \in Label
  <2>1. mepc \in Label
    BY DEF Types, TypeOK
  <2>2. mepc[2] \in 0 .. Length - 1
    BY <2>1, Sizes DEF Label
  <2> QED
    BY <2>1, <2>2, Afters, Labels
<1>5. f \in Frames /\ f.kind = "trap" /\ f.status = mstatus /\ f.reg = reg /\ f.ra = ra
  BY <1>4, FrameFacts DEF Types, TypeOK
<1> HIDE DEF f, ra
<1>6. /\ sp'.of = sp.of /\ sp'.n = sp.n + 1
      /\ sp' \in [of : Procs, n : 0 .. Depth]
      /\ stack' \in [Procs -> Seq(Frames)]
      /\ \A q \in Procs : q # sp.of => stack'[q] = stack[q]
      /\ Len(S') = sp.n + 1 /\ S'[sp.n + 1] = f
      /\ \A i \in 1 .. sp.n : S'[i] = S[i]
  BY <1>1, <1>2, <1>5, PushFacts
<1>7. Stacked' /\ G' = G
  BY <1>1, <1>6, OnTop
<1>8. pc' \in Label /\ Place' \in {"lo", "exit"} /\ (Place' = "lo" => mcause = Timer)
  BY <1>1, Labels DEF Place, Places
<1>9. Types'
  BY <1>1, <1>6, <1>8 DEF Types, TypeOK, timer, timermatch
<1>10. Handler(G', S', sp'.n)
  <2>0. sp.n <= 1
    BY <1>2, <1>3, Deep
  <2>1. sp.n <= 1 /\ sp'.n - 1 = sp.n /\ S'[sp'.n] = f
    BY <1>2, <1>6, <2>0
  <2>2. Point(G', S', sp.n, ra, reg.ra, mstatus.MPIE)
    BY <1>2, <1>3, <1>6, <1>7, SameFrames
  <2>3. sp'.n \in {1, 2}
    BY <1>2, <1>6, <2>1
  <2> QED
    BY <1>3, <1>5, <2>1, <2>2, <2>3 DEF Handler, On
<1>11. InHandler'
  BY <1>1, <1>3, <1>8, <1>10 DEF InHandler, On
<1>12. Running'
  BY <1>1, <1>2, <1>6, <1>8, <1>11 DEF Running
<1>13. Enables'
  BY <1>1, <1>3, <1>8 DEF Enables
<1> QED
  BY <1>7, <1>9, <1>12, <1>13

(* A step inside the handler that leaves the stack as it is.               *)
LEMMA HandlerGoesOn ==
    ASSUME IInv, InHandler, UNCHANGED <<currpid, prstkptr, stack, sp, mstatus, at, masked>>,
           Place # "yield", Types',
           Place' \in {"lo", "hi", "setlo", "sethi", "clock", "exit", "status", "yield"},
           Place' \in {"clock", "yield"} => reg'.ra = At("exit"),
           Place' = "status" => mepc' = S[sp.n].ra,
           Place \in {"exit", "status"} => Place' = "status"
    PROVE  IInv'
<1>1. Stacked' /\ G' = G /\ S' = S
  BY Softly DEF IInv
<1>2. Place \in {"lo", "hi", "setlo", "sethi", "clock", "exit", "status"} /\ sp.of = currpid
  BY Where DEF IInv, InHandler
<1>3. InHandler'
  BY <1>1 DEF InHandler, On
<1>4. Running'
  BY <1>1, <1>2, <1>3 DEF Running, IInv
<1>5. Enables'
  BY <1>2, InKernel DEF Enables
<1> QED
  BY <1>1, <1>4, <1>5 DEF IInv

LEMMA ClkLoKeeps == ASSUME IInv, ClkLo PROVE IInv'
<1>1. /\ pc' = At("hi") /\ Place = "lo" /\ reg' = [reg EXCEPT !.lo = timerl]
      /\ UNCHANGED <<currpid, prstkptr, stack, sp, at, masked, due>>
      /\ UNCHANGED <<timer, timermatch, mip, mie, mstatus, mepc, mcause>>
  BY DEF ClkLo, Goto, Plain, csrs, history
<1>2. pc' \in Label /\ Place' = "hi"
  BY <1>1, Labels DEF Place, Places
<1>3. timerl \in Word
  BY DEF IInv, Types, TypeOK, timer
<1>4. reg' \in Regs
  BY <1>1, <1>3 DEF IInv, Types, Regs
<1>5. Types'
  BY <1>1, <1>2, <1>4 DEF IInv, Types, TypeOK, timer, timermatch, Regs
<1> QED
  BY <1>1, <1>2, <1>5, Where, HandlerGoesOn DEF IInv

LEMMA ClkHiKeeps == ASSUME IInv, ClkHi PROVE IInv'
<1> DEFINE then == timerh * HALF + reg.lo + Interval
<1>1. /\ pc' = At("setlo") /\ Place = "hi"
      /\ reg' = [reg EXCEPT !.lo = then % HALF, !.hi = (then \div HALF) % HALF]
      /\ UNCHANGED <<currpid, prstkptr, stack, sp, at, masked, due>>
      /\ UNCHANGED <<timer, timermatch, mip, mie, mstatus, mepc, mcause>>
  BY DEF ClkHi, Goto, Plain, csrs, history
<1>2. pc' \in Label /\ Place' = "setlo"
  BY <1>1, Labels DEF Place, Places
<1>3. then \in Nat
  <2>1. timerh \in Nat /\ reg.lo \in Word
    BY Sizes DEF IInv, Types, TypeOK, timer, Word
  <2>2. timerh * HALF + reg.lo \in Nat
    BY <2>1, Products
  <2> QED
    BY <2>2, Sizes
<1> HIDE DEF then
<1>4. then % HALF \in Word /\ (then \div HALF) % HALF \in Word
  BY <1>3, Halves
<1>5. reg' \in Regs
  BY <1>1, <1>4 DEF IInv, Types, Regs
<1>6. Types'
  BY <1>1, <1>2, <1>5 DEF IInv, Types, TypeOK, timer, timermatch, Regs
<1> QED
  BY <1>1, <1>2, <1>6, Where, HandlerGoesOn DEF IInv

LEMMA ClkSetLoKeeps == ASSUME IInv, ClkSetLo PROVE IInv'
<1>1. /\ pc' = At("sethi") /\ Place = "setlo" /\ timermatchl' = reg.lo
      /\ UNCHANGED <<currpid, prstkptr, stack, sp, reg, at, masked, due>>
      /\ UNCHANGED <<timer, timermatchh, mip, mie, mstatus, mepc, mcause>>
  BY DEF ClkSetLo, StoreMatchl, Goto, csrs, swvars, history
<1>2. pc' \in Label /\ Place' = "sethi"
  BY <1>1, Labels DEF Place, Places
<1>3. Types'
  BY <1>1, <1>2 DEF IInv, Types, TypeOK, timer, timermatch
<1> QED
  BY <1>1, <1>2, <1>3, Where, HandlerGoesOn DEF IInv

LEMMA ClkSetHiKeeps == ASSUME IInv, ClkSetHi PROVE IInv'
<1>1. /\ pc' = At("clock") /\ Place = "sethi" /\ timermatchh' = reg.hi
      /\ reg' = [NoReg EXCEPT !.ra = At("exit")]
      /\ due' = Match'
      /\ UNCHANGED <<currpid, prstkptr, stack, sp, at, masked>>
      /\ UNCHANGED <<timer, timermatchl, mip, mie, mstatus, mepc, mcause>>
  BY DEF ClkSetHi, StoreMatchh, Goto, csrs
<1>2. pc' \in Label /\ Place' = "clock" /\ At("exit") \in Label
  BY <1>1, Labels DEF Place, Places
<1>3. reg' \in Regs /\ reg'.ra = At("exit")
  BY <1>1, <1>2, Sizes DEF NoReg, Regs, Word
<1>4. timermatchl' \in Word /\ timermatchh' \in Word
  BY <1>1 DEF IInv, Types, TypeOK, timermatch
<1>5. due' \in Nat
  <2>1. timermatchh' \in Nat
    BY <1>4, Sizes DEF Word
  <2>2. timermatchh' * HALF + timermatchl' \in Nat
    BY <1>4, <2>1, Products
  <2> QED
    BY <1>1, <2>2 DEF Match
<1>6. Types'
  BY <1>1, <1>2, <1>3, <1>4, <1>5 DEF IInv, Types, TypeOK, timer, timermatch, Regs
<1> QED
  BY <1>1, <1>2, <1>3, <1>6, Where, HandlerGoesOn DEF IInv

LEMMA ClkRestKeeps == ASSUME IInv, ClkRest PROVE IInv'
<1>1. /\ pc' = At("exit") \/ pc' = At("yield")
      /\ Place = "clock"
      /\ UNCHANGED <<currpid, prstkptr, stack, sp, reg, at, masked, due>>
      /\ UNCHANGED <<timer, timermatch, mip, mie, mstatus, mepc, mcause>>
  BY DEF ClkRest, Goto, Plain, csrs, swvars, history
<1>2. pc' \in Label /\ Place' \in {"exit", "yield"}
  BY <1>1, Labels DEF Place, Places
<1>3. Types'
  BY <1>1, <1>2 DEF IInv, Types, TypeOK, timer, timermatch
<1>4. InHandler /\ reg.ra = At("exit")
  BY <1>1, Where DEF IInv, InHandler
<1> QED
  BY <1>1, <1>2, <1>3, <1>4, HandlerGoesOn

LEMMA ExitMepcKeeps == ASSUME IInv, ExitMepc PROVE IInv'
<1>1. /\ pc' = At("status") /\ Place = "exit" /\ mepc' = S[sp.n].ra
      /\ UNCHANGED <<currpid, prstkptr, stack, sp, reg, at, masked, due>>
      /\ UNCHANGED <<timer, timermatch, mip, mie, mstatus, mcause>>
  BY DEF ExitMepc, WriteMepc, Goto, swvars, history, Top, S
<1>2. pc' \in Label /\ Place' = "status"
  BY <1>1, Labels DEF Place, Places
<1>3. InHandler /\ S \in Seq(Frames) /\ sp.n \in 1 .. Len(S)
  <2>1. InHandler /\ sp.n \in Nat /\ sp.n = Len(S) /\ sp.of \in Procs
    BY <1>1, Where DEF IInv
  <2>2. sp.n > 0
    BY <2>1, Deep DEF InHandler
  <2> QED
    BY <2>1, <2>2 DEF IInv, Types, S
<1>4. S[sp.n].ra \in Label
  BY <1>3, ElementOfSeq, FrameFacts
<1>5. Types'
  BY <1>1, <1>2, <1>4 DEF IInv, Types, TypeOK, timer, timermatch
<1> QED
  BY <1>1, <1>2, <1>3, <1>5, HandlerGoesOn

LEMMA ExitStatusKeeps == ASSUME IInv, ExitStatus PROVE IInv'
<1> USE DEF IInv
<1> DEFINE f == S[sp.n]
<1>1. Place = "status"
  BY DEF ExitStatus
<1>2. /\ InHandler /\ sp.n \in Nat /\ sp.n = Len(S) /\ sp.of = currpid
  BY <1>1, Where
<1>3. /\ sp.n \in {1, 2} /\ f.kind = "trap" /\ ~f.status.MIE /\ mepc = f.ra
      /\ Point(G, S, sp.n - 1, f.ra, f.reg.ra, f.status.MPIE)
  BY <1>1, <1>2 DEF InHandler, Handler
<1>4. Pop /\ sp.n > 0
  BY <1>3 DEF ExitStatus
<1>5. /\ sp'.of = sp.of /\ sp'.n = sp.n - 1 /\ sp.n - 1 \in Nat
      /\ sp' \in [of : Procs, n : 0 .. Depth]
      /\ stack' \in [Procs -> Seq(Frames)]
      /\ \A q \in Procs : q # sp.of => stack'[q] = stack[q]
      /\ Len(S') = sp.n - 1
      /\ \A i \in 1 .. sp.n - 1 : S'[i] = S[i]
      /\ Top = f /\ f \in Frames
  BY <1>2, <1>4, PopFacts
<1>6. /\ pc' = At("back") /\ mstatus' = f.status /\ reg' = f.reg
      /\ UNCHANGED <<currpid, prstkptr, at, masked, due>>
      /\ UNCHANGED <<timer, timermatch, mip, mie, mepc, mcause>>
  BY <1>5 DEF ExitStatus, Goto, WriteMstatus, history
<1>7. f.ra \in Label /\ f.status \in Status /\ f.reg \in Regs
  BY <1>3, <1>5, FrameFacts
<1> HIDE DEF f
<1>8. Stacked' /\ G' = G
  BY <1>5, <1>6, OnTop
<1>9. pc' \in Label /\ Place' = "back"
  BY <1>6, Labels DEF Place, Places
<1>10. Types'
  BY <1>5, <1>6, <1>7, <1>9 DEF Types, TypeOK, timer, timermatch, Regs
<1>11. Point(G', S', sp'.n, mepc', reg'.ra, mstatus'.MPIE)
  <2>1. Point(G, S', sp.n - 1, f.ra, f.reg.ra, f.status.MPIE)
    BY <1>3, <1>5, SameFrames
  <2> QED
    BY <1>3, <1>5, <1>6, <1>8, <2>1
<1>12. InTrap'
  BY <1>3, <1>6, <1>9, <1>11 DEF InTrap, On
<1>13. Running'
  BY <1>2, <1>5, <1>6, <1>9, <1>12 DEF Running
<1>14. Enables'
  BY <1>9 DEF Enables
<1> QED
  BY <1>8, <1>10, <1>13, <1>14

(* mret, at the end of a trap and in ctxsw(): the program or the call it   *)
(* is in goes on.                                                          *)
LEMMA MretKeeps ==
    ASSUME IInv, Mret, UNCHANGED <<swvars, history>>, Place \in {"back", "mret"},
           Point(G, S, sp.n, mepc, reg.ra, mstatus.MPIE)
    PROVE  IInv'
<1> USE DEF IInv
<1>1. /\ pc' = mepc /\ mstatus' = [MIE |-> mstatus.MPIE, MPIE |-> TRUE]
      /\ UNCHANGED <<currpid, prstkptr, stack, sp, reg, at, masked, due>>
      /\ UNCHANGED <<timer, timermatch, mip, mie, mepc, mcause>>
  BY DEF Mret, swvars, history
<1>2. sp.n = Len(S) /\ sp.of = currpid
  BY Where
<1>3. Stacked' /\ G' = G /\ S' = S
  BY <1>1, Softly
<1>4. mstatus' \in Status /\ mstatus'.MIE = mstatus.MPIE /\ mstatus'.MPIE
  BY <1>1, StatusFacts DEF Types, TypeOK
<1>5. Types'
  BY <1>1, <1>4 DEF Types, TypeOK, timer, timermatch
<1>6. InCall'
  BY <1>1, <1>3, <1>4 DEF InCall, On
<1>7. Place' \in {"user", "yield", "resume", "resched", "restore", "resumed"}
  BY <1>1, PointPlaces DEF G, Place
<1>8. Running'
  BY <1>1, <1>2, <1>3, <1>6, <1>7 DEF Running
<1>9. Enables'
  BY <1>4 DEF Enables
<1> QED
  BY <1>3, <1>5, <1>8, <1>9

LEMMA BackKeeps == ASSUME IInv, Back PROVE IInv'
<1>1. Place = "back" /\ Mret /\ UNCHANGED <<swvars, history>>
  BY DEF Back
<1>2. Point(G, S, sp.n, mepc, reg.ra, mstatus.MPIE)
  BY <1>1, Where DEF IInv, InTrap
<1> QED
  BY <1>1, <1>2, MretKeeps

LEMMA LaunchedKeeps == ASSUME IInv, Launched PROVE IInv'
<1>1. Place = "mret" /\ Mret /\ UNCHANGED <<swvars, history>>
  BY DEF Launched
<1>2. Point(G, S, sp.n, mepc, reg.ra, TRUE)
  BY <1>1, Where DEF IInv, InLaunch
<1>3. mstatus.MPIE = TRUE
  BY <1>1, InKernel, StatusFacts DEF IInv, Types, TypeOK
<1> QED
  BY <1>1, <1>2, <1>3, MretKeeps

--------------------------------------------------------------------------------
(* Time.                                                                   *)

(* A batch ends: time passes, and with interrupts on it may be in the trap *)
(* that the next one starts.                                               *)
LEMMA Passes ==
    ASSUME IInv, Elapse
    PROVE  /\ timerl' \in Word /\ timerh' \in Word /\ mip' \subseteq {Timer}
           /\ UNCHANGED <<timermatch, mie, swvars, history>>
           /\ \/ UNCHANGED <<mcause, mepc, mstatus, pc>>
              \/ /\ On /\ Expired(timerh', timerl')
                 /\ TrapTo(At("trap"), Timer, pc)
<1> DEFINE L(elapsed) == (timerl + elapsed) % HALF
           H(elapsed) == IF L(elapsed) < timerl THEN (timerh + 1) % HALF ELSE timerh
           taken(elapsed) == On /\ Timer \in Pending(H(elapsed), L(elapsed)) \cap mie
<1>1. PICK elapsed \in Elapsed :
         /\ timerl' = L(elapsed) /\ timerh' = H(elapsed)
         /\ mip' = Pending(H(elapsed), L(elapsed))
         /\ IF taken(elapsed) THEN TrapTo(At("trap"), Timer, pc)
                              ELSE UNCHANGED <<mcause, mepc, mstatus, pc>>
         /\ UNCHANGED <<timermatch, mie>>
  BY DEF Elapse, Batch, On
<1>2. timerl \in Nat /\ timerh \in Word /\ timerh \in Nat /\ elapsed \in Nat
  BY Sizes DEF IInv, Types, TypeOK, timer, Word
<1>3. timerl' \in Word /\ (timerh + 1) % HALF \in Word
  BY <1>1, <1>2, Halves
<1>4. timerh' \in Word
  BY <1>1, <1>2, <1>3
<1>5. mip' \subseteq {Timer}
  BY <1>1 DEF Pending, IInv, Types, TypeOK
<1>6. taken(elapsed) => On /\ Expired(timerh', timerl')
  BY <1>1 DEF Pending
<1> QED
  BY <1>1, <1>3, <1>4, <1>5, <1>6 DEF Elapse

(* Interrupts are on outside of traps only, but for the two times that the *)
(* kernel does not survive.                                                *)
LEMMA Interruptible ==
    ASSUME IInv, On, Fatal = {}
    PROVE  InCall /\ Place \notin {"save", "load"}
<1>1. InCall \/ InHandlerCall \/ InSwitch
  BY DEF IInv, Running, InTrap, InHandler, InLaunch
<1>2. Place \notin {"save", "load"}
  BY DEF Fatal
<1>3. ~InHandlerCall
  <2> SUFFICES ASSUME InHandlerCall PROVE FALSE
    OBVIOUS
  <2>1. Place = "restore" /\ ~Top.status.MIE
    BY DEF InHandlerCall, HandlerCall, Top, S
  <2> QED
    BY <2>1 DEF Fatal
<1> QED
  BY <1>1, <1>2, <1>3 DEF InSwitch

LEMMA ElapseKeeps == ASSUME Beyond = {}, IInv, Elapse PROVE IInv'
<1> USE DEF IInv
<1>1. /\ timerl' \in Word /\ timerh' \in Word /\ mip' \subseteq {Timer}
      /\ UNCHANGED <<timermatch, mie, currpid, prstkptr, stack, sp, reg, at, masked, due>>
  BY Passes DEF swvars, history
<1>2. Stacked' /\ G' = G /\ S' = S
  BY <1>1, Softly
<1>3. CASE UNCHANGED <<mcause, mepc, mstatus, pc>>
  <2>1. Types'
    BY <1>1, <1>3 DEF Types, TypeOK, timer, timermatch
  <2>2. /\ InCall' = InCall /\ InTrap' = InTrap /\ InHandler' = InHandler
        /\ InHandlerCall' = InHandlerCall /\ InLaunch' = InLaunch
    BY <1>1, <1>2, <1>3 DEF InCall, InTrap, InHandler, InHandlerCall, InLaunch, On, Place
  <2>3. InSwitch' = InSwitch
    BY <1>1, <1>2, <1>3 DEF InSwitch, On, Place
  <2>4. Running'
    BY <1>1, <1>2, <1>3, <2>2, <2>3 DEF Running, Place
  <2>5. Enables'
    BY <1>1, <1>3 DEF Enables, InUser, Place
  <2> QED
    BY <1>2, <2>1, <2>4, <2>5
<1>4. CASE On /\ TrapTo(At("trap"), Timer, pc)
  <2>1. /\ pc' = At("trap") /\ mepc' = pc /\ mcause' = Timer
        /\ mstatus' = [MIE |-> FALSE, MPIE |-> On]
    BY <1>4 DEF TrapTo, On
  <2>2. CASE pc' = pc
    \* not with interrupts on
    <3>1. Place = "trap"
      BY <2>1, <2>2, Labels DEF Place
    <3>2. ~On
      BY <3>1, Where DEF InTrap
    <3> QED
      BY <1>4, <3>2
  <2>3. CASE pc' # pc
    <3>1. Fatal = {}
      BY <2>3 DEF Elapse
    <3>2. InCall /\ Place \notin {"save", "load"} /\ sp.of = currpid /\ sp.n = Len(S)
      BY <1>4, <3>1, Interruptible, Where
    <3>3. On = TRUE
      BY <1>4, StatusFacts DEF Types, TypeOK, On
    <3>4. mstatus' \in Status /\ ~On' /\ mstatus'.MPIE = TRUE
      BY <2>1, <3>3, StatusFacts DEF On
    <3>5. pc' \in Label /\ Place' = "trap"
      BY <2>1, Labels DEF Place, Places
    <3>6. pc \in Label /\ mcause' \in {0, Timer, EnvironmentCall} /\ mcause' # EnvironmentCall
      BY <2>1 DEF Types, TypeOK, Timer, EnvironmentCall
    <3>7. Types'
      BY <1>1, <2>1, <3>4, <3>5, <3>6 DEF Types, TypeOK, timer, timermatch
    <3>8. Point(G', S', sp'.n, mepc', reg'.ra, mstatus'.MPIE)
      BY <1>1, <1>2, <2>1, <3>2, <3>3, <3>4 DEF InCall
    <3>9. InTrap'
      BY <2>1, <3>4, <3>5, <3>6, <3>8 DEF InTrap
    <3>10. Running'
      BY <1>1, <1>2, <3>2, <3>5, <3>9 DEF Running
    <3>11. Enables'
      BY <3>5 DEF Enables
    <3> QED
      BY <1>2, <3>7, <3>10, <3>11
  <2> QED
    BY <2>2, <2>3
<1> QED
  BY <1>3, <1>4, Passes

--------------------------------------------------------------------------------
(* The specification keeps the invariant.                                  *)

LEMMA InitFacts ==
    ASSUME Init
    PROVE  IInv
<1> USE Sizes
<1>1. /\ pc = User(0) /\ pc \in Label /\ Place = "user" /\ mepc \in Label
      /\ Place \notin {"save", "load"}
  BY Labels DEF Init, HartInit, Place
<1>2. Interval % HALF \in Word /\ Interval \div HALF \in Word /\ 0 \in Word
  BY Halves, Upper DEF Word
<1>3. mstatus \in Status /\ mstatus.MIE
  BY StatusFacts DEF Init
<1>4. NoReg \in Regs /\ reg = NoReg
  BY Labels DEF Init, NoReg, Regs, Word, Places
<1>5. NewContext \in Frames /\ NewContext.kind = "switch" /\ NewContext.ra = User(0)
      /\ NewContext.status.MIE /\ NewContext.status.MPIE
  BY <1>1, FrameFacts, StatusFacts DEF NewContext, Init
<1>6. /\ stack \in [Procs -> Seq(Frames)]
      /\ stack[Null] = <<>> /\ \A p \in Procs : p # Null => stack[p] = <<NewContext>>
  BY <1>5 DEF Init
<1>7. /\ prstkptr \in [Procs -> [of : Procs, n : 0 .. Depth]]
      /\ \A p \in Procs : prstkptr[p].of = p
      /\ \A p \in Procs : p # Null => prstkptr[p].n = 1
  BY DEF Init
<1>8. sp \in [of : Procs, n : 0 .. Depth] /\ sp.of = Null /\ sp.n = 0 /\ currpid = Null
  BY DEF Init
<1>9. at \in [Procs -> 0 .. Length - 1] /\ \A p \in Procs : at[p] = 0 /\ p \notin masked
  BY DEF Init
<1>10. Types
  <2>1. reg.lo \in Word /\ reg.hi \in Word
    BY <1>4 DEF Regs
  <2>2. mcause \in {0, Timer, EnvironmentCall} /\ due \in Nat /\ mip = {} /\ mie = {Timer}
    BY DEF Init, HartInit
  <2>3. timer \in Word \X Word /\ timermatch \in Word \X Word
    BY <1>2 DEF timer, timermatch, Init, HartInit
  <2> QED
    BY <1>1, <1>3, <1>4, <1>6, <1>7, <1>8, <1>9, <2>1, <2>2, <2>3 DEF Types, TypeOK, Init
<1>11. ASSUME NEW p \in Procs, p # Null
       PROVE  Saved(Prog(p), stack[p], prstkptr[p].n)
  <2>1. stack[p] = <<NewContext>> /\ prstkptr[p].n = 1
    BY <1>6, <1>7, <1>11
  <2>2. Prog(p).next = User(0) /\ Prog(p).on
    BY <1>9 DEF Prog
  <2>3. Len(<<NewContext>>) = 1 /\ <<NewContext>>[1] = NewContext
    OBVIOUS
  <2> QED
    BY <1>5, <2>1, <2>2, <2>3 DEF Saved
<1>12. Stacked
  BY <1>7, <1>8, <1>11 DEF Stacked
<1>13. G.next = User(0) /\ G.on /\ S = <<>>
  BY <1>6, <1>8, <1>9 DEF G, S, Prog
<1>14. InCall
  BY <1>1, <1>3, <1>8, <1>13 DEF InCall, Point, On
<1>15. Running
  <2>1. sp.n = Len(S)
    BY <1>8, <1>13
  <2> QED
    BY <1>1, <1>8, <1>14, <2>1 DEF Running
<1>16. Enables
  BY <1>1, <1>8 DEF Enables, InUser
<1> QED
  BY <1>10, <1>12, <1>15, <1>16 DEF IInv

LEMMA StutterKeeps == ASSUME IInv, UNCHANGED vars PROVE IInv'
<1>1. /\ UNCHANGED <<currpid, prstkptr, stack, sp, reg, at, masked, due>>
      /\ UNCHANGED <<timer, timermatch, mip, mie, mstatus, mepc, mcause, pc>>
  BY DEF vars, swvars, history, csrs
<1>2. Stacked' /\ G' = G /\ S' = S
  BY <1>1, Softly DEF IInv
<1>3. Types'
  BY <1>1 DEF IInv, Types, TypeOK, timer, timermatch
<1>4. /\ InCall' = InCall /\ InTrap' = InTrap /\ InHandler' = InHandler
      /\ InHandlerCall' = InHandlerCall /\ InLaunch' = InLaunch
  BY <1>1, <1>2 DEF InCall, InTrap, InHandler, InHandlerCall, InLaunch, On, Place
<1>5. InSwitch' = InSwitch
  BY <1>1, <1>2 DEF InSwitch, On, Place
<1>6. Running'
  BY <1>1, <1>2, <1>4, <1>5 DEF IInv, Running, Place
<1>7. Enables'
  BY <1>1 DEF IInv, Enables, InUser, Place
<1> QED
  BY <1>2, <1>3, <1>6, <1>7 DEF IInv

LEMMA StepKeeps == ASSUME Beyond = {}, IInv, Next PROVE IInv'
<1>1. CallYield => CallsOf("yield")
  BY DEF CallYield
<1>2. CallResume => CallsOf("resume") /\ On
  BY DEF CallResume, On
<1>3. CASE CallYield
  BY <1>1, <1>3, CallsKeep
<1>4. CASE CallResume
  BY <1>2, <1>4, CallsKeep
<1>5. ASSUME Instruction, ~CallYield, ~CallResume PROVE IInv'
  BY <1>5, ComputeKeeps, DisableKeeps, RestoreKeeps, SystemCallKeeps, YieldKeeps, ResumeKeeps,
     ReschedStaysKeeps, ReschedSwitchesKeeps, SaveKeeps, LoadKeeps, LaunchKeeps,
     YieldRestoresKeeps, ResumeReturnsKeeps, EntryKeeps, ClkLoKeeps, ClkHiKeeps, ClkSetLoKeeps,
     ClkSetHiKeeps, ClkRestKeeps, ExitMepcKeeps, ExitStatusKeeps, BackKeeps, LaunchedKeeps
     DEF Instruction
<1> QED
  BY <1>3, <1>4, <1>5, ElapseKeeps DEF Next

(* Between any two instructions of a kernel that is not interrupted in the *)
(* two places of Beyond, every stack has one of the shapes of the          *)
(* invariant.                                                              *)
THEOREM StacksShaped == ASSUME Beyond = {} PROVE Spec => []IInv
<1>1. Init => IInv
  BY InitFacts
<1>2. IInv /\ [Next]_vars => IInv'
  BY StepKeeps, StutterKeeps
<1> QED
  BY <1>1, <1>2, PTL DEF Spec

(* However traps, yields and switches interleave, each process runs on its *)
(* own stack, ctxsw() finds there what it can load, and a stack never has  *)
(* more than four frames.                                                  *)
THEOREM StackOwned == ASSUME Beyond = {} PROVE Spec => []OwnStack
<1>1. IInv => OwnStack
  <2> SUFFICES ASSUME IInv PROVE OwnStack
    OBVIOUS
  <2>1. TypeOK /\ sp.of = IF Place \in {"save", "load"} THEN reg.old ELSE currpid
    BY DEF IInv, Types, Running
  <2>2. ASSUME NEW p \in Procs
        PROVE  /\ prstkptr[p].of = p
               /\ p # sp.of => stack[p][prstkptr[p].n].kind = "switch"
    BY DEF IInv, Stacked, Saved
  <2>3. sp.n <= 4
    <3>1. sp.n \in Nat
      BY Where DEF IInv
    <3>2. InCall \/ InTrap => sp.n <= 4
      <4>1. InCall \/ InTrap => sp.n <= 1
        BY <3>1, Deep DEF InCall, InTrap
      <4> QED
        BY <3>1, <4>1
    <3>3. InHandler \/ InHandlerCall => sp.n <= 4
      <4>1. InHandler \/ InHandlerCall => sp.n \in {1, 2, 3}
        BY <3>1, Deep DEF InHandler, InHandlerCall
      <4>2. sp.n \in {1, 2, 3} => sp.n <= 4
        OBVIOUS
      <4> QED
        BY <4>1, <4>2
    <3>4. InLaunch => sp.n <= 4
      <4>1. InLaunch => sp.n <= 1
        BY <3>1, Deep DEF InLaunch
      <4> QED
        BY <3>1, <4>1
    <3>5. ASSUME InSwitch PROVE sp.n <= 4
      <4>1. CASE Leaves(G, S, sp.n, reg.ra, On)
        <5>1. sp.n \in {1, 2, 3}
          BY <3>1, <4>1, Deep
        <5> QED
          BY <5>1
      <4>2. CASE Saved(G, S, sp.n)
        <5>1. sp.n - 1 \in Nat
          BY <3>1, <4>2 DEF Saved
        <5>2. Leaves(G, S, sp.n - 1, S[sp.n].ra, S[sp.n].status.MIE) \/ sp.n = 1
          BY <4>2 DEF Saved
        <5>3. sp.n - 1 \in {1, 2, 3} \/ sp.n = 1
          BY <5>1, <5>2, Deep
        <5>4. CASE sp.n - 1 \in {1, 2, 3}
          BY <3>1, <5>4
        <5> QED
          BY <3>1, <5>3, <5>4
      <4> QED
        BY <3>5, <4>1, <4>2 DEF InSwitch
    <3> QED
      BY <3>2, <3>3, <3>4, <3>5 DEF IInv, Running
  <2> QED
    BY <2>1, <2>2, <2>3 DEF OwnStack
<1> QED
  BY <1>1, StacksShaped, PTL

(* A program is always at the instruction it would be at had nothing       *)
(* interrupted it, with interrupts as it has set them and its stack empty. *)
THEOREM ProgramsUndisturbed == ASSUME Beyond = {} PROVE Spec => []Undisturbed
<1>1. IInv => Undisturbed
  <2> SUFFICES ASSUME IInv, InUser PROVE /\ pc = User(at[currpid])
                                         /\ mstatus.MIE <=> currpid \notin masked
                                         /\ sp = [of |-> currpid, n |-> 0]
    BY DEF Undisturbed
  <2>1. sp.n = 0 /\ pc = G.next /\ (On <=> G.on) /\ sp.of = currpid
    BY Where DEF IInv, InUser
  <2>2. sp \in [of : Procs, n : 0 .. Depth]
    BY DEF IInv, Types, TypeOK
  <2> QED
    BY <2>1, <2>2 DEF G, Prog, On
<1> QED
  BY <1>1, StacksShaped, PTL

--------------------------------------------------------------------------------
(* Ticks.                                                                  *)

HandlerPlaces == {"trap", "lo", "hi", "setlo", "sethi"}

(* A step of Ticker.                                                       *)
Follows == Ticks!Next \/ (Time' = Time /\ due' = due /\ (Handling' <=> Handling))

LEMMA Clock ==
    ASSUME IInv
    PROVE  /\ timerl \in Word /\ timerh \in Word /\ timerh \in Nat /\ timerl \in Nat
           /\ timermatchl \in Word /\ timermatchh \in Word
           /\ timermatchh \in Nat /\ timermatchl \in Nat
           /\ reg.lo \in Word /\ reg.lo \in Nat /\ reg.hi \in Word
           /\ due \in Nat /\ Time \in Nat /\ Match \in Nat
<1>1. /\ timerl \in Word /\ timerh \in Word /\ timermatchl \in Word /\ timermatchh \in Word
      /\ reg.lo \in Word /\ reg.hi \in Word /\ due \in Nat
  BY DEF IInv, Types, TypeOK, timer, timermatch
<1>2. Word \subseteq Nat
  BY Sizes DEF Word
<1>3. timerh \in Nat /\ timermatchh \in Nat
  BY <1>1, <1>2
<1>4. timerh * HALF + timerl \in Nat /\ timermatchh * HALF + timermatchl \in Nat
  BY <1>1, <1>3, Products
<1> QED
  BY <1>1, <1>2, <1>3, <1>4 DEF Time, Match

(* Places outside of the first part of the handler are followed by others, *)
(* or by the trap of a system call.                                        *)
LEMMA Elsewhere ==
    ASSUME IInv, Instruction, Place \notin HandlerPlaces
    PROVE  /\ Place' \notin HandlerPlaces \/ mcause' = EnvironmentCall
           /\ Place' \in HandlerPlaces => Place' = "trap"
           /\ UNCHANGED <<timer, timermatch, due>>
<1> USE DEF IInv
<1>1. UNCHANGED <<timer, timermatch, due>>
  BY DEF Instruction, HandlerPlaces, Place, InUser, Compute, Disable, Restore, SystemCall, Ecall, CallYield,
     CallResume, CallsOf, Yield, Resume, ReschedStays, ReschedSwitches, CtxswSave, CtxswLoad,
     CtxswLaunch, YieldRestores, ResumeReturns, ReturnTo, TrapEntry, ClkLo, ClkHi, ClkSetLo,
     ClkSetHi, ClkRest, ExitMepc, ExitStatus, Back, Launched, Plain, Mret, WriteMepc,
     WriteMstatus, history
<1>2. CASE SystemCall
  BY <1>1, <1>2, Labels DEF SystemCall, Ecall, TrapTo, Place
<1>3. CASE \/ Compute \/ Disable \/ Restore \/ CallYield \/ CallResume \/ Yield \/ Resume
           \/ ReschedSwitches \/ CtxswSave \/ CtxswLaunch \/ ClkRest \/ ExitMepc \/ ExitStatus
  <2>1. Place' \in {"user", "yield", "resume", "resched", "save", "load", "mret", "exit", "status",
                    "back"}
    <3>1. CASE Compute \/ Disable \/ Restore
      BY <3>1, Labels DEF Place, Goto, Compute, Disable, Restore
    <3>2. CASE CallYield \/ CallResume
      BY <3>2, Labels DEF Place, Goto, CallYield, CallResume, CallsOf
    <3>3. CASE Yield \/ Resume \/ ReschedSwitches
      BY <3>3, Labels DEF Place, Goto, Yield, Resume, ReschedSwitches
    <3>4. CASE CtxswSave \/ CtxswLaunch
      BY <3>4, Labels DEF Place, Goto, CtxswSave, CtxswLaunch
    <3>5. CASE ClkRest \/ ExitMepc \/ ExitStatus
      BY <3>5, Labels DEF Place, Goto, ClkRest, ExitMepc, ExitStatus
    <3> QED
      BY <1>3, <3>1, <3>2, <3>3, <3>4, <3>5
  <2> QED
    BY <1>1, <2>1 DEF HandlerPlaces
<1>4. CASE ReschedStays
  <2>1. Leaves(G, S, sp.n, reg.ra, On) /\ pc' = reg.ra
    BY <1>4, Where DEF ReschedStays, Goto
  <2>2. Place' \in {"restore", "resumed"}
    BY <2>1, Labels DEF Leaves, Place
  <2> QED
    BY <1>1, <2>2 DEF HandlerPlaces
<1>5. CASE CtxswLoad
  <2> DEFINE new == prstkptr[reg.new]
             frame == stack[new.of][new.n]
  <2>1. pc' = At("launch") \/ (~frame.status.MIE /\ pc' = frame.ra)
    BY <1>5 DEF CtxswLoad, Goto
  <2>2. ~frame.status.MIE => frame.ra \in {At("restore"), At("resumed")}
    <3>1. InSwitch /\ Place = "load" /\ currpid \in Procs /\ sp.of \in Procs
      BY <1>5, Where DEF CtxswLoad, Types, TypeOK
    <3>2. reg.new = currpid /\ sp = prstkptr[sp.of] /\ Saved(G, S, sp.n)
      BY <3>1 DEF InSwitch
    <3>3. /\ prstkptr[currpid].of = currpid
          /\ Saved(Prog(currpid), stack[currpid], prstkptr[currpid].n)
      BY <3>1, <3>2 DEF Stacked, G, S
    <3>4. Saved(Prog(currpid), stack[new.of], new.n)
      BY <3>2, <3>3
    <3> QED
      BY <3>4 DEF Saved, Leaves
  <2>3. Place' \in {"launch", "restore", "resumed"}
    BY <2>1, <2>2, Labels DEF Place
  <2> QED
    BY <1>1, <2>3 DEF HandlerPlaces
<1>6. CASE YieldRestores \/ ResumeReturns
  <2>1. pc' = S[sp.n].ra
    BY <1>6 DEF YieldRestores, ResumeReturns, ReturnTo, Goto, Top, S
  <2>2. S[sp.n].ra = G.next \/ S[sp.n].ra = At("exit")
    BY <1>6, Where DEF YieldRestores, ResumeReturns, UserCall, HandlerCall
  <2>3. Place' \in {"user", "exit"}
    BY <2>1, <2>2, Labels DEF Place, G, Prog
  <2> QED
    BY <1>1, <2>3 DEF HandlerPlaces
<1>7. CASE Back \/ Launched
  <2>1. pc' = mepc /\ ((InTrap /\ Place = "back") \/ (InLaunch /\ Place = "mret"))
    BY <1>7, Where DEF Back, Launched, Mret
  <2>2. \E on : Point(G, S, sp.n, mepc, reg.ra, on)
    BY <2>1 DEF InTrap, InLaunch
  <2>3. Place' \in {"user", "yield", "resume", "resched", "restore", "resumed"}
    BY <2>1, <2>2, PointPlaces DEF G, Place
  <2> QED
    BY <1>1, <2>3 DEF HandlerPlaces
<1>8. ~(TrapEntry \/ ClkLo \/ ClkHi \/ ClkSetLo \/ ClkSetHi)
  BY DEF TrapEntry, ClkLo, ClkHi, ClkSetLo, ClkSetHi, HandlerPlaces
<1> QED
  BY <1>2, <1>3, <1>4, <1>5, <1>6, <1>7, <1>8 DEF Instruction

LEMMA ElsewhereTicks ==
    ASSUME IInv, Ticking, Instruction, Place \notin HandlerPlaces
    PROVE  Ticking' /\ Follows
<1>1. /\ Place' \notin HandlerPlaces \/ mcause' = EnvironmentCall
      /\ Place' \in HandlerPlaces => Place' = "trap"
      /\ UNCHANGED <<timer, timermatch, due>>
  BY Elsewhere
<1>2. Time' = Time /\ Match' = Match /\ due' = due
  BY <1>1 DEF Time, Match, timer, timermatch
<1>3. ~Handling /\ ~Handling'
  BY <1>1 DEF Handling, HandlerPlaces, Timer, EnvironmentCall
<1>4. Place' \notin {"lo", "hi", "setlo", "sethi"}
  BY <1>1 DEF HandlerPlaces
<1>5. Ticking'
  BY <1>2, <1>3, <1>4 DEF Ticking
<1> QED
  BY <1>2, <1>3, <1>5 DEF Follows

LEMMA EntryTicks == ASSUME IInv, Ticking, TrapEntry PROVE Ticking' /\ Follows
<1>1. /\ pc' = (IF mcause = Timer THEN At("lo") ELSE At("exit")) /\ Place = "trap"
      /\ UNCHANGED <<timerl, timerh, timermatchl, timermatchh, mcause, due>>
  BY DEF TrapEntry, Goto, WriteMip, history, timer, timermatch
<1>2. Time' = Time /\ Match' = Match /\ due' = due
  BY <1>1 DEF Time, Match
<1>3. Place' = (IF mcause = Timer THEN "lo" ELSE "exit")
  BY <1>1, Labels DEF Place
<1>4. Handling' = Handling
  BY <1>1, <1>3 DEF Handling
<1>5. Ticking'
  BY <1>1, <1>2, <1>3, <1>4 DEF Ticking
<1> QED
  BY <1>2, <1>4, <1>5 DEF Follows

LEMMA ClkLoTicks == ASSUME IInv, Ticking, ClkLo PROVE Ticking' /\ Follows
<1>1. /\ pc' = At("hi") /\ Place = "lo" /\ reg' = [reg EXCEPT !.lo = timerl]
      /\ UNCHANGED <<timerl, timerh, timermatchl, timermatchh, mcause, due>>
  BY DEF ClkLo, Goto, Plain, csrs, history, timer, timermatch
<1>2. Time' = Time /\ Match' = Match /\ due' = due
  BY <1>1 DEF Time, Match
<1>3. Place' = "hi" /\ mcause = Timer /\ reg'.lo = timerl
  BY <1>1, Labels DEF Place, Ticking, IInv, Types, Regs
<1>4. Handling /\ Handling'
  BY <1>1, <1>3 DEF Handling
<1>5. Time > due
  BY <1>4 DEF Ticking
<1>6. \E h \in 0 .. timerh' : due' < h * HALF + reg'.lo /\ h * HALF + reg'.lo <= Time'
  <2>1. timerh \in 0 .. timerh /\ Time \in Nat /\ due \in Nat
    BY Clock
  <2>2. timerh * HALF + reg'.lo = Time
    BY <1>3 DEF Time
  <2>3. due < timerh * HALF + reg'.lo /\ timerh * HALF + reg'.lo <= Time
    BY <1>5, <2>1, <2>2
  <2> QED
    BY <1>1, <1>2, <2>1, <2>3
<1>7. Ticking'
  BY <1>1, <1>2, <1>3, <1>4, <1>6 DEF Ticking
<1> QED
  BY <1>2, <1>4, <1>7 DEF Follows

(* What clkupdate() asks for is Interval after a moment between when the   *)
(* tick was due and now, or HALF later than that: the low word that it has *)
(* loaded may have come round before it loads the high one.                *)
LEMMA Asked ==
    ASSUME IInv, Ticking, Place = "hi"
    PROVE  \E asked \in due + 1 .. Time, late \in {0, HALF} :
              timerh * HALF + reg.lo + Interval = Wanted(asked, late)
<1>1. PICK h \in 0 .. timerh : due < h * HALF + reg.lo /\ h * HALF + reg.lo <= Time
  BY DEF Ticking
<1>2. /\ timerl \in Word /\ timerl \in Nat /\ timerh \in Nat /\ h \in Nat /\ reg.lo \in Word
      /\ reg.lo \in Nat /\ due \in Nat /\ Time \in Nat /\ HALF \in Nat /\ HALF > 0
      /\ Interval \in Nat
  BY Clock, Sizes
<1> DEFINE v == timerh * HALF + reg.lo
<1>3. v \in Nat /\ h * HALF + reg.lo \in Nat /\ timerh * HALF \in Nat /\ h * HALF \in Nat
  BY <1>2, Products
<1>4. CASE v <= Time
  <2>1. h = timerh \/ h < timerh
    BY <1>2
  <2>2. h * HALF + reg.lo <= v
    <3>1. CASE h = timerh
      BY <1>3, <3>1
    <3>2. CASE h < timerh
      <4>1. h * HALF + reg.lo < timerh * HALF + reg.lo
        BY <1>2, <3>2, Products
      <4> QED
        BY <1>3, <4>1
    <3> QED
      BY <2>1, <3>1, <3>2
  <2> HIDE DEF v
  <2>3. v \in due + 1 .. Time
    BY <1>1, <1>2, <1>3, <1>4, <2>2
  <2>4. v + Interval = Wanted(v, 0)
    BY <1>2, <1>3 DEF Wanted
  <2> QED
    BY <2>3, <2>4 DEF v
<1>5. CASE v > Time
  <2>1. h < timerh
    <3>1. h # timerh
      BY <1>1, <1>2, <1>3, <1>5
    <3> QED
      BY <1>2, <3>1
  <2>2. h * HALF + HALF <= timerh * HALF
    BY <1>2, <2>1, Products
  <2>3. Time = timerh * HALF + timerl
    BY DEF Time
  <2>4. reg.lo < HALF /\ timerl >= 0
    BY <1>2 DEF Word
  <2> DEFINE a == v - HALF
  <2>5. h * HALF + reg.lo <= a
    BY <1>2, <1>3, <2>2
  <2>6. a <= Time
    BY <1>2, <1>3, <2>3, <2>4
  <2>7. a \in Int /\ v = a + HALF
    BY <1>2, <1>3
  <2> HIDE DEF a, v
  <2>8. a \in due + 1 .. Time
    BY <1>1, <1>2, <1>3, <2>5, <2>6, <2>7
  <2>9. v + Interval = Wanted(a, HALF)
    BY <1>2, <2>7 DEF Wanted
  <2> QED
    BY <2>8, <2>9 DEF v
<1> QED
  BY <1>2, <1>3, <1>4, <1>5

LEMMA ClkHiTicks == ASSUME IInv, Ticking, ClkHi PROVE Ticking' /\ Follows
<1> DEFINE then == timerh * HALF + reg.lo + Interval
<1>1. /\ pc' = At("setlo") /\ Place = "hi"
      /\ reg' = [reg EXCEPT !.lo = then % HALF, !.hi = (then \div HALF) % HALF]
      /\ UNCHANGED <<timerl, timerh, timermatchl, timermatchh, mcause, due>>
  BY DEF ClkHi, Goto, Plain, csrs, history, timer, timermatch
<1>2. Time' = Time /\ Match' = Match /\ due' = due
  BY <1>1 DEF Time, Match
<1>3. /\ Place' = "setlo" /\ mcause = Timer
      /\ reg'.lo = then % HALF /\ reg'.hi = (then \div HALF) % HALF
  BY <1>1, Labels DEF Place, Ticking, IInv, Types, Regs
<1>4. Handling /\ Handling'
  BY <1>1, <1>3 DEF Handling
<1>5. PICK asked \in due + 1 .. Time, late \in {0, HALF} : then = Wanted(asked, late)
  BY <1>1, Asked
<1> HIDE DEF then
<1>6. then \in Nat /\ then < HALF * HALF
  <2>1. due \in Nat /\ Time \in Nat /\ Interval \in Nat /\ HALF \in Nat /\ HALF * HALF \in Nat
    BY Clock, Sizes
  <2>2. Time + HALF + Interval < HALF * HALF
    BY DEF Ticking
  <2>3. asked \in Nat /\ asked <= Time /\ late \in Nat /\ late <= HALF
    BY <2>1
  <2>4. then = asked + Interval + late
    BY <1>5 DEF Wanted
  <2> QED
    BY <2>1, <2>2, <2>3, <2>4
<1>7. reg'.hi * HALF + reg'.lo = then
  <2>1. (then \div HALF) % HALF = then \div HALF /\ then = (then \div HALF) * HALF + (then % HALF)
    BY <1>6, Upper, Halves
  <2> QED
    BY <1>3, <2>1
<1>8. \E a \in due' + 1 .. Time', l \in {0, HALF} : reg'.hi * HALF + reg'.lo = Wanted(a, l)
  BY <1>2, <1>5, <1>7
<1>9. Ticking'
  BY <1>1, <1>2, <1>3, <1>4, <1>8 DEF Ticking, Wanted
<1> QED
  BY <1>2, <1>4, <1>9 DEF Follows

LEMMA ClkSetLoTicks == ASSUME IInv, Ticking, ClkSetLo PROVE Ticking' /\ Follows
<1>1. /\ pc' = At("sethi") /\ Place = "setlo" /\ timermatchl' = reg.lo
      /\ UNCHANGED <<timerl, timerh, mcause, due, reg>>
  BY DEF ClkSetLo, StoreMatchl, Goto, csrs, swvars, history, timer
<1>2. Time' = Time /\ due' = due
  BY <1>1 DEF Time
<1>3. Place' = "sethi" /\ mcause = Timer
  BY <1>1, Labels DEF Place, Ticking
<1>4. Handling /\ Handling'
  BY <1>1, <1>3 DEF Handling
<1>5. Ticking'
  BY <1>1, <1>2, <1>3, <1>4 DEF Ticking, Wanted
<1> QED
  BY <1>2, <1>4, <1>5 DEF Follows

LEMMA ClkSetHiTicks == ASSUME IInv, Ticking, ClkSetHi PROVE Ticking' /\ Follows
<1>1. /\ pc' = At("clock") /\ Place = "sethi" /\ timermatchh' = reg.hi /\ due' = Match'
      /\ UNCHANGED <<timerl, timerh, timermatchl, mcause>>
  BY DEF ClkSetHi, StoreMatchh, Goto, csrs, timer
<1>2. Time' = Time
  BY <1>1 DEF Time
<1>3. Place' = "clock" /\ mcause = Timer /\ timermatchl = reg.lo
  BY <1>1, Labels DEF Place, Ticking
<1>4. Handling /\ ~Handling'
  BY <1>1, <1>3 DEF Handling
<1>5. Ticking'
  BY <1>1, <1>2, <1>3, <1>4 DEF Ticking
<1>6. \E asked \in due + 1 .. Time, late \in {0, HALF} : due' = asked + Interval + late
  <2>1. due' = reg.hi * HALF + reg.lo
    BY <1>1, <1>3 DEF Match
  <2> QED
    BY <1>1, <2>1 DEF Ticking, Wanted
<1>7. Ticks!Arm
  BY <1>2, <1>4, <1>6 DEF Ticks!Arm
<1> QED
  BY <1>5, <1>7 DEF Follows, Ticks!Next

LEMMA ElapseTicks == ASSUME IInv, Ticking, Elapse, IInv' PROVE Ticking' /\ Follows
<1>1. /\ timerl' \in Word /\ timerh' \in Word
      /\ UNCHANGED <<timermatchl, timermatchh, reg, due>>
      /\ Time' >= Time /\ Time' + HALF + Interval < HALF * HALF
  BY Passes DEF Elapse, swvars, history, timermatch
<1>2. Match' = Match
  BY <1>1 DEF Match
<1>3. /\ Time \in Nat /\ Match \in Nat /\ due \in Nat
      /\ timerh' \in Nat /\ timerl' \in Nat /\ Time' \in Nat
  <2>1. timerh' \in Nat /\ timerl' \in Nat
    BY <1>1, Sizes DEF Word
  <2>2. timerh' * HALF + timerl' \in Nat
    BY <1>1, <2>1, Products
  <2> QED
    BY <2>1, <2>2, Clock DEF Time
<1>4. timerh \in Nat /\ timerh' \in Nat /\ timerh' >= timerh
  <2>1. timerh \in Nat /\ timerh' \in Nat
    BY Clock, <1>3
  <2>2. ASSUME timerh' < timerh PROVE FALSE
    <3>1. timerh' * HALF + timerl' < timerh * HALF + timerl
      BY <1>1, <2>1, <2>2, Clock, Products
    <3>2. Time' < Time
      BY <3>1 DEF Time
    <3> QED
      BY <1>1, <1>3, <3>2
  <2> QED
    BY <2>1, <2>2
<1>5. CASE UNCHANGED <<mcause, mepc, mstatus, pc>>
  <2>1. Place' = Place /\ mcause' = mcause /\ Handling' = Handling
    BY <1>5 DEF Place, Handling
  <2>2. Handling' => Time' > due'
    BY <1>1, <1>3, <2>1 DEF Ticking
  <2>3. Place' = "hi" =>
           \E h \in 0 .. timerh' : due' < h * HALF + reg'.lo /\ h * HALF + reg'.lo <= Time'
    <3> SUFFICES ASSUME Place = "hi"
                 PROVE  \E h \in 0 .. timerh' : due < h * HALF + reg.lo /\ h * HALF + reg.lo <= Time'
      BY <1>1, <2>1
    <3>1. PICK h \in 0 .. timerh : due < h * HALF + reg.lo /\ h * HALF + reg.lo <= Time
      BY DEF Ticking
    <3>2. h \in 0 .. timerh' /\ h \in Nat
      BY <1>4
    <3>3. h * HALF + reg.lo \in Nat
      BY <3>2, Clock, Products
    <3>4. h * HALF + reg.lo <= Time'
      BY <1>1, <1>3, <3>1, <3>3
    <3> QED
      BY <3>1, <3>2, <3>4
  <2>4. Place' \in {"setlo", "sethi"} =>
           \E asked \in due' + 1 .. Time', late \in {0, HALF} :
              reg'.hi * HALF + reg'.lo = Wanted(asked, late)
    <3> SUFFICES ASSUME Place \in {"setlo", "sethi"}
                 PROVE  \E asked \in due + 1 .. Time', late \in {0, HALF} :
                           reg.hi * HALF + reg.lo = Wanted(asked, late)
      BY <1>1, <2>1
    <3>1. PICK asked \in due + 1 .. Time, late \in {0, HALF} :
             reg.hi * HALF + reg.lo = Wanted(asked, late)
      BY DEF Ticking
    <3>2. asked \in due + 1 .. Time'
      BY <1>1, <1>3
    <3> QED
      BY <3>1, <3>2
  <2>5. IF ~Handling' THEN Match' = due' ELSE Time' > due'
    BY <1>1, <1>2, <2>1, <2>2 DEF Ticking
  <2>6. /\ Place' \in {"lo", "hi", "setlo", "sethi"} => mcause' = Timer
        /\ Place' = "sethi" => timermatchl' = reg'.lo
    BY <1>1, <2>1 DEF Ticking
  <2>7. Ticking'
    BY <1>1, <2>3, <2>4, <2>5, <2>6 DEF Ticking, Wanted
  <2>8. Ticks!Pass
    BY <1>1, <2>1 DEF Ticks!Pass
  <2> QED
    BY <2>7, <2>8 DEF Follows, Ticks!Next
<1>6. CASE On /\ Expired(timerh', timerl') /\ TrapTo(At("trap"), Timer, pc)
  <2>1. Place' = "trap" /\ mcause' = Timer
    BY <1>6, Labels DEF TrapTo, Place
  <2>2. Handling'
    BY <2>1 DEF Handling
  <2>3. ~Handling
    <3> SUFFICES ASSUME Handling PROVE FALSE
      OBVIOUS
    <3>1. InTrap \/ InHandler
      BY Where DEF IInv, Handling
    <3> QED
      BY <1>6, <3>1 DEF InTrap, InHandler
  <2>4. Match = due
    BY <2>3 DEF Ticking
  <2>5. Time' > Match
    <3>1. timermatchh \in Nat /\ timermatchl \in Word /\ timerl' \in Nat /\ timermatchl \in Nat
      BY Clock, <1>3
    <3>2. CASE timerh' > timermatchh
      <4>1. timermatchh * HALF + timermatchl < timerh' * HALF + timerl'
        BY <1>1, <1>4, <3>1, <3>2, Products
      <4> QED
        BY <1>3, <4>1 DEF Time, Match
    <3>3. CASE timerh' = timermatchh /\ timerl' > timermatchl
      <4>1. timermatchh * HALF \in Nat
        BY <3>1, Products
      <4>2. timermatchh * HALF + timermatchl < timerh' * HALF + timerl'
        BY <3>1, <3>3, <4>1
      <4> QED
        BY <1>3, <4>2 DEF Time, Match
    <3> QED
      BY <1>6, <3>2, <3>3 DEF Expired
  <2>6. Time' > due /\ due' = due
    BY <1>1, <2>4, <2>5
  <2>7. Ticking'
    BY <1>1, <2>1, <2>2, <2>6 DEF Ticking
  <2>8. Ticks!Tick
    BY <1>1, <2>2, <2>3, <2>6 DEF Ticks!Tick
  <2> QED
    BY <2>7, <2>8 DEF Follows, Ticks!Next
<1> QED
  BY <1>5, <1>6, Passes

LEMMA StepTicks ==
    ASSUME IInv, Ticking, IInv', [Next]_vars
    PROVE  Ticking' /\ Follows
<1>1. CASE Instruction /\ Place \notin HandlerPlaces
  BY <1>1, ElsewhereTicks
<1>2. CASE Instruction /\ Place \in HandlerPlaces
  <2>1. TrapEntry \/ ClkLo \/ ClkHi \/ ClkSetLo \/ ClkSetHi
    BY <1>2 DEF Instruction, HandlerPlaces, InUser, Compute, Disable, Restore, SystemCall,
       CallYield, CallResume, CallsOf, Yield, Resume, ReschedStays, ReschedSwitches, CtxswSave,
       CtxswLoad, CtxswLaunch, YieldRestores, ResumeReturns, ClkRest, ExitMepc, ExitStatus, Back,
       Launched
  <2> QED
    BY <2>1, EntryTicks, ClkLoTicks, ClkHiTicks, ClkSetLoTicks, ClkSetHiTicks
<1>3. CASE Elapse
  BY <1>3, ElapseTicks
<1>4. CASE UNCHANGED vars
  <2>1. /\ UNCHANGED <<timerl, timerh, timermatchl, timermatchh, mcause, pc, reg, due>>
    BY <1>4 DEF vars, timer, timermatch, csrs, swvars, history
  <2>2. Time' = Time /\ Match' = Match /\ Place' = Place
    BY <2>1 DEF Time, Match, Place
  <2>3. Handling' = Handling
    BY <2>1, <2>2 DEF Handling
  <2>4. Ticking'
    BY <2>1, <2>2, <2>3 DEF Ticking, Wanted
  <2> QED
    BY <2>1, <2>2, <2>3, <2>4 DEF Follows
<1> QED
  BY <1>1, <1>2, <1>3, <1>4 DEF Next

LEMMA InitTicks == ASSUME Init, IInv PROVE Ticking /\ Ticks!Init
<1>1. /\ timerl = 0 /\ timerh = 0 /\ due = Interval /\ Place = "user"
      /\ timermatchl = Interval % HALF /\ timermatchh = Interval \div HALF
  BY Labels DEF Init, HartInit, Place
<1>2. Time = 0
  BY <1>1, Sizes DEF Time
<1>3. Match = Interval
  BY <1>1, Sizes, Halves DEF Match
<1>4. ~Handling
  BY <1>1 DEF Handling
<1>5. Time + HALF + Interval < HALF * HALF
  <2>1. HALF \in Nat /\ Interval \in Nat /\ HALF + Interval < HALF * HALF
    BY Sizes
  <2>2. 0 + HALF + Interval = HALF + Interval
    BY <2>1
  <2> QED
    BY <1>2, <2>1, <2>2
<1>6. Ticking
  BY <1>1, <1>3, <1>4, <1>5 DEF Ticking
<1>7. Ticks!Init
  BY <1>1, <1>2, <1>4 DEF Ticks!Init
<1> QED
  BY <1>6, <1>7

(* The handler arms each tick once, at Interval after a moment since the   *)
(* last was due, or a whole HALF later when the low word comes round       *)
(* between the loads of the clock; the interrupt comes when the clock has  *)
(* passed that, though both words of the compare value are written one at  *)
(* a time and the pending bit is set and cleared by others.                *)
THEOREM TickerImplemented == ASSUME Beyond = {} PROVE Spec => ImplementsTicker
<1>1. Init => IInv /\ Ticking /\ Ticks!Init
  BY InitFacts, InitTicks
<1>2. IInv /\ Ticking /\ [Next]_vars => IInv' /\ Ticking' /\ Follows
  BY StepKeeps, StutterKeeps, StepTicks
<1>3. Follows => [Ticks!Next]_(Ticks!vars)
  BY DEF Follows, Ticks!vars
<1> QED
  BY <1>1, <1>2, <1>3, PTL DEF Spec, ImplementsTicker, Ticks!Spec
================================================================================
