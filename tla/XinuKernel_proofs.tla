---------------------------- MODULE XinuKernel_proofs ----------------------------
(***************************************************************************)
(* Proofs about XinuKernel: a process is where its state says, a           *)
(* semaphore's count is the number of its waiters, who are served in the   *)
(* order they came, receive() only takes a message that is there, and      *)
(* everybody sleeps as long as he asked, for any number of processes and   *)
(* semaphores and whatever programs do.                                    *)
(***************************************************************************)
EXTENDS MCXinuKernel, XinuLists_proofs, FiniteSetTheorems

USE DEF NULLPROC

(* What the calls that run with interrupts disabled, or as if, may leave   *)
(* behind when they divide.                                                *)
Inside == {"mark", "insert", "resched", "requeue"}

ReadyPart ==
    /\ Once(readylist)
    /\ \A p \in Pid : p \in PidsOf(readylist) <=> prstate[p] = "READY" /\ ~Moving(p)

SleepPart ==
    /\ Once(sleepq)
    /\ \A p \in Pid : p \in PidsOf(sleepq) <=> prstate[p] \in {"SLEEP", "RECTIM"}

WaitPart ==
    /\ \A s \in Sem : IsInjective(squeue[s])
    /\ \A p \in Pid :
          /\ \A s \in Sem : p \in Range(squeue[s]) <=> prstate[p] = "WAIT" /\ prsem[p] = s
          /\ prstate[p] = "WAIT" => prsem[p] \in Sem

(* Whose turn it is.                                                       *)
Turn ==
    /\ \A p \in Pid : prstate[p] = "CURR" => p = currpid
    /\ \/ prstate[currpid] = "CURR"
       \/ prstate[currpid] = "RECV" /\ kont[currpid].at = "recvyield"
       \/ prstate[currpid] = "READY" /\ kont[currpid].at = "requeue"
    /\ prstate[NULLPROC] \in {"READY", "CURR"}

(* Some processes become ready or get the CPU; nobody else's state changes,*)
(* and no entry comes into use.                                            *)
Wakes ==
    \A p \in Pid :
        \/ prstate'[p] = prstate[p]
        \/ prstate[p] # "FREE" /\ prstate'[p] \in {"READY", "CURR"}

(* How far a divided call of p has come.                                   *)
Progress(p) ==
    /\ kont[p].at \in Inside => p = currpid /\ p \notin inclk
    /\ kont[p].at = "mark" => prstate[kont[p].arg] = "SUSP"
    /\ kont[p].at = "insert" =>
          prstate[kont[p].arg] = "READY" /\ kont[p].arg \notin {p, NULLPROC}
    /\ kont[p].at = "requeue" => prstate[p] = "READY"
    /\ kont[p].at \in {"recvyield", "recvtake"} => prhasmsg[p] \/ prstate[p] = "RECV"
    /\ kont[p].at = "kill" => kont[p].arg # NULLPROC
    /\ prstate[p] = "FREE" => kont[p] = User

CallPart ==
    /\ \A p \in Pid : Progress(p)
    /\ kont[NULLPROC] = User

IInv ==
    /\ TypeOK
    /\ ReadyPart /\ SleepPart /\ WaitPart
    /\ Turn /\ CallPart
    /\ CountIsWaiters

--------------------------------------------------------------------------------
(* The scheduler's four variables by themselves, as a record k.            *)

Sched(k) ==
    /\ k \in [st : [Pid -> States], rl : Seq(Entries(Pid)), cur : Pid, pre : 1 .. QUANTUM]
    /\ Once(k.rl)
    /\ \A p \in Pid : p \in PidsOf(k.rl) <=> k.st[p] = "READY"
    /\ \A p \in Pid : k.st[p] = "CURR" => p = k.cur
    /\ k.st[NULLPROC] \in {"READY", "CURR"}

(* r is what k comes to when some are made ready and the scheduler has     *)
(* chosen.                                                                 *)
Settled(k, woken, r) ==
    /\ Sched(r)
    /\ r.st[r.cur] = "CURR"
    /\ \A p \in Pid : IF p \in woken \/ k.st[p] \in {"READY", "CURR"}
                      THEN r.st[p] \in {"READY", "CURR"} ELSE r.st[p] = k.st[p]

LEMMA PidFacts == NULLPROC \in Pid /\ Pid \subseteq Int /\ 1 \in Pid
  BY KernelAssumption DEF Pid

LEMMA QuantumFacts == QUANTUM \in 1 .. QUANTUM
  BY KernelAssumption

(* If the process that has the CPU gives it up, there is one to take it.   *)
LEMMA SwitchSettles ==
    ASSUME NEW k, Sched(k), k.st[k.cur] # "CURR"
    PROVE  Settled(k, {}, SwitchTo(k))
<1> DEFINE new == Head(k.rl).pid
           r == SwitchTo(k)
<1>1. /\ k.st \in [Pid -> States] /\ k.rl \in Seq(Entries(Pid)) /\ k.cur \in Pid
      /\ Once(k.rl)
      /\ \A p \in Pid : p \in PidsOf(k.rl) <=> k.st[p] = "READY"
      /\ \A p \in Pid : k.st[p] = "CURR" => p = k.cur
      /\ k.st[NULLPROC] \in {"READY", "CURR"}
  BY DEF Sched
<1>2. k.rl # <<>>
  <2>1. k.st[NULLPROC] = "READY"
    BY <1>1, PidFacts
  <2>2. NULLPROC \in PidsOf(k.rl)
    BY <1>1, <2>1, PidFacts
  <2> QED
    BY <2>2 DEF PidsOf
<1>3. /\ new \in Pid /\ new \in PidsOf(k.rl)
      /\ Tail(k.rl) \in Seq(Entries(Pid))
      /\ PidsOf(Tail(k.rl)) = PidsOf(k.rl) \ {new}
      /\ Once(Tail(k.rl))
  BY <1>1, <1>2, TailPids
<1> HIDE DEF new
<1>4. /\ r = [st |-> [k.st EXCEPT ![new] = "CURR"], rl |-> Tail(k.rl),
              cur |-> new, pre |-> QUANTUM]
  BY DEF SwitchTo, new
<1>5. k.st[new] = "READY"
  BY <1>1, <1>3
<1> DEFINE st == [k.st EXCEPT ![new] = "CURR"]
<1>6. /\ st \in [Pid -> States] /\ st[new] = "CURR"
      /\ \A p \in Pid : p # new => st[p] = k.st[p]
  BY <1>1, <1>3 DEF States
<1>7. r.st = st /\ r.rl = Tail(k.rl) /\ r.cur = new
  BY <1>4
<1>8. r \in [st : [Pid -> States], rl : Seq(Entries(Pid)), cur : Pid, pre : 1 .. QUANTUM]
  BY <1>3, <1>4, <1>6, QuantumFacts
<1> HIDE DEF st, r
<1>9. \A p \in Pid : p \in PidsOf(r.rl) <=> r.st[p] = "READY"
  BY <1>1, <1>3, <1>6, <1>7
<1>10. \A p \in Pid : r.st[p] = "CURR" => p = r.cur
  BY <1>1, <1>6, <1>7
<1>11. r.st[NULLPROC] \in {"READY", "CURR"}
  BY <1>1, <1>6, <1>7, PidFacts
<1>12. \A p \in Pid : IF k.st[p] \in {"READY", "CURR"}
                      THEN r.st[p] \in {"READY", "CURR"} ELSE r.st[p] = k.st[p]
  BY <1>5, <1>6, <1>7
<1> QED
  BY <1>3, <1>6, <1>7, <1>8, <1>9, <1>10, <1>11, <1>12 DEF Sched, Settled, r

(* ready() changes two of the four.                                        *)
LEMMA Linked ==
    ASSUME NEW k, NEW p, NEW a, NEW b, NEW c, NEW d, NEW x, NEW y,
           k = [st |-> a, rl |-> b, cur |-> c, pre |-> d],
           x = [a EXCEPT ![p] = "READY"], y = Insert(b, p, prprio[p])
    PROVE  Link(k, p) = [st |-> x, rl |-> y, cur |-> c, pre |-> d]
<1> DEFINE m == [st |-> a, rl |-> b, cur |-> c, pre |-> d]
<1>1. /\ x = [k.st EXCEPT ![p] = "READY"]
      /\ y = Insert(k.rl, p, prprio[p])
  OBVIOUS
<1>2. Link(k, p) = [k EXCEPT !.st = x, !.rl = y]
  BY <1>1, Zenon DEF Link
<1>3. k = m
  OBVIOUS
<1>4. [m EXCEPT !.st = x, !.rl = y] = [st |-> x, rl |-> y, cur |-> c, pre |-> d]
  <2>1. [m EXCEPT !.st = x] = [st |-> x, rl |-> b, cur |-> c, pre |-> d]
    OBVIOUS
  <2>2. [[st |-> x, rl |-> b, cur |-> c, pre |-> d] EXCEPT !.rl = y]
            = [st |-> x, rl |-> y, cur |-> c, pre |-> d]
    OBVIOUS
  <2> HIDE DEF m
  <2> QED
    BY <2>1, <2>2, Zenon
<1> HIDE DEF m
<1>5. [k EXCEPT !.st = x, !.rl = y] = [m EXCEPT !.st = x, !.rl = y]
  BY <1>3, Zenon
<1> QED
  BY <1>2, <1>4, <1>5, Zenon

(* A process is put on the ready list and called ready.                    *)
LEMMA LinkSched ==
    ASSUME prprio \in [Pid -> Int], NEW k, Sched(k), NEW p \in Pid, k.st[p] # "READY"
    PROVE  LET r == Link(k, p)
           IN  Sched(r) /\ r.cur = k.cur /\ r.st = [k.st EXCEPT ![p] = "READY"]
<1> DEFINE rl == Insert(k.rl, p, prprio[p])
           st == [k.st EXCEPT ![p] = "READY"]
           r == Link(k, p)
<1>1. /\ k.st \in [Pid -> States] /\ k.rl \in Seq(Entries(Pid)) /\ k.cur \in Pid
      /\ k.pre \in 1 .. QUANTUM /\ Once(k.rl)
      /\ \A q \in Pid : q \in PidsOf(k.rl) <=> k.st[q] = "READY"
      /\ \A q \in Pid : k.st[q] = "CURR" => q = k.cur
      /\ k.st[NULLPROC] \in {"READY", "CURR"}
  BY DEF Sched
<1>2. k = [st |-> k.st, rl |-> k.rl, cur |-> k.cur, pre |-> k.pre]
  BY DEF Sched
<1>3. r = [st |-> st, rl |-> rl, cur |-> k.cur, pre |-> k.pre]
  <2>1. st = [k.st EXCEPT ![p] = "READY"] /\ rl = Insert(k.rl, p, prprio[p])
    OBVIOUS
  <2> HIDE DEF st, rl
  <2> QED
    BY <1>2, <2>1, Linked
<1>4. p \notin PidsOf(k.rl)
  BY <1>1
<1>5. rl \in Seq(Entries(Pid)) /\ PidsOf(rl) = PidsOf(k.rl) \cup {p} /\ Once(rl)
  <2>1. k.rl \in Seq(Entries(Pid)) /\ prprio[p] \in Int
    BY <1>1
  <2>2. rl \in Seq(Entries(Pid))
    BY <2>1, InsertPids
  <2>3. PidsOf(rl) = PidsOf(k.rl) \cup {p}
    <3> DEFINE list == k.rl
               key == prprio[p]
    <3>1. list \in Seq(Entries(Pid)) /\ key \in Int
      BY <2>1
    <3> HIDE DEF list, key
    <3>2. PidsOf(Insert(list, p, key)) = PidsOf(list) \cup {p}
      BY <3>1, InsertPids
    <3> QED
      BY <3>2 DEF list, key
  <2>4. Once(rl)
    BY <2>1, <1>1, <1>4, InsertPids
  <2> QED
    BY <2>2, <2>3, <2>4
<1>6. /\ st \in [Pid -> States] /\ st[p] = "READY"
      /\ \A q \in Pid : q # p => st[q] = k.st[q]
  BY <1>1 DEF States
<1> HIDE DEF st, rl
<1>7. r.st = st /\ r.rl = rl /\ r.cur = k.cur
  BY <1>3
<1>8. r \in [st : [Pid -> States], rl : Seq(Entries(Pid)), cur : Pid, pre : 1 .. QUANTUM]
  BY <1>1, <1>3, <1>5, <1>6
<1> HIDE DEF r
<1>9. Sched(r)
  BY <1>1, <1>5, <1>6, <1>7, <1>8, PidFacts DEF Sched
<1> QED
  BY <1>7, <1>9 DEF r, st

LEMMA ReschedSettles ==
    ASSUME prprio \in [Pid -> Int], NEW k, Sched(k)
    PROVE  Settled(k, {}, Resched(k))
<1>0. k.cur \in Pid /\ k.st \in [Pid -> States]
  BY DEF Sched
<1>1. CASE k.st[k.cur] # "CURR"
  BY <1>1, SwitchSettles DEF Resched
<1>2. CASE k.st[k.cur] = "CURR" /\ Stays(k)
  BY <1>2 DEF Resched, Settled
<1>3. CASE k.st[k.cur] = "CURR" /\ ~Stays(k)
  <2> DEFINE q == Requeue(k)
  <2>1. Sched(q) /\ q.cur = k.cur /\ q.st = [k.st EXCEPT ![k.cur] = "READY"]
    BY <1>0, <1>3, LinkSched DEF Requeue
  <2>2. Resched(k) = SwitchTo(q)
    BY <1>3 DEF Resched
  <2> HIDE DEF q
  <2>3. q.st[q.cur] # "CURR"
    BY <1>0, <2>1
  <2>4. Settled(q, {}, SwitchTo(q))
    BY <2>1, <2>3, SwitchSettles
  <2> QED
    BY <1>0, <1>3, <2>1, <2>2, <2>4 DEF Settled
<1> QED
  BY <1>1, <1>2, <1>3

Blocked == {"RECV", "SLEEP", "SUSP", "WAIT", "RECTIM"}

LEMMA ReadySettles ==
    ASSUME prprio \in [Pid -> Int], NEW k, Sched(k), NEW p \in Pid, k.st[p] \in Blocked
    PROVE  Settled(k, {p}, Ready(k, p))
<1> DEFINE q == Link(k, p)
<1>1. Sched(q) /\ q.cur = k.cur /\ q.st = [k.st EXCEPT ![p] = "READY"]
  BY LinkSched DEF Blocked
<1>2. Ready(k, p) = Resched(q)
  BY DEF Ready, MakeReady, Blocked
<1> HIDE DEF q
<1>3. Settled(q, {}, Resched(q))
  BY <1>1, ReschedSettles
<1>4. k.st \in [Pid -> States]
  BY DEF Sched
<1>5. q.st[p] = "READY" /\ \A x \in Pid : x # p => q.st[x] = k.st[x]
  BY <1>1, <1>4
<1> QED
  BY <1>2, <1>3, <1>5 DEF Settled

(* A queue of blocked processes is made ready.                             *)
LEMMA ReadyAllSettles ==
    ASSUME prprio \in [Pid -> Int], NEW k, Sched(k),
           NEW pids \in Seq(Pid), IsInjective(pids), pids # <<>>,
           \A i \in 1 .. Len(pids) : k.st[pids[i]] \in Blocked
    PROVE  Settled(k, Range(pids), ReadyAll(k, pids))
<1> DEFINE len == Len(pids)
           K == [st : [Pid -> States], rl : Seq(Entries(Pid)), cur : Pid, pre : 1 .. QUANTUM]
           step == [i \in 1 .. len |-> [x \in K |-> MakeReady(x, pids[i])]]
           Turns(h) == h = [n \in 0 .. Len(pids) |->
                                IF n = 0 THEN k ELSE MakeReady(h[n - 1], pids[n])]
           after == CHOOSE h : Turns(h)
<1>1. len \in Nat /\ DOMAIN pids = 1 .. len /\ \A i \in 1 .. len : pids[i] \in Pid
  BY LenProperties, ElementOfSeq
<1>2. len # 0
  BY EmptySeq
<1>3. k \in K
  BY DEF Sched
<1>4. ASSUME NEW x \in K, NEW p \in Pid PROVE MakeReady(x, p) \in K
  <2> DEFINE list == x.rl
             key == prprio[p]
  <2>1. list \in Seq(Entries(Pid)) /\ key \in Int
    OBVIOUS
  <2> HIDE DEF list, key
  <2>2. Insert(list, p, key) \in Seq(Entries(Pid))
    BY <2>1, InsertPids
  <2>3. Insert(x.rl, p, prprio[p]) \in Seq(Entries(Pid))
    BY <2>2 DEF list, key
  <2>4. [x.st EXCEPT ![p] = "READY"] \in [Pid -> States]
    BY DEF States
  <2>5. Link(x, p) \in K
    BY <2>3, <2>4 DEF Link
  <2> QED
    BY <2>5 DEF MakeReady
<1>5. \E h \in [0 .. len -> K] : Iterated(h, len, k, step)
  <2>1. step \in [1 .. len -> [K -> K]]
    BY <1>1, <1>4
  <2> HIDE DEF step, K, len
  <2> QED
    BY <1>1, <1>3, <2>1, Iterates
<1>6. \E h : Turns(h)
  <2>1. PICK h \in [0 .. len -> K] : Iterated(h, len, k, step)
    BY <1>5
  <2>2. h[0] = k /\ \A i \in 1 .. len : h[i] = step[i][h[i - 1]]
    BY <2>1 DEF Iterated
  <2>3. ASSUME NEW n \in 0 .. len
        PROVE  h[n] = IF n = 0 THEN k ELSE MakeReady(h[n - 1], pids[n])
    <3>1. CASE n = 0
      BY <2>2, <3>1
    <3>2. CASE n # 0
      <4>1. n \in 1 .. len /\ n - 1 \in 0 .. len
        BY <1>1, <3>2
      <4>2. h[n - 1] \in K
        BY <2>1, <4>1
      <4>3. step[n][h[n - 1]] = MakeReady(h[n - 1], pids[n])
        <5> HIDE DEF K
        <5> QED
          BY <4>1, <4>2
      <4> QED
        BY <2>2, <3>2, <4>1, <4>3
    <3> QED
      BY <3>1, <3>2
  <2> HIDE DEF K, step
  <2>4. h = [n \in 0 .. Len(pids) |-> IF n = 0 THEN k ELSE MakeReady(h[n - 1], pids[n])]
    BY <2>1, <2>3
  <2> QED
    BY <2>4
<1>7. after[0] = k /\ \A n \in 1 .. len : after[n] = MakeReady(after[n - 1], pids[n])
  <2>1. Turns(after)
    BY <1>6
  <2>2. after = [n \in 0 .. len |-> IF n = 0 THEN k ELSE MakeReady(after[n - 1], pids[n])]
    BY <2>1
  <2> HIDE DEF after, len
  <2>3. 0 \in 0 .. len /\ \A n \in 1 .. len : n \in 0 .. len /\ n # 0
    BY <1>1
  <2> QED
    BY <2>2, <2>3
<1>8. ReadyAll(k, pids) = Resched(after[len])
  <2>1. \E i \in DOMAIN pids : k.st[pids[i]] # "FREE"
    BY <1>1, <1>2 DEF Blocked
  <2> QED
    BY <2>1 DEF ReadyAll
<1> HIDE DEF after, K, step
(* After n turns the first n are ready.                                    *)
<1> DEFINE Good(n) == /\ Sched(after[n])
                      /\ after[n].cur = k.cur
                      /\ \A i \in 1 .. n : after[n].st[pids[i]] = "READY"
                      /\ \A p \in Pid : (\A i \in 1 .. n : pids[i] # p)
                                             => after[n].st[p] = k.st[p]
           T == {n \in 0 .. len : Good(n)}
<1>9. 0 \in T
  BY <1>1, <1>7
<1>10. ASSUME NEW n \in 1 .. len, n - 1 \in T PROVE n \in T
  <2> DEFINE b == after[n - 1]
             p == pids[n]
  <2>1. Good(n - 1)
    BY <1>10
  <2>2. p \in Pid /\ b.st[p] = k.st[p] /\ k.st[p] \in Blocked
    <3>1. p \in Pid /\ k.st[p] \in Blocked
      BY <1>1
    <3>2. ASSUME NEW i \in 1 .. n - 1 PROVE pids[i] # p
      <4>1. i \in DOMAIN pids /\ n \in DOMAIN pids /\ i # n
        BY <1>1
      <4> QED
        BY <4>1 DEF IsInjective
    <3>3. b.st[p] = k.st[p]
      BY <2>1, <3>1, <3>2
    <3> QED
      BY <3>1, <3>3
  <2>3. Sched(b) /\ b.cur = k.cur
    BY <2>1
  <2>4. after[n] = Link(b, p)
    BY <1>7, <2>2 DEF MakeReady, Blocked
  <2>5. Sched(after[n]) /\ after[n].cur = k.cur /\ after[n].st = [b.st EXCEPT ![p] = "READY"]
    <3> HIDE DEF b, p, after
    <3>1. b.st[p] # "READY"
      BY <2>2 DEF Blocked
    <3>2. /\ Sched(Link(b, p)) /\ Link(b, p).cur = b.cur
          /\ Link(b, p).st = [b.st EXCEPT ![p] = "READY"]
      BY <2>2, <2>3, <3>1, LinkSched
    <3> QED
      BY <2>3, <2>4, <3>2
  <2>6. b.st \in [Pid -> States]
    BY <2>3 DEF Sched
  <2>7. after[n].st[p] = "READY" /\ \A x \in Pid : x # p => after[n].st[x] = b.st[x]
    BY <2>2, <2>5, <2>6
  <2>8. ASSUME NEW i \in 1 .. n PROVE after[n].st[pids[i]] = "READY"
    <3>1. CASE i = n
      BY <2>7, <3>1
    <3>2. CASE i # n
      <4>1. i \in 1 .. n - 1 /\ pids[i] \in Pid
        BY <1>1, <3>2
      <4>2. b.st[pids[i]] = "READY"
        BY <2>1, <4>1
      <4> QED
        BY <2>7, <4>1, <4>2
    <3> QED
      BY <3>1, <3>2
  <2>9. ASSUME NEW x \in Pid, \A i \in 1 .. n : pids[i] # x PROVE after[n].st[x] = k.st[x]
    <3>1. x # p /\ \A i \in 1 .. n - 1 : pids[i] # x
      BY <2>9
    <3>2. b.st[x] = k.st[x]
      BY <2>1, <3>1
    <3> QED
      BY <2>7, <3>1, <3>2
  <2>10. Good(n)
    BY <2>5, <2>8, <2>9
  <2> HIDE DEF Good
  <2> QED
    BY <2>10, <1>1
<1>11. Good(len)
  <2>1. \A n \in 0 .. len : n \in T
    <3> HIDE DEF T, len
    <3> QED
      BY <1>1, <1>9, <1>10, Ascent
  <2>2. len \in T
    BY <2>1, <1>1
  <2> HIDE DEF Good
  <2> QED
    BY <2>2
<1> DEFINE a == after[len]
<1>12. Settled(a, {}, Resched(a))
  <2>1. Sched(a)
    BY <1>11
  <2> QED
    BY <2>1, ReschedSettles
<1>13. \A p \in Range(pids) : a.st[p] = "READY"
  BY <1>1, <1>11 DEF Range
<1>14. \A p \in Pid : p \notin Range(pids) => a.st[p] = k.st[p]
  BY <1>1, <1>11 DEF Range
<1> HIDE DEF a
<1>15. ReadyAll(k, pids) = Resched(a)
  BY <1>8 DEF a
<1> HIDE DEF Good, T
<1> QED
  BY <1>12, <1>13, <1>14, <1>15 DEF Settled

LEMMA ReadyNone ==
    ASSUME NEW k
    PROVE  ReadyAll(k, <<>>) = k
  BY DEF ReadyAll

--------------------------------------------------------------------------------
(* From the scheduler's record to the state and back.                      *)

KontType == [Pid -> [at : Konts, arg : Pid]]

LEMMA UserFacts == User \in [at : Konts, arg : Pid] /\ User.at = "user"
  BY PidFacts DEF User, Konts

LEMMA CurrentAt ==
    ASSUME IInv, kont[currpid].at \notin {"recvyield", "requeue"}
    PROVE  prstate[currpid] = "CURR"
  BY DEF IInv, Turn

LEMMA NoneInside ==
    ASSUME IInv, kont[currpid].at \notin Inside
    PROVE  \A p \in Pid : kont[p].at \notin Inside
  BY DEF IInv, CallPart, Progress

LEMMA NowSched ==
    ASSUME IInv, kont[currpid].at \notin Inside
    PROVE  Sched(Now)
<1>1. Now = [st |-> prstate, rl |-> readylist, cur |-> currpid, pre |-> preempt]
  BY DEF Now
<1>2. Now.st = prstate /\ Now.rl = readylist /\ Now.cur = currpid
  BY <1>1
<1>3. Now \in [st : [Pid -> States], rl : Seq(Entries(Pid)), cur : Pid, pre : 1 .. QUANTUM]
  BY <1>1 DEF IInv, TypeOK, Entries
<1>4. \A p \in Pid : ~Moving(p)
  BY DEF Moving, Inside
<1>5. \A p \in Pid : p \in PidsOf(readylist) <=> prstate[p] = "READY"
  BY <1>4 DEF IInv, ReadyPart
<1> QED
  BY <1>2, <1>3, <1>5 DEF IInv, ReadyPart, Turn, Sched

(* The current process leaves the CPU.                                     *)
LEMMA BlockSettles ==
    ASSUME IInv, kont[currpid].at \notin Inside, prstate[currpid] = "CURR",
           currpid # NULLPROC, NEW state \in Blocked \cup {"FREE"}
    PROVE  /\ Sched(Block(state)) /\ Block(state).st[Block(state).cur] = "CURR"
           /\ Block(state).st[currpid] = state
           /\ \A p \in Pid \ {currpid} :
                 IF prstate[p] \in {"READY", "CURR"}
                 THEN Block(state).st[p] \in {"READY", "CURR"}
                 ELSE Block(state).st[p] = prstate[p]
<1> DEFINE k == [Now EXCEPT !.st[currpid] = state]
           st == [prstate EXCEPT ![currpid] = state]
<1>1. k = [st |-> st, rl |-> readylist, cur |-> currpid, pre |-> preempt]
  BY DEF Now
<1>2. k.st = st /\ k.rl = readylist /\ k.cur = currpid
  BY <1>1
<1>3. /\ prstate \in [Pid -> States] /\ readylist \in Seq(Entries(Pid)) /\ currpid \in Pid
      /\ preempt \in 1 .. QUANTUM
  BY DEF IInv, TypeOK, Entries
<1>4. /\ st \in [Pid -> States] /\ st[currpid] = state
      /\ \A p \in Pid : p # currpid => st[p] = prstate[p]
  BY <1>3 DEF States, Blocked
<1>5. k \in [st : [Pid -> States], rl : Seq(Entries(Pid)), cur : Pid, pre : 1 .. QUANTUM]
  BY <1>1, <1>3, <1>4
<1> HIDE DEF k, st
<1>6. \A p \in Pid : p \in PidsOf(readylist) <=> prstate[p] = "READY"
  <2>1. \A p \in Pid : ~Moving(p)
    BY DEF Moving, Inside
  <2> QED
    BY <2>1 DEF IInv, ReadyPart
<1>7. Sched(k)
  <2>1. \A p \in Pid : p \in PidsOf(k.rl) <=> k.st[p] = "READY"
    BY <1>2, <1>3, <1>4, <1>6 DEF Blocked
  <2>2. \A p \in Pid : k.st[p] = "CURR" => p = k.cur
    BY <1>2, <1>3, <1>4 DEF IInv, Turn
  <2>3. k.st[NULLPROC] \in {"READY", "CURR"}
    BY <1>2, <1>4, PidFacts DEF IInv, Turn
  <2>4. Once(k.rl)
    BY <1>2 DEF IInv, ReadyPart
  <2> QED
    BY <1>5, <2>1, <2>2, <2>3, <2>4 DEF Sched
<1> DEFINE r == Resched(k)
<1>8. Block(state) = r
  BY DEF Block, k
<1>9. Settled(k, {}, r)
  <2>1. prprio \in [Pid -> Int]
    BY DEF IInv, TypeOK
  <2> QED
    BY <1>7, <2>1, ReschedSettles
<1> HIDE DEF r
<1>10. r.st[currpid] = state
  BY <1>2, <1>3, <1>4, <1>9 DEF Settled, Blocked
<1>11. ASSUME NEW p \in Pid \ {currpid}
       PROVE  IF prstate[p] \in {"READY", "CURR"} THEN r.st[p] \in {"READY", "CURR"}
              ELSE r.st[p] = prstate[p]
  BY <1>2, <1>4, <1>9 DEF Settled
<1> QED
  BY <1>8, <1>9, <1>10, <1>11 DEF Settled

(* The scheduler's record becomes the state, and nobody is half-way        *)
(* through a resume().                                                     *)
LEMMA Scheduled ==
    ASSUME NEW k, Sched(k), k.st[k.cur] = "CURR", Schedule(k),
           \A p \in Pid : kont'[p].at \notin Inside
    PROVE  /\ prstate' \in [Pid -> States] /\ readylist' \in Seq([pid : Pid, key : Int])
           /\ currpid' \in Pid /\ preempt' \in 1 .. QUANTUM
           /\ ReadyPart' /\ Turn'
<1>1. prstate' = k.st /\ readylist' = k.rl /\ currpid' = k.cur /\ preempt' = k.pre
  BY DEF Schedule
<1>2. /\ prstate' \in [Pid -> States] /\ readylist' \in Seq([pid : Pid, key : Int])
      /\ currpid' \in Pid /\ preempt' \in 1 .. QUANTUM
  BY <1>1 DEF Sched, Entries
<1>3. \A p \in Pid : ~Moving(p)'
  <2> SUFFICES ASSUME NEW p \in Pid, Moving(p)' PROVE FALSE
    OBVIOUS
  <2>1. kont'[currpid'].at \in {"insert", "requeue"}
    BY DEF Moving
  <2> QED
    BY <2>1, <1>2 DEF Inside
<1>4. ReadyPart'
  BY <1>1, <1>3 DEF Sched, ReadyPart
<1>5. Turn'
  BY <1>1 DEF Sched, Turn
<1> QED
  BY <1>2, <1>4, <1>5

LEMMA SleepersStay ==
    ASSUME SleepPart, sleepq' = sleepq,
           \A p \in Pid : prstate'[p] \in {"SLEEP", "RECTIM"}
                             <=> prstate[p] \in {"SLEEP", "RECTIM"}
    PROVE  SleepPart'
  BY DEF SleepPart

LEMMA WaitersStay ==
    ASSUME WaitPart, squeue' = squeue, prsem' = prsem,
           \A p \in Pid : prstate'[p] = "WAIT" <=> prstate[p] = "WAIT"
    PROVE  WaitPart'
  BY DEF WaitPart

LEMMA CountsStay ==
    ASSUME CountIsWaiters, squeue' = squeue, scount' = scount, sstate' = sstate
    PROVE  CountIsWaiters'
  BY DEF CountIsWaiters, Used

(* Calls stay where they were, or come to a point that is right.           *)
Keeps(p) ==
    /\ kont'[p] = kont[p]
    /\ prhasmsg[p] => prhasmsg'[p]
    /\ prstate[p] = "RECV" => prstate'[p] = "RECV" \/ prhasmsg'[p]
    /\ prstate'[p] = "FREE" => prstate[p] = "FREE"

LEMMA CallsStay ==
    ASSUME CallPart, kont'[NULLPROC] = User,
           \A p \in Pid : kont'[p].at \notin Inside,
           \A p \in Pid : kont'[p] = User \/ Keeps(p) \/ Progress(p)'
    PROVE  CallPart'
<1> SUFFICES ASSUME NEW p \in Pid PROVE Progress(p)'
  BY DEF CallPart
<1>1. CASE kont'[p] = User
  BY <1>1, UserFacts DEF Progress, Inside
<1>2. CASE Keeps(p)
  BY <1>2 DEF Keeps, CallPart, Progress, Inside
<1> QED
  BY <1>1, <1>2

--------------------------------------------------------------------------------
(* Processes.                                                              *)

LEMMA Calling ==
    ASSUME IInv, NEW name, Call(name)
    PROVE  /\ currpid \in Pid /\ currpid # NULLPROC
           /\ kont[currpid].at = "user" /\ prstate[currpid] = "CURR"
           /\ \A p \in Pid : kont[p].at \notin Inside
           /\ kont[NULLPROC] = User
           /\ Sched(Now) /\ Now.st = prstate
           /\ prprio \in [Pid -> Int]
<1>1. kont[currpid].at = "user" /\ kont[currpid].at \notin Inside /\ currpid # NULLPROC
  BY DEF Call, At, Inside
<1>2. prstate[currpid] = "CURR"
  BY <1>1, CurrentAt
<1>3. Now.st = prstate
  BY DEF Now
<1> QED
  BY <1>1, <1>2, <1>3, NoneInside, NowSched DEF IInv, TypeOK, CallPart

LEMMA CreateStep == ASSUME IInv, Create PROVE IInv'
<1>1. /\ kont[currpid].at = "user" /\ prstate[currpid] = "CURR"
      /\ \A p \in Pid : kont[p].at \notin Inside
      /\ currpid \in Pid /\ kont[NULLPROC] = User
  BY Calling DEF Create
<1>2. CASE \A p \in Pid : Live(p)
  <2>1. UNCHANGED <<prstate, readylist, currpid, prhasmsg, sleepq, sems, kont, inclk>>
    BY <1>2 DEF Create
  <2>2. TypeOK'
    BY <1>2, <2>1 DEF Create, IInv, TypeOK, sems
  <2>3. ReadyPart' /\ SleepPart' /\ WaitPart' /\ Turn'
    BY <2>1 DEF IInv, ReadyPart, SleepPart, WaitPart, Turn, Moving, sems
  <2>4. CallPart'
    BY <2>1 DEF IInv, CallPart, Progress
  <2>5. CountIsWaiters'
    BY <2>1, CountsStay DEF IInv, sems
  <2> QED
    BY <2>2, <2>3, <2>4, <2>5 DEF IInv
<1>3. CASE ~ \A p \in Pid : Live(p)
  <2> DEFINE f == Newpid
             far(p) == (p - nextpid) % NPROC
             T == {far(p) : p \in {q \in Pid : ~Live(q)}}
  <2>1. f \in Pid /\ prstate[f] = "FREE"
    <3>1. NPROC \in Nat \ {0} /\ nextpid \in Int /\ Pid \subseteq Int
      BY KernelAssumption DEF IInv, TypeOK, Pid
    <3>2. \A p \in Pid : far(p) \in Nat
      BY <3>1
    <3>3. T \subseteq Nat /\ T # {}
      BY <1>3, <3>2
    <3>4. PICK m \in T : \A x \in T : m <= x
      <4> HIDE DEF T
      <4> QED
        BY <3>3, Least
    <3>5. PICK p \in Pid : ~Live(p) /\ far(p) = m
      BY <3>4
    <3>6. \A q \in Pid : ~Live(q) => far(p) <= far(q)
      BY <3>4, <3>5
    <3>7. \E p_1 \in Pid : ~Live(p_1) /\ \A q \in Pid : ~Live(q) => far(p_1) <= far(q)
      BY <3>5, <3>6
    <3> QED
      BY <3>7 DEF Newpid, Live
  <2>2. /\ nextpid' = (f + 1) % NPROC
        /\ prstate' = [prstate EXCEPT ![f] = "SUSP"]
        /\ prhasmsg' = [prhasmsg EXCEPT ![f] = FALSE]
        /\ prparent' = [prparent EXCEPT ![f] = currpid]
        /\ prcount' = prcount + 1
        /\ UNCHANGED <<readylist, currpid, preempt, prprio, sleepq, sems, nextsem,
                       kont, inclk, halted>>
    BY <1>3 DEF Create
  <2> HIDE DEF f
  <2>3. /\ prstate' \in [Pid -> States] /\ prstate'[f] = "SUSP"
        /\ \A p \in Pid : p # f => prstate'[p] = prstate[p]
    BY <2>1, <2>2 DEF IInv, TypeOK, States
  <2>4. /\ prhasmsg' \in [Pid -> BOOLEAN]
        /\ \A p \in Pid : p # f => prhasmsg'[p] = prhasmsg[p]
    BY <2>1, <2>2 DEF IInv, TypeOK
  <2>5. nextpid' \in Pid
    BY <2>1, <2>2, KernelAssumption DEF Pid
  <2>6. TypeOK'
    <3>0. prparent \in [Pid -> Pid] /\ currpid \in Pid /\ prcount \in Int
      BY DEF IInv, TypeOK
    <3>1. prparent' \in [Pid -> Pid]
      <4>1. prparent' = [prparent EXCEPT ![f] = currpid]
        BY <2>2
      <4> QED
        BY <3>0, <4>1
    <3>3. prcount' \in Int
      <4>1. prcount' = prcount + 1
        BY <2>2
      <4> QED
        BY <3>0, <4>1
    <3>2. UNCHANGED <<readylist, currpid, preempt, prprio, sleepq, sstate, scount, squeue,
                      prsem, nextsem, kont, inclk, halted>>
      BY <2>2 DEF sems
    <3> QED
      BY <2>3, <2>4, <2>5, <3>1, <3>2, <3>3 DEF IInv, TypeOK
  <2>7. f # currpid /\ f # NULLPROC
    BY <1>1, <2>1 DEF IInv, Turn
  <2>8. ReadyPart'
    BY <2>1, <2>2, <2>3 DEF IInv, ReadyPart, Moving
  <2>9. SleepPart'
    BY <2>1, <2>2, <2>3, SleepersStay DEF IInv
  <2>10. WaitPart'
    BY <2>1, <2>2, <2>3, WaitersStay DEF IInv, sems
  <2>11. Turn'
    BY <1>1, <2>1, <2>2, <2>3, <2>7, PidFacts DEF IInv, Turn
  <2>12. CallPart'
    <3>1. kont[f] = User
      BY <2>1 DEF IInv, CallPart, Progress
    <3>2. \A p \in Pid : p # f => Keeps(p)
      BY <2>2, <2>3, <2>4 DEF Keeps
    <3> QED
      BY <1>1, <2>2, <3>1, <3>2, CallsStay DEF IInv
  <2>13. CountIsWaiters'
    BY <2>2, CountsStay DEF IInv, sems
  <2> QED
    BY <2>6, <2>8, <2>9, <2>10, <2>11, <2>12, <2>13 DEF IInv
<1> QED
  BY <1>2, <1>3

LEMMA ChprioStep ==
    ASSUME IInv, NEW p \in Pid, NEW newprio \in Prios, Chprio(p, newprio)
    PROVE  IInv'
<1>1. UNCHANGED <<sched, msgs, sleepq, sems, ids, prcount, kont, inclk, halted>>
  BY DEF Chprio
<1>2. TypeOK'
  <2>1. newprio \in Int
    BY KernelAssumption
  <2> QED
    BY <1>1, <2>1 DEF Chprio, IInv, TypeOK, sched, msgs, sems, ids
<1>3. ReadyPart' /\ SleepPart' /\ WaitPart' /\ Turn'
  BY <1>1 DEF IInv, ReadyPart, SleepPart, WaitPart, Turn, Moving, sems, sched
<1>4. CallPart'
  BY <1>1 DEF IInv, CallPart, Progress, sched, msgs
<1>5. CountIsWaiters'
  BY <1>1, CountsStay DEF IInv, sems
<1> QED
  BY <1>2, <1>3, <1>4, <1>5 DEF IInv

LEMMA YieldStep == ASSUME IInv, Yield PROVE IInv' /\ Wakes
<1>1. /\ \A p \in Pid : kont[p].at \notin Inside
      /\ kont[NULLPROC] = User /\ Sched(Now) /\ Now.st = prstate
      /\ prprio \in [Pid -> Int]
  BY Calling DEF Yield
<1> DEFINE r == Resched(Now)
<1>2. Settled(Now, {}, r)
  BY <1>1, ReschedSettles
<1>3. /\ Schedule(r)
      /\ UNCHANGED <<prprio, msgs, sleepq, sems, ids, prcount, kont, inclk, halted>>
  BY DEF Yield
<1> HIDE DEF r
<1>4. prstate' = r.st
  BY <1>3 DEF Schedule
<1>5. /\ prstate' \in [Pid -> States] /\ readylist' \in Seq([pid : Pid, key : Int])
      /\ currpid' \in Pid /\ preempt' \in 1 .. QUANTUM
      /\ ReadyPart' /\ Turn'
  BY <1>1, <1>2, <1>3, Scheduled DEF Settled
<1>6. \A p \in Pid : IF prstate[p] \in {"READY", "CURR"} THEN prstate'[p] \in {"READY", "CURR"}
                     ELSE prstate'[p] = prstate[p]
  BY <1>1, <1>2, <1>4 DEF Settled
<1>7. TypeOK'
  BY <1>3, <1>5 DEF IInv, TypeOK, msgs, sems, ids
<1>8. SleepPart'
  BY <1>3, <1>6, SleepersStay DEF IInv
<1>9. WaitPart'
  BY <1>3, <1>6, WaitersStay DEF IInv, sems
<1>10. CallPart'
  <2>1. \A p \in Pid : Keeps(p)
    BY <1>3, <1>6 DEF Keeps, msgs
  <2> QED
    BY <1>1, <1>3, <2>1, CallsStay DEF IInv
<1>11. CountIsWaiters'
  BY <1>3, CountsStay DEF IInv, sems
<1> QED
  BY <1>5, <1>6, <1>7, <1>8, <1>9, <1>10, <1>11 DEF IInv, Wakes

LEMMA SuspendStep ==
    ASSUME IInv, NEW p \in Pid, Suspend(p)
    PROVE  IInv'
<1>1. /\ currpid \in Pid /\ currpid # NULLPROC /\ prstate[currpid] = "CURR"
      /\ kont[currpid].at = "user"
      /\ \A q \in Pid : kont[q].at \notin Inside
      /\ kont[NULLPROC] = User
  BY Calling DEF Suspend
<1>2. UNCHANGED <<prprio, msgs, sleepq, sems, ids, prcount, kont, inclk, halted>> /\ p # NULLPROC
  BY DEF Suspend
<1>3. CountIsWaiters'
  BY <1>2, CountsStay DEF IInv, sems
<1>4. CASE prstate[p] = "CURR" /\ Schedule(Block("SUSP"))
  <2> DEFINE r == Block("SUSP")
  <2>1. /\ Sched(r) /\ r.st[r.cur] = "CURR" /\ r.st[currpid] = "SUSP"
        /\ \A q \in Pid \ {currpid} :
              IF prstate[q] \in {"READY", "CURR"} THEN r.st[q] \in {"READY", "CURR"}
              ELSE r.st[q] = prstate[q]
    BY <1>1, BlockSettles DEF Blocked
  <2>2. Schedule(r)
    BY <1>4
  <2> HIDE DEF r
  <2>3. prstate' = r.st
    BY <2>2 DEF Schedule
  <2>4. /\ prstate' \in [Pid -> States] /\ readylist' \in Seq([pid : Pid, key : Int])
        /\ currpid' \in Pid /\ preempt' \in 1 .. QUANTUM
        /\ ReadyPart' /\ Turn'
    BY <1>1, <1>2, <2>1, <2>2, Scheduled
  <2>5. /\ prstate'[currpid] = "SUSP"
        /\ \A q \in Pid \ {currpid} :
              IF prstate[q] \in {"READY", "CURR"} THEN prstate'[q] \in {"READY", "CURR"}
              ELSE prstate'[q] = prstate[q]
    BY <2>1, <2>3
  <2>6. TypeOK'
    BY <1>2, <2>4 DEF IInv, TypeOK, msgs, sems, ids
  <2>7. SleepPart'
    BY <1>1, <1>2, <2>5, SleepersStay DEF IInv
  <2>8. WaitPart'
    BY <1>1, <1>2, <2>5, WaitersStay DEF IInv, sems
  <2>9. CallPart'
    <3>1. \A q \in Pid : Keeps(q)
      BY <1>1, <1>2, <2>5 DEF Keeps, msgs
    <3> QED
      BY <1>1, <1>2, <3>1, CallsStay DEF IInv
  <2> QED
    BY <1>3, <2>4, <2>6, <2>7, <2>8, <2>9 DEF IInv
<1>5. CASE /\ prstate[p] = "READY"
           /\ readylist' = Getitem(readylist, p)
           /\ prstate' = [prstate EXCEPT ![p] = "SUSP"]
           /\ UNCHANGED <<currpid, preempt>>
  <2>1. /\ prstate' \in [Pid -> States] /\ prstate'[p] = "SUSP"
        /\ \A q \in Pid : q # p => prstate'[q] = prstate[q]
    BY <1>5 DEF IInv, TypeOK, States
  <2>2. \A q \in Pid : ~Moving(q) /\ ~Moving(q)'
    BY <1>1, <1>2, <1>5 DEF Moving, Inside
  <2>3. /\ readylist' \in Seq(Entries(Pid)) /\ Once(readylist')
        /\ PidsOf(readylist') = PidsOf(readylist) \ {p}
    <3>1. readylist \in Seq(Entries(Pid)) /\ Once(readylist) /\ p \in PidsOf(readylist)
      BY <1>5, <2>2 DEF IInv, TypeOK, ReadyPart, Entries
    <3>2. LET new == Getitem(readylist, p)
          IN  /\ new \in Seq(Entries(Pid)) /\ PidsOf(new) = PidsOf(readylist) \ {p}
              /\ Once(new)
      BY <3>1, GetitemPids
    <3> QED
      BY <1>5, <3>2
  <2>4. ReadyPart'
    BY <2>1, <2>2, <2>3 DEF IInv, ReadyPart
  <2>5. p # currpid
    BY <1>1, <1>5
  <2>6. TypeOK'
    BY <1>2, <1>5, <2>1, <2>3 DEF IInv, TypeOK, msgs, sems, ids, Entries
  <2>7. SleepPart'
    BY <1>2, <1>5, <2>1, SleepersStay DEF IInv
  <2>8. WaitPart'
    BY <1>2, <1>5, <2>1, WaitersStay DEF IInv, sems
  <2>9. Turn'
    BY <1>1, <1>2, <1>5, <2>1, <2>5, PidFacts DEF IInv, Turn
  <2>10. CallPart'
    <3>1. \A q \in Pid : Keeps(q)
      BY <1>2, <1>5, <2>1 DEF Keeps, msgs
    <3> QED
      BY <1>1, <1>2, <3>1, CallsStay DEF IInv
  <2> QED
    BY <1>3, <2>4, <2>6, <2>7, <2>8, <2>9, <2>10 DEF IInv
<1> QED
  BY <1>4, <1>5 DEF Suspend

(* The current process puts itself on the sleep list and leaves the CPU:   *)
(* sleepms() and recvtime().                                               *)
LEMMA GoToSleep ==
    ASSUME IInv, kont[currpid].at = "user", prstate[currpid] = "CURR",
           currpid # NULLPROC,
           NEW delay \in Int, NEW state \in {"SLEEP", "RECTIM"},
           sleepq' = Insertd(sleepq, currpid, delay), Schedule(Block(state)),
           UNCHANGED <<prhasmsg, squeue, prsem>>,
           \A q \in Pid : kont'[q].at \notin Inside
    PROVE  /\ prstate' \in [Pid -> States] /\ readylist' \in Seq([pid : Pid, key : Int])
           /\ currpid' \in Pid /\ preempt' \in 1 .. QUANTUM
           /\ sleepq' \in Seq([pid : Pid, key : Int])
           /\ ReadyPart' /\ Turn' /\ SleepPart' /\ WaitPart'
           /\ prstate'[currpid] = state
           /\ \A q \in Pid : kont'[q] = kont[q] => Keeps(q)
<1>1. currpid \in Pid
  BY DEF IInv, TypeOK
<1> DEFINE r == Block(state)
<1>2. /\ Sched(r) /\ r.st[r.cur] = "CURR" /\ r.st[currpid] = state
      /\ \A q \in Pid \ {currpid} :
            IF prstate[q] \in {"READY", "CURR"} THEN r.st[q] \in {"READY", "CURR"}
            ELSE r.st[q] = prstate[q]
  BY BlockSettles DEF Blocked, Inside
<1>3. Schedule(r)
  OBVIOUS
<1> HIDE DEF r
<1>4. /\ prstate' \in [Pid -> States] /\ readylist' \in Seq([pid : Pid, key : Int])
      /\ currpid' \in Pid /\ preempt' \in 1 .. QUANTUM
      /\ ReadyPart' /\ Turn'
  BY <1>2, <1>3, Scheduled
<1>5. /\ prstate'[currpid] = state
      /\ \A q \in Pid \ {currpid} :
            IF prstate[q] \in {"READY", "CURR"} THEN prstate'[q] \in {"READY", "CURR"}
            ELSE prstate'[q] = prstate[q]
  BY <1>2, <1>3 DEF Schedule
<1>6. /\ sleepq' \in Seq(Entries(Pid)) /\ Once(sleepq')
      /\ PidsOf(sleepq') = PidsOf(sleepq) \cup {currpid}
  <2>1. /\ sleepq \in Seq(Entries(Pid)) /\ Once(sleepq) /\ currpid \notin PidsOf(sleepq)
    BY <1>1 DEF IInv, TypeOK, SleepPart, Entries
  <2>2. sleepq' \in Seq(Entries(Pid))
    BY <1>1, <2>1, InsertdPids
  <2>3. PidsOf(sleepq') = PidsOf(sleepq) \cup {currpid}
    <3> DEFINE list == sleepq
               c == currpid
    <3>1. list \in Seq(Entries(Pid)) /\ c \in Pid
      BY <1>1, <2>1
    <3> HIDE DEF list, c
    <3>2. PidsOf(Insertd(list, c, delay)) = PidsOf(list) \cup {c}
      BY <3>1, InsertdPids
    <3> QED
      BY <3>2 DEF list, c
  <2>4. Once(sleepq')
    BY <1>1, <2>1, InsertdPids
  <2> QED
    BY <2>2, <2>3, <2>4
<1>7. SleepPart'
  BY <1>1, <1>5, <1>6 DEF IInv, SleepPart
<1>8. WaitPart'
  BY <1>1, <1>5, WaitersStay DEF IInv
<1>9. \A q \in Pid : kont'[q] = kont[q] => Keeps(q)
  BY <1>1, <1>5 DEF Keeps
<1> QED
  BY <1>4, <1>5, <1>6, <1>7, <1>8, <1>9 DEF Entries

LEMMA SleepmsStep ==
    ASSUME IInv, NEW delay \in Delays, Sleepms(delay)
    PROVE  IInv'
<1>1. /\ currpid \in Pid /\ currpid # NULLPROC /\ prstate[currpid] = "CURR"
      /\ kont[currpid].at = "user"
      /\ \A q \in Pid : kont[q].at \notin Inside
      /\ kont[NULLPROC] = User
  BY Calling DEF Sleepms
<1>2. /\ UNCHANGED <<prprio, msgs, sems, ids, prcount, kont, inclk, halted>>
      /\ sleepq' = Insertd(sleepq, currpid, delay) /\ Schedule(Block("SLEEP"))
      /\ delay \in Int
  BY KernelAssumption DEF Sleepms
<1>3. /\ prstate' \in [Pid -> States] /\ readylist' \in Seq([pid : Pid, key : Int])
      /\ currpid' \in Pid /\ preempt' \in 1 .. QUANTUM
      /\ sleepq' \in Seq([pid : Pid, key : Int])
      /\ ReadyPart' /\ Turn' /\ SleepPart' /\ WaitPart'
      /\ \A q \in Pid : kont'[q] = kont[q] => Keeps(q)
  BY <1>1, <1>2, GoToSleep DEF msgs, sems
<1>4. TypeOK'
  BY <1>2, <1>3 DEF IInv, TypeOK, msgs, sems, ids
<1>5. CallPart'
  BY <1>1, <1>2, <1>3, CallsStay DEF IInv
<1>6. CountIsWaiters'
  BY <1>2, CountsStay DEF IInv, sems
<1> QED
  BY <1>3, <1>4, <1>5, <1>6 DEF IInv

--------------------------------------------------------------------------------
(* resume().                                                               *)

(* Only currpid's own call moves on, and no list changes.                  *)
LEMMA ResumeStep ==
    ASSUME IInv, NEW p \in Pid, Resume(p)
    PROVE  IInv'
<1>1. /\ currpid \in Pid /\ currpid # NULLPROC /\ currpid \notin inclk
      /\ prstate[currpid] = "CURR" /\ kont[currpid].at = "user"
      /\ \A q \in Pid : kont[q].at \notin Inside
      /\ kont[NULLPROC] = User
  BY Calling DEF Resume, Call, At
<1>2. /\ prstate[p] = "SUSP"
      /\ kont' = [kont EXCEPT ![currpid] = [at |-> "mark", arg |-> p]]
      /\ UNCHANGED <<sched, prprio, msgs, sleepq, sems, ids, prcount, inclk, halted>>
  BY DEF Resume, Goto
<1>3. /\ kont' \in KontType /\ kont'[currpid] = [at |-> "mark", arg |-> p]
      /\ \A q \in Pid : q # currpid => kont'[q] = kont[q]
  BY <1>1, <1>2 DEF IInv, TypeOK, KontType, Konts
<1>4. TypeOK'
  BY <1>2, <1>3 DEF IInv, TypeOK, sched, msgs, sems, ids, KontType
<1>5. \A q \in Pid : ~Moving(q) /\ ~Moving(q)'
  BY <1>1, <1>2, <1>3 DEF Moving, Inside, sched
<1>6. ReadyPart' /\ SleepPart' /\ WaitPart'
  BY <1>2, <1>5 DEF IInv, ReadyPart, SleepPart, WaitPart, sems, sched
<1>7. Turn'
  BY <1>1, <1>2 DEF IInv, Turn, sched
<1>8. CallPart'
  <2>1. ASSUME NEW q \in Pid, q = currpid PROVE Progress(q)'
    BY <2>1, <1>1, <1>2, <1>3 DEF Progress, sched
  <2>2. \A q \in Pid : q # currpid => Progress(q)'
    BY <1>1, <1>2, <1>3 DEF IInv, CallPart, Progress, sched, msgs, Inside
  <2>8. \A q \in Pid : Progress(q)'
    <3> SUFFICES ASSUME NEW q \in Pid PROVE Progress(q)'
      OBVIOUS
    <3>1. CASE q = currpid
      BY <2>1, <3>1
    <3> QED
      BY <2>2, <3>1
  <2>9. kont'[NULLPROC] = User
    BY <1>1, <1>3, PidFacts
  <2> QED
    BY <2>8, <2>9 DEF CallPart
<1>9. CountIsWaiters'
  BY <1>2, CountsStay DEF IInv, sems
<1> QED
  BY <1>4, <1>6, <1>7, <1>8, <1>9 DEF IInv

(* Where the current process stands in a resume().                         *)
LEMMA Resuming ==
    ASSUME IInv, NEW at \in Inside, At(at)
    PROVE  /\ currpid \in Pid /\ currpid # NULLPROC /\ currpid \notin inclk
           /\ kont[currpid].at = at /\ Target \in Pid /\ Progress(currpid)
           /\ kont[NULLPROC] = User
           /\ \A q \in Pid : q # currpid => kont[q].at \notin Inside
<1>1. currpid \in Pid /\ kont[currpid].at = at /\ currpid \notin inclk
  BY DEF At, IInv, TypeOK
<1>2. Target \in Pid
  BY <1>1 DEF Target, IInv, TypeOK
<1>3. kont[NULLPROC] = User /\ Progress(currpid)
      /\ \A q \in Pid : q # currpid => kont[q].at \notin Inside
  BY <1>1 DEF IInv, CallPart, Progress
<1>4. currpid # NULLPROC
  BY <1>1, <1>3, UserFacts DEF Inside
<1> QED
  BY <1>1, <1>2, <1>3, <1>4

LEMMA ReadyMarkStep == ASSUME IInv, ReadyMark PROVE IInv'
<1> DEFINE t == Target
<1>1. /\ currpid \in Pid /\ currpid # NULLPROC /\ currpid \notin inclk
      /\ kont[currpid].at = "mark" /\ t \in Pid /\ prstate[t] = "SUSP"
      /\ kont[NULLPROC] = User
      /\ \A q \in Pid : q # currpid => kont[q].at \notin Inside
  <2>1. At("mark") /\ "mark" \in Inside
    BY DEF ReadyMark, Inside
  <2> QED
    BY <2>1, Resuming DEF Progress, Target
<1>2. prstate[currpid] = "CURR"
  BY <1>1, CurrentAt
<1>3. /\ prstate' = [prstate EXCEPT ![t] = "READY"]
      /\ kont' = [kont EXCEPT ![currpid] = [at |-> "insert", arg |-> t]]
      /\ UNCHANGED <<readylist, currpid, preempt, prprio, msgs, sleepq, sems, ids,
                     prcount, inclk, halted>>
  BY <1>1 DEF ReadyMark, Goto, Live
<1> HIDE DEF t
<1>4. /\ kont' \in KontType /\ kont'[currpid] = [at |-> "insert", arg |-> t]
      /\ \A q \in Pid : q # currpid => kont'[q] = kont[q]
  BY <1>1, <1>3 DEF IInv, TypeOK, KontType, Konts
<1>5. /\ prstate' \in [Pid -> States] /\ prstate'[t] = "READY"
      /\ \A q \in Pid : q # t => prstate'[q] = prstate[q]
  BY <1>1, <1>3 DEF IInv, TypeOK, States
<1>6. t # currpid /\ t # NULLPROC
  BY <1>1, <1>2 DEF IInv, Turn
<1>7. TypeOK'
  BY <1>3, <1>4, <1>5 DEF IInv, TypeOK, msgs, sems, ids, KontType
<1>8. ReadyPart'
  <2>1. \A q \in Pid : ~Moving(q)
    BY <1>1 DEF Moving
  <2>2. \A q \in Pid : Moving(q)' <=> q = t
    BY <1>3, <1>4 DEF Moving
  <2> QED
    BY <1>1, <1>3, <1>5, <2>1, <2>2 DEF IInv, ReadyPart
<1>9. SleepPart'
  BY <1>1, <1>3, <1>5, SleepersStay DEF IInv
<1>10. WaitPart'
  BY <1>1, <1>3, <1>5, WaitersStay DEF IInv, sems
<1>11. Turn'
  BY <1>1, <1>2, <1>3, <1>5, <1>6, PidFacts DEF IInv, Turn
<1>12. CallPart'
  <2>1. ASSUME NEW q \in Pid, q = currpid PROVE Progress(q)'
    BY <2>1, <1>1, <1>2, <1>3, <1>4, <1>5, <1>6 DEF Progress
  <2>2. ASSUME NEW q \in Pid, q # currpid PROVE Progress(q)'
    <3>1. Progress(q) /\ kont[q].at \notin Inside /\ kont'[q] = kont[q]
      BY <1>1, <1>4, <2>2 DEF IInv, CallPart
    <3>2. prstate'[q] = "FREE" => prstate[q] = "FREE"
      BY <1>5
    <3>3. prstate[q] = "RECV" => prstate'[q] = "RECV"
      BY <1>1, <1>5
    <3> QED
      BY <1>3, <3>1, <3>2, <3>3 DEF Progress, Inside, msgs
  <2>8. \A q \in Pid : Progress(q)'
    <3> SUFFICES ASSUME NEW q \in Pid PROVE Progress(q)'
      OBVIOUS
    <3>1. CASE q = currpid
      BY <2>1, <3>1
    <3> QED
      BY <2>2, <3>1
  <2>9. kont'[NULLPROC] = User
    BY <1>1, <1>4, PidFacts
  <2> QED
    BY <2>8, <2>9 DEF CallPart
<1>13. CountIsWaiters'
  BY <1>3, CountsStay DEF IInv, sems
<1> QED
  BY <1>7, <1>8, <1>9, <1>10, <1>11, <1>12, <1>13 DEF IInv

LEMMA ReadyInsertStep == ASSUME IInv, ReadyInsert PROVE IInv'
<1> DEFINE t == Target
<1>1. /\ currpid \in Pid /\ currpid # NULLPROC /\ currpid \notin inclk
      /\ kont[currpid].at = "insert" /\ t \in Pid /\ prstate[t] = "READY"
      /\ t # currpid /\ kont[currpid].arg = t
      /\ kont[NULLPROC] = User
      /\ \A q \in Pid : q # currpid => kont[q].at \notin Inside
  <2>1. At("insert") /\ "insert" \in Inside
    BY DEF ReadyInsert, Inside
  <2> QED
    BY <2>1, Resuming DEF Progress, Target
<1>2. prstate[currpid] = "CURR"
  BY <1>1, CurrentAt
<1>3. /\ readylist' = Insert(readylist, t, prprio[t])
      /\ kont' = [kont EXCEPT ![currpid] = [at |-> "resched", arg |-> NULLPROC]]
      /\ UNCHANGED <<prstate, currpid, preempt, prprio, msgs, sleepq, sems, ids,
                     prcount, inclk, halted>>
  BY DEF ReadyInsert, Goto
<1> HIDE DEF t
<1>4. /\ kont' \in KontType /\ kont'[currpid] = [at |-> "resched", arg |-> NULLPROC]
      /\ \A q \in Pid : q # currpid => kont'[q] = kont[q]
  BY <1>1, <1>3, PidFacts DEF IInv, TypeOK, KontType, Konts
<1>5. \A q \in Pid : Moving(q) <=> q = t
  <2>1. kont[currpid] = [at |-> "insert", arg |-> t]
    BY <1>1 DEF IInv, TypeOK
  <2> QED
    BY <1>1, <2>1 DEF Moving
<1>6. \A q \in Pid : ~Moving(q)'
  BY <1>1, <1>3, <1>4 DEF Moving
<1>7. /\ readylist' \in Seq(Entries(Pid)) /\ Once(readylist')
      /\ PidsOf(readylist') = PidsOf(readylist) \cup {t}
  <2> DEFINE list == readylist
             key == prprio[t]
  <2>1. /\ list \in Seq(Entries(Pid)) /\ Once(list) /\ key \in Int
        /\ t \notin PidsOf(list)
    BY <1>1, <1>5 DEF IInv, TypeOK, ReadyPart, Entries
  <2>2. readylist' = Insert(list, t, key)
    BY <1>3
  <2> HIDE DEF list, key
  <2>3. Insert(list, t, key) \in Seq(Entries(Pid))
    BY <1>1, <2>1, InsertPids
  <2>4. PidsOf(Insert(list, t, key)) = PidsOf(list) \cup {t}
    BY <1>1, <2>1, InsertPids
  <2>5. Once(Insert(list, t, key))
    BY <1>1, <2>1, InsertPids
  <2> QED
    BY <2>2, <2>3, <2>4, <2>5 DEF list
<1>8. TypeOK'
  BY <1>3, <1>4, <1>7 DEF IInv, TypeOK, msgs, sems, ids, KontType, Entries
<1>9. ReadyPart'
  BY <1>1, <1>3, <1>5, <1>6, <1>7 DEF IInv, ReadyPart
<1>10. SleepPart' /\ WaitPart'
  BY <1>3 DEF IInv, SleepPart, WaitPart, sems
<1>11. Turn'
  BY <1>2, <1>3 DEF IInv, Turn
<1>12. CallPart'
  <2>1. ASSUME NEW q \in Pid, q = currpid PROVE Progress(q)'
    BY <2>1, <1>1, <1>2, <1>3, <1>4 DEF Progress
  <2>2. \A q \in Pid : q # currpid => Progress(q)'
    BY <1>1, <1>3, <1>4 DEF IInv, CallPart, Progress, msgs, Inside
  <2>8. \A q \in Pid : Progress(q)'
    <3> SUFFICES ASSUME NEW q \in Pid PROVE Progress(q)'
      OBVIOUS
    <3>1. CASE q = currpid
      BY <2>1, <3>1
    <3> QED
      BY <2>2, <3>1
  <2>9. kont'[NULLPROC] = User
    BY <1>1, <1>4, PidFacts
  <2> QED
    BY <2>8, <2>9 DEF CallPart
<1>13. CountIsWaiters'
  BY <1>3, CountsStay DEF IInv, sems
<1> QED
  BY <1>8, <1>9, <1>10, <1>11, <1>12, <1>13 DEF IInv

LEMMA ReadyReschedStep == ASSUME IInv, ReadyResched PROVE IInv'
<1>1. /\ currpid \in Pid /\ currpid # NULLPROC /\ currpid \notin inclk
      /\ kont[currpid].at = "resched"
      /\ kont[NULLPROC] = User
      /\ \A q \in Pid : q # currpid => kont[q].at \notin Inside
  <2>1. At("resched") /\ "resched" \in Inside
    BY DEF ReadyResched, Inside
  <2> QED
    BY <2>1, Resuming
<1>2. prstate[currpid] = "CURR"
  BY <1>1, CurrentAt
<1>3. UNCHANGED <<readylist, currpid, preempt, prprio, msgs, sleepq, sems, ids, prcount,
                  inclk, halted>>
  BY DEF ReadyResched
<1>4. CountIsWaiters'
  BY <1>3, CountsStay DEF IInv, sems
<1>5. \A q \in Pid : ~Moving(q)
  BY <1>1 DEF Moving
<1>6. CASE Stays(Now)
  <2>1. /\ kont' = [kont EXCEPT ![currpid] = User] /\ prstate' = prstate
    BY <1>6 DEF ReadyResched, Return
  <2>2. /\ kont' \in KontType /\ kont'[currpid] = User
        /\ \A q \in Pid : q # currpid => kont'[q] = kont[q]
    BY <1>1, <2>1, UserFacts DEF IInv, TypeOK, KontType
  <2>3. TypeOK'
    BY <1>3, <2>1, <2>2 DEF IInv, TypeOK, msgs, sems, ids, KontType
  <2>4. \A q \in Pid : ~Moving(q)'
    BY <1>3, <2>2, UserFacts DEF Moving
  <2>5. ReadyPart' /\ SleepPart' /\ WaitPart'
    BY <1>3, <1>5, <2>1, <2>4 DEF IInv, ReadyPart, SleepPart, WaitPart, sems
  <2>6. Turn'
    BY <1>2, <1>3, <2>1 DEF IInv, Turn
  <2>7. CallPart'
    <3>1. \A q \in Pid : q # currpid => Keeps(q)
      BY <1>3, <2>1, <2>2 DEF Keeps, msgs
    <3>2. kont'[NULLPROC] = User /\ \A q \in Pid : kont'[q].at \notin Inside
      BY <1>1, <2>2, PidFacts, UserFacts DEF Inside
    <3> QED
      BY <2>2, <3>1, <3>2, CallsStay DEF IInv
  <2> QED
    BY <1>4, <2>3, <2>5, <2>6, <2>7 DEF IInv
<1>7. CASE ~Stays(Now)
  <2>1. /\ prstate' = [prstate EXCEPT ![currpid] = "READY"]
        /\ kont' = [kont EXCEPT ![currpid] = [at |-> "requeue", arg |-> NULLPROC]]
    BY <1>7 DEF ReadyResched, Goto
  <2>2. /\ kont' \in KontType /\ kont'[currpid].at = "requeue"
        /\ \A q \in Pid : q # currpid => kont'[q] = kont[q]
    BY <1>1, <2>1, PidFacts DEF IInv, TypeOK, KontType, Konts
  <2>3. /\ prstate' \in [Pid -> States] /\ prstate'[currpid] = "READY"
        /\ \A q \in Pid : q # currpid => prstate'[q] = prstate[q]
    BY <1>1, <2>1 DEF IInv, TypeOK, States
  <2>4. TypeOK'
    BY <1>3, <2>2, <2>3 DEF IInv, TypeOK, msgs, sems, ids, KontType
  <2>5. \A q \in Pid : Moving(q)' <=> q = currpid
    BY <1>3, <2>2 DEF Moving
  <2>6. ReadyPart'
    BY <1>1, <1>2, <1>3, <1>5, <2>3, <2>5 DEF IInv, ReadyPart
  <2>7. SleepPart'
    BY <1>1, <1>2, <1>3, <2>3, SleepersStay DEF IInv
  <2>8. WaitPart'
    BY <1>1, <1>2, <1>3, <2>3, WaitersStay DEF IInv, sems
  <2>9. Turn'
    BY <1>1, <1>3, <2>2, <2>3, PidFacts DEF IInv, Turn
  <2>10. CallPart'
    <3>1. ASSUME NEW q \in Pid, q = currpid PROVE Progress(q)'
      BY <3>1, <1>1, <1>3, <2>2, <2>3 DEF Progress
    <3>2. \A q \in Pid : q # currpid => Progress(q)'
      BY <1>1, <1>3, <2>2, <2>3 DEF IInv, CallPart, Progress, msgs, Inside
    <3>8. \A q \in Pid : Progress(q)'
      <4> SUFFICES ASSUME NEW q \in Pid PROVE Progress(q)'
        OBVIOUS
      <4>1. CASE q = currpid
        BY <3>1, <4>1
      <4> QED
        BY <3>2, <4>1
    <3>9. kont'[NULLPROC] = User
      BY <1>1, <2>2, PidFacts
    <3> QED
      BY <3>8, <3>9 DEF CallPart
  <2> QED
    BY <1>4, <2>4, <2>6, <2>7, <2>8, <2>9, <2>10 DEF IInv
<1> QED
  BY <1>6, <1>7

LEMMA ReadySwitchStep == ASSUME IInv, ReadySwitch PROVE IInv' /\ Wakes
<1>1. /\ currpid \in Pid /\ currpid # NULLPROC /\ currpid \notin inclk
      /\ kont[currpid].at = "requeue" /\ prstate[currpid] = "READY"
      /\ kont[NULLPROC] = User
      /\ \A q \in Pid : q # currpid => kont[q].at \notin Inside
  <2>1. At("requeue") /\ "requeue" \in Inside
    BY DEF ReadySwitch, Inside
  <2> QED
    BY <2>1, Resuming DEF Progress
<1> DEFINE q == Requeue(Now)
           r == SwitchTo(q)
<1>2. /\ Schedule(r) /\ kont' = [kont EXCEPT ![currpid] = User]
      /\ UNCHANGED <<prprio, msgs, sleepq, sems, ids, prcount, inclk, halted>>
  BY DEF ReadySwitch, Return
<1>3. q = [st |-> [prstate EXCEPT ![currpid] = "READY"],
           rl |-> Insert(readylist, currpid, prprio[currpid]),
           cur |-> currpid, pre |-> preempt]
  <2> DEFINE x == [prstate EXCEPT ![currpid] = "READY"]
             y == Insert(readylist, currpid, prprio[currpid])
  <2>1. Now = [st |-> prstate, rl |-> readylist, cur |-> currpid, pre |-> preempt]
    BY DEF Now
  <2>2. q = Link(Now, currpid)
    <3>1. Now.cur = currpid
      BY DEF Now
    <3> QED
      BY <3>1, Zenon DEF Requeue
  <2>3. /\ x = [prstate EXCEPT ![currpid] = "READY"]
        /\ y = Insert(readylist, currpid, prprio[currpid])
    OBVIOUS
  <2> HIDE DEF q, x, y
  <2>4. q = [st |-> x, rl |-> y, cur |-> currpid, pre |-> preempt]
    BY <2>1, <2>2, <2>3, Linked
  <2> QED
    BY <2>4 DEF x, y
<1> DEFINE st == [prstate EXCEPT ![currpid] = "READY"]
           rl == Insert(readylist, currpid, prprio[currpid])
<1>4. st = prstate
  BY <1>1 DEF IInv, TypeOK
<1>5. \A p \in Pid : Moving(p) <=> p = currpid
  BY <1>1 DEF Moving
<1>6. rl \in Seq(Entries(Pid)) /\ Once(rl) /\ PidsOf(rl) = PidsOf(readylist) \cup {currpid}
  <2> DEFINE list == readylist
             key == prprio[currpid]
             c == currpid
  <2>1. /\ list \in Seq(Entries(Pid)) /\ Once(list) /\ key \in Int /\ c \in Pid
        /\ c \notin PidsOf(list)
    BY <1>1, <1>5 DEF IInv, TypeOK, ReadyPart, Entries
  <2> HIDE DEF list, key, c
  <2>3. Insert(list, c, key) \in Seq(Entries(Pid))
    BY <1>1, <2>1, InsertPids
  <2>4. PidsOf(Insert(list, c, key)) = PidsOf(list) \cup {c}
    BY <1>1, <2>1, InsertPids
  <2>5. Once(Insert(list, c, key))
    BY <1>1, <2>1, InsertPids
  <2> QED
    BY <2>3, <2>4, <2>5 DEF list, c, key
<1> HIDE DEF st, rl, q
<1>7. q.st = prstate /\ q.rl = rl /\ q.cur = currpid
  BY <1>3, <1>4 DEF st, rl
<1>8. q \in [st : [Pid -> States], rl : Seq(Entries(Pid)), cur : Pid, pre : 1 .. QUANTUM]
  BY <1>3, <1>4, <1>6 DEF IInv, TypeOK, st, rl
<1>9. Sched(q)
  <2>1. \A p \in Pid : p \in PidsOf(rl) <=> prstate[p] = "READY"
    BY <1>1, <1>5, <1>6 DEF IInv, ReadyPart
  <2> QED
    BY <1>6, <1>7, <1>8, <2>1 DEF IInv, Turn, Sched
<1>10. Settled(q, {}, r)
  BY <1>1, <1>7, <1>9, SwitchSettles
<1> HIDE DEF r
<1>11. /\ kont' \in KontType /\ kont'[currpid] = User
       /\ \A p \in Pid : p # currpid => kont'[p] = kont[p]
  BY <1>1, <1>2, UserFacts DEF IInv, TypeOK, KontType
<1>12. kont'[NULLPROC] = User /\ \A p \in Pid : kont'[p].at \notin Inside
  BY <1>1, <1>11, PidFacts, UserFacts DEF Inside
<1>13. /\ prstate' \in [Pid -> States] /\ readylist' \in Seq([pid : Pid, key : Int])
       /\ currpid' \in Pid /\ preempt' \in 1 .. QUANTUM
       /\ ReadyPart' /\ Turn'
  BY <1>2, <1>10, <1>12, Scheduled DEF Settled
<1>14. \A p \in Pid : IF prstate[p] \in {"READY", "CURR"} THEN prstate'[p] \in {"READY", "CURR"}
                      ELSE prstate'[p] = prstate[p]
  BY <1>2, <1>7, <1>10 DEF Settled, Schedule
<1>15. TypeOK'
  BY <1>2, <1>11, <1>13 DEF IInv, TypeOK, msgs, sems, ids, KontType
<1>16. SleepPart'
  BY <1>2, <1>14, SleepersStay DEF IInv
<1>17. WaitPart'
  BY <1>2, <1>14, WaitersStay DEF IInv, sems
<1>18. CallPart'
  <2>1. \A p \in Pid : p # currpid => Keeps(p)
    BY <1>2, <1>11, <1>14 DEF Keeps, msgs
  <2> QED
    BY <1>11, <1>12, <2>1, CallsStay DEF IInv
<1>19. CountIsWaiters'
  BY <1>2, CountsStay DEF IInv, sems
<1> QED
  BY <1>13, <1>14, <1>15, <1>16, <1>17, <1>18, <1>19 DEF IInv, Wakes

--------------------------------------------------------------------------------
(* receive(), recvclr() and recvtime().                                    *)

(* The current process stays where it is and at most takes its message.    *)
LEMMA QuietStep ==
    ASSUME IInv, prstate[currpid] = "CURR",
           UNCHANGED <<sched, prprio, sleepq, sems, ids, prcount, inclk, halted>>,
           prhasmsg' \in [Pid -> BOOLEAN], kont' \in KontType, kont'[NULLPROC] = User,
           \A p \in Pid : kont[p].at \notin Inside /\ kont'[p].at \notin Inside,
           \A p \in Pid : kont'[p] = User \/ Keeps(p) \/ Progress(p)'
    PROVE  IInv'
<1>1. TypeOK'
  BY DEF IInv, TypeOK, sched, sems, ids, KontType
<1>2. \A p \in Pid : ~Moving(p) /\ ~Moving(p)'
  <2>1. currpid \in Pid /\ currpid' = currpid
    BY DEF IInv, TypeOK, sched
  <2> QED
    BY <2>1 DEF Moving, Inside
<1>3. ReadyPart' /\ SleepPart' /\ WaitPart'
  BY <1>2 DEF IInv, ReadyPart, SleepPart, WaitPart, sems, sched
<1>4. Turn'
  BY DEF IInv, Turn, sched
<1>5. CallPart'
  BY CallsStay DEF IInv
<1>6. CountIsWaiters'
  BY CountsStay DEF IInv, sems
<1> QED
  BY <1>1, <1>3, <1>4, <1>5, <1>6 DEF IInv

(* A call that goes on with interrupts disabled, or as if.                 *)
LEMMA Continuing ==
    ASSUME IInv, NEW at \in {"recv", "recvyield", "recvtake", "timetake", "kill"}, At(at)
    PROVE  /\ currpid \in Pid /\ currpid # NULLPROC /\ kont[currpid].at = at
           /\ Progress(currpid) /\ Target \in Pid
           /\ \A q \in Pid : kont[q].at \notin Inside
           /\ kont[NULLPROC] = User
           /\ at # "recvyield" => prstate[currpid] = "CURR"
<1>1. kont[currpid].at = at /\ currpid \in Pid
  BY DEF At, IInv, TypeOK
<1>2. kont[NULLPROC] = User /\ Progress(currpid)
  BY <1>1 DEF IInv, CallPart
<1>3. currpid # NULLPROC
  BY <1>1, <1>2, UserFacts
<1>4. Target \in Pid
  BY <1>1 DEF Target, IInv, TypeOK
<1>5. \A q \in Pid : kont[q].at \notin Inside
  BY <1>1, NoneInside DEF Inside
<1>6. at # "recvyield" => prstate[currpid] = "CURR"
  BY <1>1, CurrentAt
<1> QED
  BY <1>1, <1>2, <1>3, <1>4, <1>5, <1>6

(* A call's process goes on at a point where others cannot interfere.      *)
LEMMA GotoProps ==
    ASSUME IInv, currpid # NULLPROC, kont[NULLPROC] = User, NEW at \in Konts \ Inside,
           \A q \in Pid : kont[q].at \notin Inside,
           NEW p \in Pid, kont' = [kont EXCEPT ![currpid] = [at |-> at, arg |-> p]]
    PROVE  /\ kont' \in KontType /\ kont'[currpid] = [at |-> at, arg |-> p]
           /\ \A q \in Pid : q # currpid => kont'[q] = kont[q]
           /\ \A q \in Pid : kont'[q].at \notin Inside
           /\ kont'[NULLPROC] = User
<1>1. currpid \in Pid /\ kont \in KontType
  BY DEF IInv, TypeOK, KontType
<1>2. kont' \in KontType
  BY <1>1 DEF KontType, Konts
<1>3. /\ kont'[currpid] = [at |-> at, arg |-> p]
      /\ \A q \in Pid : q # currpid => kont'[q] = kont[q]
  BY <1>1 DEF KontType
<1>4. ASSUME NEW q \in Pid PROVE kont'[q].at \notin Inside
  BY <1>3
<1>5. kont'[NULLPROC] = User
  BY <1>3, PidFacts
<1> QED
  BY <1>2, <1>3, <1>4, <1>5

LEMMA ReturnProps ==
    ASSUME IInv, currpid # NULLPROC, kont[NULLPROC] = User,
           \A q \in Pid : kont[q].at \notin Inside, Return
    PROVE  /\ kont' \in KontType /\ kont'[currpid] = User
           /\ \A q \in Pid : q # currpid => kont'[q] = kont[q]
           /\ \A q \in Pid : kont'[q].at \notin Inside
           /\ kont'[NULLPROC] = User
<1>1. kont' = [kont EXCEPT ![currpid] = [at |-> "user", arg |-> NULLPROC]]
  BY DEF Return, User
<1>2. "user" \in Konts \ Inside /\ User = [at |-> "user", arg |-> NULLPROC]
  BY DEF Konts, Inside, User
<1> QED
  BY <1>1, <1>2, GotoProps, PidFacts

LEMMA ReceiveStep == ASSUME IInv, Receive PROVE IInv'
<1>1. /\ currpid \in Pid /\ currpid # NULLPROC /\ prstate[currpid] = "CURR"
      /\ \A q \in Pid : kont[q].at \notin Inside
      /\ kont[NULLPROC] = User
  BY Calling DEF Receive
<1>2. UNCHANGED <<sched, prprio, msgs, sleepq, sems, ids, prcount, inclk, halted>>
  BY DEF Receive
<1> DEFINE at == IF prhasmsg[currpid] THEN "recvtake" ELSE "recv"
<1>3. kont' = [kont EXCEPT ![currpid] = [at |-> at, arg |-> NULLPROC]]
  BY DEF Receive, Goto
<1>4. at \in Konts \ Inside
  BY DEF Konts, Inside
<1> HIDE DEF at
<1>5. /\ kont' \in KontType /\ kont'[currpid] = [at |-> at, arg |-> NULLPROC]
      /\ \A q \in Pid : q # currpid => kont'[q] = kont[q]
      /\ \A q \in Pid : kont'[q].at \notin Inside
      /\ kont'[NULLPROC] = User
  BY <1>1, <1>3, <1>4, GotoProps, PidFacts
<1>6. prhasmsg' = prhasmsg /\ prhasmsg' \in [Pid -> BOOLEAN] /\ prstate' = prstate
  BY <1>2 DEF msgs, sched, IInv, TypeOK
<1>7. \A q \in Pid : kont'[q] = User \/ Keeps(q) \/ Progress(q)'
  <2>1. ASSUME NEW q \in Pid, q # currpid PROVE Keeps(q)
    BY <1>5, <1>6, <2>1 DEF Keeps
  <2>2. ASSUME NEW q \in Pid, q = currpid PROVE Progress(q)'
    <3>1. kont'[q].at = at /\ prstate'[q] = "CURR"
      BY <1>1, <1>5, <1>6, <2>2
    <3>2. at = "recv" \/ (at = "recvtake" /\ prhasmsg'[q])
      BY <1>6, <2>2 DEF at
    <3> QED
      BY <3>1, <3>2 DEF Progress, Inside
  <2> QED
    BY <2>1, <2>2
<1> QED
  BY <1>1, <1>2, <1>5, <1>6, <1>7, QuietStep

(* A process that has the CPU with its message taken.                      *)
LEMMA TakeStep ==
    ASSUME IInv, currpid # NULLPROC, prstate[currpid] = "CURR", kont[NULLPROC] = User,
           \A q \in Pid : kont[q].at \notin Inside,
           prhasmsg' = [prhasmsg EXCEPT ![currpid] = FALSE],
           UNCHANGED <<sched, prprio, sleepq, sems, ids, prcount, inclk, halted>>,
           Return \/ (kont' = kont /\ kont[currpid].at = "user")
    PROVE  IInv'
<1>1. currpid \in Pid /\ prhasmsg \in [Pid -> BOOLEAN] /\ kont \in KontType
  BY DEF IInv, TypeOK, KontType
<1>2. /\ prhasmsg' \in [Pid -> BOOLEAN]
      /\ \A q \in Pid : q # currpid => prhasmsg'[q] = prhasmsg[q]
  BY <1>1
<1>3. /\ kont' \in KontType /\ kont'[NULLPROC] = User
      /\ \A q \in Pid : kont'[q].at \notin Inside
      /\ \A q \in Pid : q # currpid => kont'[q] = kont[q]
      /\ kont'[currpid].at = "user"
  BY <1>1, ReturnProps, UserFacts
<1>4. prstate' = prstate
  BY DEF sched
<1>5. \A q \in Pid : kont'[q] = User \/ Keeps(q) \/ Progress(q)'
  <2>1. ASSUME NEW q \in Pid, q # currpid PROVE Keeps(q)
    BY <1>2, <1>3, <1>4, <2>1 DEF Keeps
  <2>2. ASSUME NEW q \in Pid, q = currpid PROVE Progress(q)'
    BY <1>3, <1>4, <2>2 DEF Progress, Inside
  <2> QED
    BY <2>1, <2>2
<1> QED
  BY <1>2, <1>3, <1>5, QuietStep

LEMMA RecvTakeStep == ASSUME IInv, RecvTake PROVE IInv'
  BY Continuing, TakeStep DEF RecvTake

LEMMA RecvtimeTakeStep == ASSUME IInv, RecvtimeTake PROVE IInv'
  BY Continuing, TakeStep DEF RecvtimeTake

LEMMA RecvclrStep == ASSUME IInv, Recvclr PROVE IInv'
  BY Calling, TakeStep DEF Recvclr

LEMMA RecvStateStep == ASSUME IInv, RecvState PROVE IInv'
<1>1. /\ currpid \in Pid /\ currpid # NULLPROC /\ kont[currpid].at = "recv"
      /\ prstate[currpid] = "CURR" /\ kont[NULLPROC] = User
      /\ \A q \in Pid : kont[q].at \notin Inside
  BY Continuing DEF RecvState
<1>2. /\ prstate' = [prstate EXCEPT ![currpid] = "RECV"]
      /\ kont' = [kont EXCEPT ![currpid] = [at |-> "recvyield", arg |-> NULLPROC]]
      /\ UNCHANGED <<readylist, currpid, preempt, prprio, msgs, sleepq, sems, ids, prcount,
                     inclk, halted>>
  BY DEF RecvState, Goto
<1>3. /\ kont' \in KontType /\ kont'[currpid] = [at |-> "recvyield", arg |-> NULLPROC]
      /\ \A q \in Pid : q # currpid => kont'[q] = kont[q]
      /\ \A q \in Pid : kont'[q].at \notin Inside
      /\ kont'[NULLPROC] = User
  <2>1. "recvyield" \in Konts \ Inside
    BY DEF Konts, Inside
  <2> QED
    BY <1>1, <1>2, <2>1, GotoProps, PidFacts
<1>4. /\ prstate' \in [Pid -> States] /\ prstate'[currpid] = "RECV"
      /\ \A q \in Pid : q # currpid => prstate'[q] = prstate[q]
  BY <1>1, <1>2 DEF IInv, TypeOK, States
<1>5. TypeOK'
  BY <1>2, <1>3, <1>4 DEF IInv, TypeOK, msgs, sems, ids, KontType
<1>6. ReadyPart'
  <2>1. \A q \in Pid : ~Moving(q) /\ ~Moving(q)'
    BY <1>1, <1>2, <1>3 DEF Moving, Inside
  <2> QED
    BY <1>1, <1>2, <1>4, <2>1 DEF IInv, ReadyPart
<1>7. SleepPart'
  BY <1>1, <1>2, <1>4, SleepersStay DEF IInv
<1>8. WaitPart'
  BY <1>1, <1>2, <1>4, WaitersStay DEF IInv, sems
<1>9. Turn'
  BY <1>1, <1>2, <1>3, <1>4, PidFacts DEF IInv, Turn
<1>10. CallPart'
  <2>1. ASSUME NEW q \in Pid, q # currpid PROVE Keeps(q)
    BY <1>2, <1>3, <1>4, <2>1 DEF Keeps, msgs
  <2>2. ASSUME NEW q \in Pid, q = currpid PROVE Progress(q)'
    BY <1>3, <1>4, <2>2 DEF Progress, Inside
  <2> QED
    BY <1>3, <2>1, <2>2, CallsStay DEF IInv
<1>11. CountIsWaiters'
  BY <1>2, CountsStay DEF IInv, sems
<1> QED
  BY <1>5, <1>6, <1>7, <1>8, <1>9, <1>10, <1>11 DEF IInv

LEMMA RecvYieldStep == ASSUME IInv, RecvYield PROVE IInv' /\ Wakes
<1>1. /\ currpid \in Pid /\ currpid # NULLPROC /\ kont[currpid].at = "recvyield"
      /\ kont[NULLPROC] = User /\ Progress(currpid)
      /\ \A q \in Pid : kont[q].at \notin Inside
  BY Continuing DEF RecvYield
<1> DEFINE r == Resched(Now)
<1>2. Sched(Now) /\ Now.st = prstate /\ prprio \in [Pid -> Int]
  BY <1>1, NowSched DEF Now, IInv, TypeOK
<1>3. Settled(Now, {}, r)
  BY <1>2, ReschedSettles
<1>4. /\ Schedule(r)
      /\ kont' = [kont EXCEPT ![currpid] = [at |-> "recvtake", arg |-> NULLPROC]]
      /\ UNCHANGED <<prprio, msgs, sleepq, sems, ids, prcount, inclk, halted>>
  BY DEF RecvYield, Goto
<1> HIDE DEF r
<1>5. /\ kont' \in KontType /\ kont'[currpid] = [at |-> "recvtake", arg |-> NULLPROC]
      /\ \A q \in Pid : q # currpid => kont'[q] = kont[q]
      /\ \A q \in Pid : kont'[q].at \notin Inside
      /\ kont'[NULLPROC] = User
  <2>1. "recvtake" \in Konts \ Inside
    BY DEF Konts, Inside
  <2> QED
    BY <1>1, <1>4, <2>1, GotoProps, PidFacts
<1>6. /\ prstate' \in [Pid -> States] /\ readylist' \in Seq([pid : Pid, key : Int])
      /\ currpid' \in Pid /\ preempt' \in 1 .. QUANTUM
      /\ ReadyPart' /\ Turn'
  BY <1>3, <1>4, <1>5, Scheduled DEF Settled
<1>7. \A p \in Pid : IF prstate[p] \in {"READY", "CURR"} THEN prstate'[p] \in {"READY", "CURR"}
                     ELSE prstate'[p] = prstate[p]
  BY <1>2, <1>3, <1>4 DEF Settled, Schedule
<1>8. TypeOK'
  BY <1>4, <1>5, <1>6 DEF IInv, TypeOK, msgs, sems, ids, KontType
<1>9. SleepPart'
  BY <1>4, <1>7, SleepersStay DEF IInv
<1>10. WaitPart'
  BY <1>4, <1>7, WaitersStay DEF IInv, sems
<1>11. CallPart'
  <2>1. ASSUME NEW q \in Pid, q # currpid PROVE Keeps(q)
    BY <1>4, <1>5, <1>7, <2>1 DEF Keeps, msgs
  <2>2. ASSUME NEW q \in Pid, q = currpid PROVE Progress(q)'
    <3>1. prhasmsg[q] \/ prstate[q] = "RECV"
      BY <1>1, <2>2 DEF Progress
    <3>2. prhasmsg'[q] \/ prstate'[q] = "RECV"
      BY <1>4, <1>7, <3>1 DEF msgs
    <3>3. prstate[q] # "FREE"
      BY <1>1, <2>2, UserFacts DEF Progress
    <3>4. prstate'[q] # "FREE"
      BY <1>7, <3>3
    <3> QED
      BY <1>5, <2>2, <3>2, <3>4 DEF Progress, Inside
  <2> QED
    BY <1>5, <2>1, <2>2, CallsStay DEF IInv
<1>12. CountIsWaiters'
  BY <1>4, CountsStay DEF IInv, sems
<1> QED
  BY <1>6, <1>7, <1>8, <1>9, <1>10, <1>11, <1>12 DEF IInv, Wakes

LEMMA RecvtimeStep ==
    ASSUME IInv, NEW maxwait \in Waits, Recvtime(maxwait)
    PROVE  IInv'
<1>1. /\ currpid \in Pid /\ currpid # NULLPROC /\ prstate[currpid] = "CURR"
      /\ kont[currpid].at = "user"
      /\ \A q \in Pid : kont[q].at \notin Inside
      /\ kont[NULLPROC] = User
  BY Calling DEF Recvtime
<1>2. CASE prhasmsg[currpid]
  BY <1>1, <1>2, TakeStep DEF Recvtime
<1>3. CASE ~prhasmsg[currpid]
  <2>1. /\ sleepq' = Insertd(sleepq, currpid, maxwait) /\ Schedule(Block("RECTIM"))
        /\ kont' = [kont EXCEPT ![currpid] = [at |-> "timetake", arg |-> NULLPROC]]
        /\ UNCHANGED <<prhasmsg, prprio, sems, ids, prcount, inclk, halted>>
        /\ maxwait \in Int
    BY <1>3, KernelAssumption DEF Recvtime, Goto
  <2>2. /\ kont' \in KontType /\ kont'[currpid] = [at |-> "timetake", arg |-> NULLPROC]
        /\ \A q \in Pid : q # currpid => kont'[q] = kont[q]
        /\ \A q \in Pid : kont'[q].at \notin Inside
        /\ kont'[NULLPROC] = User
    <3>1. "timetake" \in Konts \ Inside
      BY DEF Konts, Inside
    <3> QED
      BY <1>1, <2>1, <3>1, GotoProps, PidFacts
  <2>3. /\ prstate' \in [Pid -> States] /\ readylist' \in Seq([pid : Pid, key : Int])
        /\ currpid' \in Pid /\ preempt' \in 1 .. QUANTUM
        /\ sleepq' \in Seq([pid : Pid, key : Int])
        /\ ReadyPart' /\ Turn' /\ SleepPart' /\ WaitPart'
        /\ prstate'[currpid] = "RECTIM"
        /\ \A q \in Pid : kont'[q] = kont[q] => Keeps(q)
    BY <1>1, <2>1, <2>2, GoToSleep DEF sems
  <2>4. TypeOK'
    BY <2>1, <2>2, <2>3 DEF IInv, TypeOK, sems, ids, KontType
  <2>5. CallPart'
    <3>1. ASSUME NEW q \in Pid, q # currpid PROVE Keeps(q)
      BY <2>2, <2>3, <3>1
    <3>2. ASSUME NEW q \in Pid, q = currpid PROVE Progress(q)'
      BY <2>2, <2>3, <3>2 DEF Progress, Inside
    <3> QED
      BY <2>2, <3>1, <3>2, CallsStay DEF IInv
  <2>6. CountIsWaiters'
    BY <2>1, CountsStay DEF IInv, sems
  <2> QED
    BY <2>3, <2>4, <2>5, <2>6 DEF IInv
<1> QED
  BY <1>2, <1>3

--------------------------------------------------------------------------------
(* send() and kill().                                                      *)

(* A message is delivered, or not, while the caller is in the kernel.      *)
LEMMA SendSettles ==
    ASSUME IInv, prstate[currpid] = "CURR", NEW p \in Pid,
           SendTo(p) \/ UNCHANGED <<prhasmsg, sleepq, sched>>,
           UNCHANGED <<squeue, prsem>>,
           \A q \in Pid : kont[q].at \notin Inside /\ kont'[q].at \notin Inside
    PROVE  /\ prstate' \in [Pid -> States] /\ readylist' \in Seq([pid : Pid, key : Int])
           /\ currpid' \in Pid /\ preempt' \in 1 .. QUANTUM
           /\ sleepq' \in Seq([pid : Pid, key : Int]) /\ prhasmsg' \in [Pid -> BOOLEAN]
           /\ ReadyPart' /\ Turn' /\ SleepPart' /\ WaitPart'
           /\ \A q \in Pid : prstate'[q] = "FREE" => prstate[q] = "FREE"
           /\ \A q \in Pid : kont'[q] = kont[q] => Keeps(q)
<1>1. /\ currpid \in Pid /\ prstate \in [Pid -> States] /\ prhasmsg \in [Pid -> BOOLEAN]
      /\ prprio \in [Pid -> Int] /\ sleepq \in Seq(Entries(Pid)) /\ Once(sleepq)
  BY DEF IInv, TypeOK, Entries, SleepPart
<1>2. Sched(Now) /\ Now.st = prstate /\ Now.cur = currpid
  BY <1>1, NowSched DEF Now
<1>3. CASE UNCHANGED <<prhasmsg, sleepq, sched>>
  <2>1. Schedule(Now)
    BY <1>3 DEF Schedule, Now, sched
  <2>2. /\ prstate' \in [Pid -> States] /\ readylist' \in Seq([pid : Pid, key : Int])
        /\ currpid' \in Pid /\ preempt' \in 1 .. QUANTUM
        /\ ReadyPart' /\ Turn'
    BY <1>2, <2>1, Scheduled
  <2>3. SleepPart' /\ WaitPart'
    BY <1>3, SleepersStay, WaitersStay DEF IInv, sched
  <2>4. \A q \in Pid : kont'[q] = kont[q] => Keeps(q)
    BY <1>3 DEF Keeps, sched
  <2> QED
    BY <1>1, <1>3, <2>2, <2>3, <2>4 DEF Entries, sched
<1>4. CASE SendTo(p) /\ ~ UNCHANGED <<prhasmsg, sleepq, sched>>
  <2>1. /\ prhasmsg' = [prhasmsg EXCEPT ![p] = TRUE]
        /\ sleepq' = IF prstate[p] = "RECTIM" THEN Unsleep(sleepq, p) ELSE sleepq
        /\ Schedule(IF prstate[p] \in {"RECV", "RECTIM"} THEN Ready(Now, p) ELSE Now)
    BY <1>4 DEF SendTo
  <2>2. prhasmsg' \in [Pid -> BOOLEAN] /\ \A q \in Pid : prhasmsg[q] => prhasmsg'[q]
    BY <1>1, <2>1
  <2>3. prhasmsg'[p]
    BY <1>1, <2>1
  <2> DEFINE r == IF prstate[p] \in {"RECV", "RECTIM"} THEN Ready(Now, p) ELSE Now
             woken == IF prstate[p] \in {"RECV", "RECTIM"} THEN {p} ELSE {}
  <2>4. Settled(Now, woken, r)
    <3>1. CASE prstate[p] \in {"RECV", "RECTIM"}
      <4>1. Now.st[p] \in Blocked
        BY <1>2, <3>1 DEF Blocked
      <4> QED
        BY <1>1, <1>2, <3>1, <4>1, ReadySettles
    <3>2. CASE prstate[p] \notin {"RECV", "RECTIM"}
      BY <1>2, <3>2 DEF Settled
    <3> QED
      BY <3>1, <3>2
  <2>5. Schedule(r)
    BY <2>1
  <2> HIDE DEF r
  <2>6. /\ prstate' \in [Pid -> States] /\ readylist' \in Seq([pid : Pid, key : Int])
        /\ currpid' \in Pid /\ preempt' \in 1 .. QUANTUM
        /\ ReadyPart' /\ Turn'
    BY <2>4, <2>5, Scheduled DEF Settled
  <2>7. \A q \in Pid : IF q \in woken \/ prstate[q] \in {"READY", "CURR"}
                       THEN prstate'[q] \in {"READY", "CURR"}
                       ELSE prstate'[q] = prstate[q]
    BY <1>2, <2>4, <2>5 DEF Settled, Schedule
  <2>8. sleepq' \in Seq(Entries(Pid)) /\ SleepPart'
    <3>1. CASE prstate[p] = "RECTIM"
      <4>1. p \in PidsOf(sleepq)
        BY <3>1 DEF IInv, SleepPart
      <4>2. /\ sleepq' \in Seq(Entries(Pid)) /\ Once(sleepq')
            /\ PidsOf(sleepq') = PidsOf(sleepq) \ {p}
        <5>1. sleepq' = Unsleep(sleepq, p)
          BY <2>1, <3>1
        <5>2. LET new == Unsleep(sleepq, p)
              IN  /\ new \in Seq(Entries(Pid)) /\ PidsOf(new) = PidsOf(sleepq) \ {p}
                  /\ Once(new)
          BY <1>1, <4>1, UnsleepPids
        <5> QED
          BY <5>1, <5>2
      <4>3. \A q \in Pid : q # p => (prstate'[q] \in {"SLEEP", "RECTIM"}
                                        <=> prstate[q] \in {"SLEEP", "RECTIM"})
        BY <2>7
      <4>4. prstate'[p] \in {"READY", "CURR"}
        BY <2>7, <3>1
      <4> QED
        BY <4>2, <4>3, <4>4 DEF IInv, SleepPart
    <3>2. CASE prstate[p] # "RECTIM"
      <4>1. sleepq' = sleepq
        BY <2>1, <3>2
      <4> QED
        BY <1>1, <2>7, <3>2, <4>1, SleepersStay DEF IInv
    <3> QED
      BY <3>1, <3>2
  <2>9. WaitPart'
    BY <2>7, WaitersStay DEF IInv
  <2>10. \A q \in Pid : prstate'[q] = "FREE" => prstate[q] = "FREE"
    BY <2>7
  <2>11. \A q \in Pid : kont'[q] = kont[q] => Keeps(q)
    BY <2>2, <2>3, <2>7 DEF Keeps
  <2> QED
    BY <2>2, <2>6, <2>8, <2>9, <2>10, <2>11 DEF Entries
<1> QED
  BY <1>3, <1>4

LEMMA SendStep == ASSUME IInv, NEW p \in Pid, Send(p) PROVE IInv'
<1>1. /\ prstate[currpid] = "CURR" /\ kont[NULLPROC] = User
      /\ \A q \in Pid : kont[q].at \notin Inside
  BY Calling DEF Send
<1>2. SendTo(p) /\ UNCHANGED <<prprio, sems, ids, prcount, kont, inclk, halted>>
  BY DEF Send
<1>3. /\ prstate' \in [Pid -> States] /\ readylist' \in Seq([pid : Pid, key : Int])
      /\ currpid' \in Pid /\ preempt' \in 1 .. QUANTUM
      /\ sleepq' \in Seq([pid : Pid, key : Int]) /\ prhasmsg' \in [Pid -> BOOLEAN]
      /\ ReadyPart' /\ Turn' /\ SleepPart' /\ WaitPart'
      /\ \A q \in Pid : kont'[q] = kont[q] => Keeps(q)
  BY <1>1, <1>2, SendSettles DEF sems
<1>4. TypeOK'
  BY <1>2, <1>3 DEF IInv, TypeOK, sems, ids
<1>5. CallPart'
  BY <1>1, <1>2, <1>3, CallsStay DEF IInv
<1>6. CountIsWaiters'
  BY <1>2, CountsStay DEF IInv, sems
<1> QED
  BY <1>3, <1>4, <1>5, <1>6 DEF IInv

LEMMA KillStep == ASSUME IInv, NEW p \in Pid, Kill(p) PROVE IInv'
<1>1. /\ prstate[currpid] = "CURR" /\ kont[NULLPROC] = User
      /\ currpid \in Pid /\ currpid # NULLPROC
      /\ \A q \in Pid : kont[q].at \notin Inside
  BY Calling DEF Kill, MayKill
<1>2. /\ p # NULLPROC /\ prcount' = prcount - 1
      /\ kont' = [kont EXCEPT ![currpid] = [at |-> "kill", arg |-> p]]
      /\ UNCHANGED <<prprio, sems, ids, inclk>>
  BY DEF Kill, Goto
<1>3. /\ SendTo(prparent[p]) \/ UNCHANGED <<prhasmsg, sleepq, sched>>
      /\ halted' = TRUE \/ halted' = halted
  BY DEF Kill
<1>4. prparent[p] \in Pid
  BY DEF IInv, TypeOK
<1>5. /\ kont' \in KontType /\ kont'[currpid] = [at |-> "kill", arg |-> p]
      /\ \A q \in Pid : q # currpid => kont'[q] = kont[q]
      /\ \A q \in Pid : kont'[q].at \notin Inside
      /\ kont'[NULLPROC] = User
  <2>1. "kill" \in Konts \ Inside
    BY DEF Konts, Inside
  <2> QED
    BY <1>1, <1>2, <2>1, GotoProps
<1>6. /\ prstate' \in [Pid -> States] /\ readylist' \in Seq([pid : Pid, key : Int])
      /\ currpid' \in Pid /\ preempt' \in 1 .. QUANTUM
      /\ sleepq' \in Seq([pid : Pid, key : Int]) /\ prhasmsg' \in [Pid -> BOOLEAN]
      /\ ReadyPart' /\ Turn' /\ SleepPart' /\ WaitPart'
      /\ \A q \in Pid : prstate'[q] = "FREE" => prstate[q] = "FREE"
      /\ \A q \in Pid : kont'[q] = kont[q] => Keeps(q)
  BY <1>1, <1>2, <1>3, <1>4, <1>5, SendSettles DEF sems
<1>7. TypeOK'
  <2>1. prcount \in Int /\ halted \in BOOLEAN
    BY DEF IInv, TypeOK
  <2>2. prcount' \in Int
    BY <1>2, <2>1
  <2>3. halted' \in BOOLEAN
    BY <1>3, <2>1, Zenon
  <2> QED
    BY <1>2, <1>5, <1>6, <2>2, <2>3 DEF IInv, TypeOK, sems, ids, KontType
<1>8. CallPart'
  <2>1. ASSUME NEW q \in Pid, q # currpid PROVE Keeps(q)
    BY <1>5, <1>6, <2>1
  <2>2. ASSUME NEW q \in Pid, q = currpid PROVE Progress(q)'
    BY <1>1, <1>2, <1>5, <1>6, <2>2 DEF Progress, Inside
  <2> QED
    BY <1>5, <2>1, <2>2, CallsStay DEF IInv
<1>9. CountIsWaiters'
  BY <1>2, CountsStay DEF IInv, sems
<1> QED
  BY <1>6, <1>7, <1>8, <1>9 DEF IInv

(* A victim leaves the semaphore it waits for.                             *)
LEMMA WaiterLeaves ==
    ASSUME IInv, NEW t \in Pid, prstate[t] = "WAIT",
           squeue' = [squeue EXCEPT ![prsem[t]] = RemoveFirst(@, t)],
           scount' = [scount EXCEPT ![prsem[t]] = @ + 1],
           sstate' = sstate, prsem' = prsem,
           prstate'[t] = "FREE", \A q \in Pid : q # t => prstate'[q] = prstate[q]
    PROVE  /\ squeue' \in [Sem -> Seq(Pid)] /\ scount' \in [Sem -> Int]
           /\ WaitPart' /\ CountIsWaiters'
<1> DEFINE s == prsem[t]
           old == squeue[s]
           new == RemoveFirst(old, t)
<1>1. s \in Sem /\ t \in Range(old)
  BY DEF IInv, WaitPart
<1>2. squeue \in [Sem -> Seq(Pid)] /\ scount \in [Sem -> Int] /\ IsInjective(old)
  BY <1>1 DEF IInv, WaitPart, TypeOK
<1>3. old \in Seq(Pid)
  BY <1>1, <1>2
<1>4. /\ new \in Seq(Pid) /\ Len(new) = Len(old) - 1 /\ IsInjective(new)
      /\ Range(new) = Range(old) \ {t}
  BY <1>1, <1>2, <1>3, RemoveFirstRange
<1>5. Len(old) \in Nat /\ scount[s] \in Int
  BY <1>1, <1>2, <1>3, LenProperties
<1>6. squeue' = [squeue EXCEPT ![s] = new] /\ scount' = [scount EXCEPT ![s] = scount[s] + 1]
  OBVIOUS
<1> HIDE DEF new
<1>7. /\ squeue' \in [Sem -> Seq(Pid)] /\ squeue'[s] = new
      /\ \A r \in Sem : r # s => squeue'[r] = squeue[r]
  BY <1>1, <1>2, <1>4, <1>6
<1>8. /\ scount' \in [Sem -> Int] /\ scount'[s] = scount[s] + 1
      /\ \A r \in Sem : r # s => scount'[r] = scount[r]
  BY <1>1, <1>2, <1>5, <1>6
<1>9. WaitPart'
  <2>1. ASSUME NEW r \in Sem PROVE IsInjective(squeue'[r])
    <3>1. CASE r = s
      BY <1>4, <1>7, <3>1
    <3>2. CASE r # s
      BY <1>7, <3>2 DEF IInv, WaitPart
    <3> QED
      BY <3>1, <3>2
  <2>2. ASSUME NEW p \in Pid, NEW r \in Sem
        PROVE  p \in Range(squeue'[r]) <=> prstate'[p] = "WAIT" /\ prsem'[p] = r
    <3>1. p \in Range(squeue[r]) <=> prstate[p] = "WAIT" /\ prsem[p] = r
      BY DEF IInv, WaitPart
    <3>2. CASE r = s
      BY <1>4, <1>7, <3>1, <3>2
    <3>3. CASE r # s
      <4>1. squeue'[r] = squeue[r]
        BY <1>7, <3>3
      <4> QED
        BY <3>1, <3>3, <4>1
    <3> QED
      BY <3>2, <3>3
  <2>3. \A p \in Pid : prstate'[p] = "WAIT" => prsem'[p] \in Sem
    BY DEF IInv, WaitPart
  <2> QED
    BY <2>1, <2>2, <2>3 DEF WaitPart
<1>10. CountIsWaiters'
  <2>1. Len(old) = IF Used(s) /\ scount[s] < 0 THEN -scount[s] ELSE 0
    BY <1>1 DEF IInv, CountIsWaiters
  <2>2. Len(old) # 0
    <3>1. old # <<>>
      BY <1>1 DEF Range
    <3> QED
      BY <1>3, <3>1, EmptySeq
  <2>3. Len(new) = IF Used(s) /\ scount[s] + 1 < 0 THEN -(scount[s] + 1) ELSE 0
    <3>1. Used(s) /\ scount[s] < 0 /\ Len(old) = -scount[s]
      BY <2>1, <2>2
    <3>2. Len(new) = -scount[s] - 1
      BY <1>4, <3>1
    <3> QED
      BY <1>5, <3>1, <3>2
  <2>4. \A r \in Sem : Used(r)' <=> Used(r)
    BY DEF Used
  <2>5. ASSUME NEW r \in Sem
        PROVE  Len(squeue'[r]) = IF Used(r)' /\ scount'[r] < 0 THEN -scount'[r] ELSE 0
    <3>1. CASE r = s
      BY <1>7, <1>8, <2>3, <2>4, <3>1
    <3>2. CASE r # s
      BY <1>7, <1>8, <2>4, <3>2 DEF IInv, CountIsWaiters
    <3> QED
      BY <3>1, <3>2
  <2> QED
    BY <2>5 DEF CountIsWaiters
<1> QED
  BY <1>7, <1>8, <1>9, <1>10

LEMMA KillRestStep == ASSUME IInv, KillRest PROVE IInv'
<1> DEFINE t == Target
<1>1. /\ currpid \in Pid /\ currpid # NULLPROC /\ kont[currpid].at = "kill"
      /\ prstate[currpid] = "CURR" /\ kont[NULLPROC] = User
      /\ t \in Pid /\ t # NULLPROC
      /\ \A q \in Pid : kont[q].at \notin Inside
  BY Continuing DEF KillRest, Progress, Target
<1>2. /\ kont' = [kont EXCEPT ![currpid] = User, ![t] = User]
      /\ inclk' = inclk \ {t}
      /\ UNCHANGED <<prprio, msgs, sstate, prsem, ids, prcount, halted>>
  BY DEF KillRest
<1>3. /\ t = currpid => /\ Schedule(Block("FREE"))
                        /\ UNCHANGED <<sleepq, squeue, scount>>
      /\ t # currpid => /\ prstate' = [prstate EXCEPT ![t] = "FREE"]
                        /\ LeaveLists(t)
                        /\ UNCHANGED <<currpid, preempt>>
  BY DEF KillRest
<1> HIDE DEF t
<1>4. /\ kont' \in KontType /\ kont'[currpid] = User /\ kont'[t] = User
      /\ \A q \in Pid : q # currpid /\ q # t => kont'[q] = kont[q]
  <2>1. kont \in KontType /\ User \in [at : Konts, arg : Pid]
    BY UserFacts DEF IInv, TypeOK, KontType
  <2> QED
    BY <1>1, <1>2, <2>1 DEF KontType
<1>5. kont'[NULLPROC] = User /\ \A q \in Pid : kont'[q].at \notin Inside
  <2>1. User.at \notin Inside
    BY UserFacts DEF Inside
  <2> QED
    BY <1>1, <1>4, <2>1, PidFacts
<1>6. inclk' \subseteq Pid
  BY <1>2 DEF IInv, TypeOK
<1>7. CASE t = currpid
  <2> DEFINE r == Block("FREE")
  <2>1. /\ Sched(r) /\ r.st[r.cur] = "CURR" /\ r.st[currpid] = "FREE"
        /\ \A q \in Pid \ {currpid} :
              IF prstate[q] \in {"READY", "CURR"} THEN r.st[q] \in {"READY", "CURR"}
              ELSE r.st[q] = prstate[q]
    BY <1>1, BlockSettles
  <2>2. Schedule(r)
    BY <1>3, <1>7
  <2> HIDE DEF r
  <2>3. /\ prstate' \in [Pid -> States] /\ readylist' \in Seq([pid : Pid, key : Int])
        /\ currpid' \in Pid /\ preempt' \in 1 .. QUANTUM
        /\ ReadyPart' /\ Turn'
    BY <1>5, <2>1, <2>2, Scheduled
  <2>4. /\ prstate'[currpid] = "FREE"
        /\ \A q \in Pid \ {currpid} :
              IF prstate[q] \in {"READY", "CURR"} THEN prstate'[q] \in {"READY", "CURR"}
              ELSE prstate'[q] = prstate[q]
    BY <2>1, <2>2 DEF Schedule
  <2>5. UNCHANGED <<sleepq, squeue, scount>>
    BY <1>3, <1>7
  <2>6. TypeOK'
    BY <1>2, <1>4, <1>6, <2>3, <2>5 DEF IInv, TypeOK, msgs, ids, KontType
  <2>7. SleepPart'
    BY <1>1, <2>4, <2>5, SleepersStay DEF IInv
  <2>8. WaitPart'
    BY <1>1, <1>2, <2>4, <2>5, WaitersStay DEF IInv
  <2>9. CallPart'
    <3>1. ASSUME NEW q \in Pid, q # currpid PROVE Keeps(q)
      BY <1>2, <1>4, <1>7, <2>4, <3>1 DEF Keeps, msgs
    <3> QED
      BY <1>4, <1>5, <3>1, CallsStay DEF IInv
  <2>10. CountIsWaiters'
    BY <1>2, <2>5, CountsStay DEF IInv
  <2> QED
    BY <2>3, <2>6, <2>7, <2>8, <2>9, <2>10 DEF IInv
<1>8. CASE t # currpid
  <2>1. /\ prstate' \in [Pid -> States] /\ prstate'[t] = "FREE"
        /\ \A q \in Pid : q # t => prstate'[q] = prstate[q]
    BY <1>1, <1>3, <1>8 DEF IInv, TypeOK, States
  <2>2. LeaveLists(t) /\ UNCHANGED <<currpid, preempt>>
    BY <1>3, <1>8
  <2>3. \A q \in Pid : ~Moving(q) /\ ~Moving(q)'
    BY <1>1, <1>5, <2>2 DEF Moving, Inside
  <2>4. readylist' \in Seq(Entries(Pid)) /\ ReadyPart'
    <3>1. readylist \in Seq(Entries(Pid)) /\ Once(readylist)
      BY DEF IInv, TypeOK, ReadyPart, Entries
    <3>2. CASE prstate[t] = "READY"
      <4>1. t \in PidsOf(readylist)
        BY <1>1, <2>3, <3>2 DEF IInv, ReadyPart
      <4>2. LET new == Getitem(readylist, t)
            IN  /\ new \in Seq(Entries(Pid)) /\ PidsOf(new) = PidsOf(readylist) \ {t}
                /\ Once(new)
        BY <3>1, <4>1, GetitemPids
      <4>3. readylist' = Getitem(readylist, t)
        BY <2>2, <3>2 DEF LeaveLists
      <4>4. /\ readylist' \in Seq(Entries(Pid)) /\ Once(readylist')
            /\ PidsOf(readylist') = PidsOf(readylist) \ {t}
        BY <4>2, <4>3
      <4> QED
        BY <2>1, <2>3, <4>4 DEF IInv, ReadyPart
    <3>3. CASE prstate[t] # "READY"
      <4>1. readylist' = readylist
        BY <2>2, <3>3 DEF LeaveLists
      <4> QED
        BY <2>1, <2>3, <3>1, <3>3, <4>1 DEF IInv, ReadyPart
    <3> QED
      BY <3>2, <3>3
  <2>5. sleepq' \in Seq(Entries(Pid)) /\ SleepPart'
    <3>1. sleepq \in Seq(Entries(Pid)) /\ Once(sleepq)
      BY DEF IInv, TypeOK, SleepPart, Entries
    <3>2. CASE prstate[t] \in {"SLEEP", "RECTIM"}
      <4>1. t \in PidsOf(sleepq)
        BY <1>1, <3>2 DEF IInv, SleepPart
      <4>2. LET new == Unsleep(sleepq, t)
            IN  /\ new \in Seq(Entries(Pid)) /\ PidsOf(new) = PidsOf(sleepq) \ {t}
                /\ Once(new)
        BY <3>1, <4>1, UnsleepPids
      <4>3. sleepq' = Unsleep(sleepq, t)
        BY <2>2, <3>2 DEF LeaveLists
      <4>4. /\ sleepq' \in Seq(Entries(Pid)) /\ Once(sleepq')
            /\ PidsOf(sleepq') = PidsOf(sleepq) \ {t}
        BY <4>2, <4>3
      <4> QED
        BY <2>1, <4>4 DEF IInv, SleepPart
    <3>3. CASE prstate[t] \notin {"SLEEP", "RECTIM"}
      <4>1. sleepq' = sleepq
        BY <2>2, <3>3 DEF LeaveLists
      <4> QED
        BY <2>1, <3>1, <3>3, <4>1, SleepersStay DEF IInv
    <3> QED
      BY <3>2, <3>3
  <2>6. /\ squeue' \in [Sem -> Seq(Pid)] /\ scount' \in [Sem -> Int]
        /\ WaitPart' /\ CountIsWaiters'
    <3>1. CASE prstate[t] = "WAIT"
      <4>1. /\ squeue' = [squeue EXCEPT ![prsem[t]] = RemoveFirst(@, t)]
            /\ scount' = [scount EXCEPT ![prsem[t]] = @ + 1]
            /\ sstate' = sstate /\ prsem' = prsem
        BY <1>2, <2>2, <3>1 DEF LeaveLists
      <4> QED
        BY <1>1, <2>1, <3>1, <4>1, WaiterLeaves
    <3>2. CASE prstate[t] # "WAIT"
      <4>1. UNCHANGED <<squeue, scount, sstate, prsem>>
        BY <1>2, <2>2, <3>2 DEF LeaveLists
      <4>2. WaitPart'
        BY <2>1, <3>2, <4>1, WaitersStay DEF IInv
      <4>3. CountIsWaiters'
        BY <4>1, CountsStay DEF IInv
      <4> QED
        BY <4>1, <4>2, <4>3 DEF IInv, TypeOK
    <3> QED
      BY <3>1, <3>2
  <2>7. TypeOK'
    BY <1>2, <1>4, <1>6, <2>1, <2>2, <2>4, <2>5, <2>6
    DEF IInv, TypeOK, msgs, ids, KontType, Entries
  <2>8. Turn'
    BY <1>1, <1>8, <2>1, <2>2, PidFacts DEF IInv, Turn
  <2>9. CallPart'
    <3>1. ASSUME NEW q \in Pid, q # currpid, q # t PROVE Keeps(q)
      BY <1>2, <1>4, <2>1, <3>1 DEF Keeps, msgs
    <3> QED
      BY <1>4, <1>5, <3>1, CallsStay DEF IInv
  <2> QED
    BY <2>4, <2>5, <2>6, <2>7, <2>8, <2>9 DEF IInv
<1> QED
  BY <1>7, <1>8

--------------------------------------------------------------------------------
(* Semaphores.                                                             *)

LEMMA SemFacts ==
    ASSUME IInv, NEW s \in Sem
    PROVE  /\ squeue \in [Sem -> Seq(Pid)] /\ squeue[s] \in Seq(Pid)
           /\ IsInjective(squeue[s]) /\ Len(squeue[s]) \in Nat
           /\ scount \in [Sem -> Int] /\ scount[s] \in Int
           /\ sstate \in [Sem -> {"FREE", "USED"}]
           /\ Len(squeue[s]) = IF Used(s) /\ scount[s] < 0 THEN -scount[s] ELSE 0
           /\ \A p \in Range(squeue[s]) : p \in Pid /\ prstate[p] = "WAIT"
<1>1. squeue \in [Sem -> Seq(Pid)] /\ squeue[s] \in Seq(Pid)
  BY DEF IInv, TypeOK
<1>2. Len(squeue[s]) \in Nat
  BY <1>1, LenProperties
<1>3. \A p \in Range(squeue[s]) : p \in Pid
  BY <1>1, ElementOfSeq, LenProperties DEF Range
<1>4. \A p \in Range(squeue[s]) : prstate[p] = "WAIT"
  BY <1>3 DEF IInv, WaitPart
<1>5. Len(squeue[s]) = IF Used(s) /\ scount[s] < 0 THEN -scount[s] ELSE 0
  BY DEF IInv, CountIsWaiters
<1>6. IsInjective(squeue[s])
  BY DEF IInv, WaitPart
<1>7. /\ scount \in [Sem -> Int] /\ scount[s] \in Int
      /\ sstate \in [Sem -> {"FREE", "USED"}]
  BY DEF IInv, TypeOK
<1> QED
  BY <1>1, <1>2, <1>3, <1>4, <1>5, <1>6, <1>7

(* One semaphore's count and queue change together.                        *)
LEMMA CountsMove ==
    ASSUME IInv, NEW s \in Sem, NEW rest \in Seq(Pid), NEW c \in Int,
           NEW u \in {"FREE", "USED"},
           squeue' = [squeue EXCEPT ![s] = rest], scount' = [scount EXCEPT ![s] = c],
           sstate' = [sstate EXCEPT ![s] = u],
           Len(rest) = IF u = "USED" /\ c < 0 THEN -c ELSE 0
    PROVE  /\ squeue' \in [Sem -> Seq(Pid)] /\ scount' \in [Sem -> Int]
           /\ sstate' \in [Sem -> {"FREE", "USED"}]
           /\ CountIsWaiters'
<1>1. /\ squeue \in [Sem -> Seq(Pid)] /\ scount \in [Sem -> Int]
      /\ sstate \in [Sem -> {"FREE", "USED"}]
  BY DEF IInv, TypeOK
<1>2. /\ squeue' \in [Sem -> Seq(Pid)] /\ squeue'[s] = rest
      /\ \A r \in Sem : r # s => squeue'[r] = squeue[r]
  BY <1>1
<1>3. /\ scount' \in [Sem -> Int] /\ scount'[s] = c
      /\ \A r \in Sem : r # s => scount'[r] = scount[r]
  BY <1>1
<1>4. /\ sstate' \in [Sem -> {"FREE", "USED"}] /\ sstate'[s] = u
      /\ \A r \in Sem : r # s => sstate'[r] = sstate[r]
  BY <1>1
<1>5. ASSUME NEW r \in Sem
      PROVE  Len(squeue'[r]) = IF sstate'[r] = "USED" /\ scount'[r] < 0
                               THEN -scount'[r] ELSE 0
  <2>1. CASE r = s
    BY <1>2, <1>3, <1>4, <2>1
  <2>2. CASE r # s
    BY <1>2, <1>3, <1>4, <2>2 DEF IInv, CountIsWaiters, Used
  <2> QED
    BY <2>1, <2>2
<1> QED
  BY <1>2, <1>3, <1>4, <1>5 DEF CountIsWaiters, Used

LEMMA SemcreateStep ==
    ASSUME IInv, NEW count \in Counts, Semcreate(count)
    PROVE  IInv'
<1> DEFINE f == Newsem
           far(s) == (s - nextsem) % NSEM
           T == {far(s) : s \in {r \in Sem : ~Used(r)}}
<1>1. count \in Nat
  BY KernelAssumption
<1>2. f \in Sem /\ ~Used(f)
  <2>1. /\ \E s \in Sem : ~Used(s)
    BY DEF Semcreate
  <2>2. NSEM \in Nat \ {0} /\ nextsem \in Int /\ Sem \subseteq Int
    BY <2>1, KernelAssumption DEF IInv, TypeOK, Sem
  <2>3. \A s \in Sem : far(s) \in Nat
    BY <2>2
  <2>4. T \subseteq Nat /\ T # {}
    BY <2>1, <2>3
  <2>5. PICK m \in T : \A x \in T : m <= x
    <3> HIDE DEF T
    <3> QED
      BY <2>4, Least
  <2>6. PICK s \in Sem : ~Used(s) /\ far(s) = m
    BY <2>5
  <2>7. \A r \in Sem : ~Used(r) => far(s) <= far(r)
    BY <2>5, <2>6
  <2>8. \E s_1 \in Sem : ~Used(s_1) /\ \A r \in Sem : ~Used(r) => far(s_1) <= far(r)
    BY <2>6, <2>7
  <2> QED
    BY <2>8 DEF Newsem
<1>3. /\ sstate' = [sstate EXCEPT ![f] = "USED"]
      /\ scount' = [scount EXCEPT ![f] = count]
      /\ nextsem' = (f + 1) % NSEM
      /\ UNCHANGED <<sched, prprio, msgs, sleepq, squeue, prsem, nextpid, prparent,
                     prcount, kont, inclk, halted>>
  BY DEF Semcreate
<1> HIDE DEF f
<1>4. /\ squeue[f] \in Seq(Pid) /\ Len(squeue[f]) = 0
  BY <1>2, SemFacts
<1>5. /\ scount' \in [Sem -> Int] /\ sstate' \in [Sem -> {"FREE", "USED"}]
      /\ CountIsWaiters'
  <2> DEFINE q == squeue[f]
             u == "USED"
  <2>1. squeue' = [squeue EXCEPT ![f] = q] /\ sstate' = [sstate EXCEPT ![f] = u]
    BY <1>2, <1>3, SemFacts
  <2>2. Len(q) = IF u = "USED" /\ count < 0 THEN -count ELSE 0
    BY <1>1, <1>4
  <2>3. q \in Seq(Pid) /\ u \in {"FREE", "USED"} /\ count \in Int
    BY <1>1, <1>4
  <2> HIDE DEF q, u
  <2> QED
    BY <1>2, <1>3, <2>1, <2>2, <2>3, CountsMove
<1>6. nextsem' \in Nat
  <2>1. f \in Int /\ NSEM \in Nat \ {0}
    BY <1>2, KernelAssumption DEF Sem
  <2> QED
    BY <1>3, <2>1
<1>7. TypeOK'
  BY <1>3, <1>5, <1>6 DEF IInv, TypeOK, sched, msgs
<1>8. ReadyPart' /\ SleepPart' /\ WaitPart' /\ Turn'
  BY <1>3 DEF IInv, ReadyPart, SleepPart, WaitPart, Turn, Moving, sched
<1>9. CallPart'
  BY <1>3 DEF IInv, CallPart, Progress, sched, msgs
<1> QED
  BY <1>5, <1>7, <1>8, <1>9 DEF IInv

(* Waiters of s leave its queue and are ready.                             *)
LEMMA WaitersLeave ==
    ASSUME IInv, \A q \in Pid : kont[q].at \notin Inside, NEW s \in Sem,
           NEW woken \in SUBSET Range(squeue[s]), NEW rest \in Seq(Pid),
           IsInjective(rest), Range(rest) = Range(squeue[s]) \ woken,
           NEW r, Settled(Now, woken, r), Schedule(r),
           squeue' = [squeue EXCEPT ![s] = rest],
           UNCHANGED <<prsem, msgs, sleepq, kont>>
    PROVE  /\ prstate' \in [Pid -> States] /\ readylist' \in Seq([pid : Pid, key : Int])
           /\ currpid' \in Pid /\ preempt' \in 1 .. QUANTUM
           /\ ReadyPart' /\ Turn' /\ SleepPart' /\ WaitPart' /\ CallPart'
           /\ Wakes
<1>1. /\ squeue \in [Sem -> Seq(Pid)]
      /\ \A p \in Range(squeue[s]) : p \in Pid /\ prstate[p] = "WAIT" /\ prsem[p] = s
  BY SemFacts DEF IInv, WaitPart
<1>2. /\ prstate' \in [Pid -> States] /\ readylist' \in Seq([pid : Pid, key : Int])
      /\ currpid' \in Pid /\ preempt' \in 1 .. QUANTUM
      /\ ReadyPart' /\ Turn'
  BY Scheduled DEF Settled
<1>3. \A p \in Pid : IF p \in woken \/ prstate[p] \in {"READY", "CURR"}
                     THEN prstate'[p] \in {"READY", "CURR"}
                     ELSE prstate'[p] = prstate[p]
  BY DEF Settled, Schedule, Now
<1>4. SleepPart'
  BY <1>1, <1>3, SleepersStay DEF IInv
<1>5. WaitPart'
  <2>1. /\ squeue'[s] = rest
        /\ \A x \in Sem : x # s => squeue'[x] = squeue[x]
    BY <1>1
  <2>2. ASSUME NEW x \in Sem PROVE IsInjective(squeue'[x])
    <3>1. CASE x = s
      BY <2>1, <3>1
    <3>2. CASE x # s
      BY <2>1, <3>2 DEF IInv, WaitPart
    <3> QED
      BY <3>1, <3>2
  <2>3. ASSUME NEW p \in Pid, NEW x \in Sem
        PROVE  p \in Range(squeue'[x]) <=> prstate'[p] = "WAIT" /\ prsem'[p] = x
    <3>1. p \in Range(squeue[x]) <=> prstate[p] = "WAIT" /\ prsem[p] = x
      BY DEF IInv, WaitPart
    <3>2. CASE x = s
      BY <1>3, <2>1, <3>1, <3>2
    <3>3. CASE x # s
      <4>1. squeue'[x] = squeue[x]
        BY <2>1, <3>3
      <4>2. p \in woken => prsem[p] = s
        BY <1>1
      <4> QED
        BY <1>3, <3>1, <3>3, <4>1, <4>2
    <3> QED
      BY <3>2, <3>3
  <2>4. \A p \in Pid : prstate'[p] = "WAIT" => prsem'[p] \in Sem
    BY <1>3 DEF IInv, WaitPart
  <2> QED
    BY <2>2, <2>3, <2>4 DEF WaitPart
<1>6. CallPart'
  <2>1. \A p \in Pid : Keeps(p)
    BY <1>1, <1>3 DEF Keeps, msgs
  <2>2. kont'[NULLPROC] = User
    BY DEF IInv, CallPart
  <2> QED
    BY <2>1, <2>2, CallsStay DEF IInv
<1>7. Wakes
  BY <1>1, <1>3 DEF Wakes
<1> QED
  BY <1>2, <1>4, <1>5, <1>6, <1>7

(* The first n waiters leave.                                              *)
LEMMA ReleaseSettles ==
    ASSUME IInv, prstate[currpid] = "CURR", \A q \in Pid : kont[q].at \notin Inside,
           NEW s \in Sem, NEW n \in 0 .. Len(squeue[s]), Release(s, n),
           UNCHANGED <<prsem, msgs, sleepq, kont>>
    PROVE  /\ prstate' \in [Pid -> States] /\ readylist' \in Seq([pid : Pid, key : Int])
           /\ currpid' \in Pid /\ preempt' \in 1 .. QUANTUM
           /\ ReadyPart' /\ Turn' /\ SleepPart' /\ WaitPart' /\ CallPart' /\ Wakes
           /\ \E rest \in Seq(Pid) : /\ Len(rest) = Len(squeue[s]) - n
                                     /\ squeue' = [squeue EXCEPT ![s] = rest]
<1> DEFINE q == squeue[s]
           front == SubSeq(q, 1, n)
           rest == SubSeq(q, n + 1, Len(q))
           r == ReadyAll(Now, front)
<1>1. /\ q \in Seq(Pid) /\ IsInjective(q) /\ Len(q) \in Nat
      /\ \A p \in Range(q) : p \in Pid /\ prstate[p] = "WAIT"
  BY SemFacts
<1>2. /\ front \in Seq(Pid) /\ Len(front) = n /\ IsInjective(front)
      /\ \A i \in 1 .. n : front[i] = q[i]
      /\ rest \in Seq(Pid) /\ Len(rest) = Len(q) - n /\ IsInjective(rest)
      /\ Range(front) = {q[i] : i \in 1 .. n}
      /\ Range(rest) = Range(q) \ Range(front)
  <2>1. n \in 0 .. Len(q)
    OBVIOUS
  <2> HIDE DEF q
  <2>2. /\ front \in Seq(Pid) /\ Len(front) = n /\ IsInjective(front)
        /\ \A i \in 1 .. n : front[i] = q[i]
    BY <1>1, <2>1, SplitRange
  <2>3. rest \in Seq(Pid) /\ Len(rest) = Len(q) - n /\ IsInjective(rest)
    BY <1>1, <2>1, SplitRange
  <2>4. Range(front) = {q[i] : i \in 1 .. n}
    BY <1>1, <2>1, SplitRange
  <2>5. Range(rest) = Range(q) \ Range(front)
    BY <1>1, <2>1, SplitRange
  <2> QED
    BY <2>2, <2>3, <2>4, <2>5
<1>3. Range(front) \in SUBSET Range(q)
  BY <1>1, <1>2, LenProperties DEF Range
<1>4. squeue' = [squeue EXCEPT ![s] = rest] /\ Schedule(r)
  BY DEF Release
<1> HIDE DEF front, rest
<1>5. Sched(Now) /\ Now.st = prstate /\ Now.cur = currpid /\ prprio \in [Pid -> Int]
  BY NowSched DEF Now, IInv, TypeOK
<1>6. Settled(Now, Range(front), r)
  <2>1. CASE front = <<>>
    <3>1. r = Now
      BY <2>1, ReadyNone
    <3>2. Range(front) = {}
      BY <1>2, <2>1
    <3> QED
      BY <1>5, <3>1, <3>2 DEF Settled
  <2>2. CASE front # <<>>
    <3>1. \A i \in 1 .. Len(front) : Now.st[front[i]] \in Blocked
      <4>1. \A i \in 1 .. n : front[i] \in Range(q)
        BY <1>2, <1>3
      <4> QED
        BY <1>1, <1>2, <1>5, <4>1 DEF Blocked
    <3> QED
      BY <1>2, <1>5, <2>2, <3>1, ReadyAllSettles
  <2> QED
    BY <2>1, <2>2
<1> HIDE DEF r
<1>7. /\ prstate' \in [Pid -> States] /\ readylist' \in Seq([pid : Pid, key : Int])
      /\ currpid' \in Pid /\ preempt' \in 1 .. QUANTUM
      /\ ReadyPart' /\ Turn' /\ SleepPart' /\ WaitPart' /\ CallPart' /\ Wakes
  BY <1>2, <1>3, <1>4, <1>6, WaitersLeave
<1> QED
  BY <1>2, <1>4, <1>7

LEMMA WaitStep == ASSUME IInv, NEW s \in Sem, Wait(s) PROVE IInv'
<1>1. /\ currpid \in Pid /\ currpid # NULLPROC /\ prstate[currpid] = "CURR"
      /\ kont[NULLPROC] = User
      /\ \A q \in Pid : kont[q].at \notin Inside
  BY Calling DEF Wait
<1>2. /\ scount' = [scount EXCEPT ![s] = scount[s] - 1] /\ Used(s)
      /\ UNCHANGED <<sstate, prprio, msgs, sleepq, ids, prcount, kont, inclk, halted>>
  BY DEF Wait
<1>3. /\ squeue \in [Sem -> Seq(Pid)] /\ squeue[s] \in Seq(Pid)
      /\ IsInjective(squeue[s]) /\ Len(squeue[s]) \in Nat
      /\ scount \in [Sem -> Int] /\ scount[s] \in Int
      /\ sstate \in [Sem -> {"FREE", "USED"}]
      /\ Len(squeue[s]) = IF scount[s] < 0 THEN -scount[s] ELSE 0
  BY <1>2, SemFacts
<1>4. scount'[s] = scount[s] - 1
  BY <1>2, <1>3
<1>5. sstate' = [sstate EXCEPT ![s] = "USED"]
  BY <1>2, <1>3 DEF Used
<1>6. CASE scount[s] - 1 < 0
  <2> DEFINE r == Block("WAIT")
             new == Append(squeue[s], currpid)
  <2>1. /\ prsem' = [prsem EXCEPT ![currpid] = s]
        /\ squeue' = [squeue EXCEPT ![s] = new]
        /\ Schedule(r)
    BY <1>4, <1>6 DEF Wait
  <2>2. /\ Sched(r) /\ r.st[r.cur] = "CURR" /\ r.st[currpid] = "WAIT"
        /\ \A q \in Pid \ {currpid} :
              IF prstate[q] \in {"READY", "CURR"} THEN r.st[q] \in {"READY", "CURR"}
              ELSE r.st[q] = prstate[q]
    BY <1>1, BlockSettles DEF Blocked
  <2>3. /\ new \in Seq(Pid) /\ Len(new) = Len(squeue[s]) + 1 /\ IsInjective(new)
        /\ Range(new) = Range(squeue[s]) \cup {currpid}
    <3>1. currpid \notin Range(squeue[s])
      BY <1>1, SemFacts
    <3> QED
      BY <1>1, <1>3, <3>1, AppendRange
  <2> HIDE DEF r, new
  <2>4. /\ prstate' \in [Pid -> States] /\ readylist' \in Seq([pid : Pid, key : Int])
        /\ currpid' \in Pid /\ preempt' \in 1 .. QUANTUM
        /\ ReadyPart' /\ Turn'
    BY <1>1, <1>2, <2>1, <2>2, Scheduled
  <2>5. /\ prstate'[currpid] = "WAIT"
        /\ \A q \in Pid \ {currpid} :
              IF prstate[q] \in {"READY", "CURR"} THEN prstate'[q] \in {"READY", "CURR"}
              ELSE prstate'[q] = prstate[q]
    BY <2>1, <2>2 DEF Schedule
  <2>6. /\ squeue' \in [Sem -> Seq(Pid)] /\ scount' \in [Sem -> Int]
        /\ sstate' \in [Sem -> {"FREE", "USED"}]
        /\ CountIsWaiters'
    <3> DEFINE c == scount[s] - 1
               u == "USED"
    <3>1. Len(new) = IF u = "USED" /\ c < 0 THEN -c ELSE 0
      BY <1>3, <1>6, <2>3
    <3>2. scount' = [scount EXCEPT ![s] = c] /\ sstate' = [sstate EXCEPT ![s] = u]
      BY <1>2, <1>5
    <3>4. c \in Int /\ u \in {"FREE", "USED"}
      BY <1>3
    <3> HIDE DEF c, u
    <3> QED
      BY <2>1, <2>3, <3>1, <3>2, <3>4, CountsMove
  <2>7. /\ prsem' \in [Pid -> Int] /\ prsem'[currpid] = s
        /\ \A q \in Pid : q # currpid => prsem'[q] = prsem[q]
    <3>1. prsem \in [Pid -> Int] /\ s \in Int
      BY DEF IInv, TypeOK, Sem
    <3> QED
      BY <1>1, <2>1, <3>1
  <2>8. TypeOK'
    BY <1>2, <2>4, <2>6, <2>7 DEF IInv, TypeOK, msgs, ids
  <2>9. SleepPart'
    BY <1>1, <1>2, <2>5, SleepersStay DEF IInv
  <2>10. WaitPart'
    <3>1. /\ squeue'[s] = new
          /\ \A x \in Sem : x # s => squeue'[x] = squeue[x]
      BY <1>3, <2>1
    <3>2. ASSUME NEW x \in Sem PROVE IsInjective(squeue'[x])
      <4>1. CASE x = s
        BY <2>3, <3>1, <4>1
      <4>2. CASE x # s
        BY <3>1, <4>2 DEF IInv, WaitPart
      <4> QED
        BY <4>1, <4>2
    <3>3. ASSUME NEW p \in Pid, NEW x \in Sem
          PROVE  p \in Range(squeue'[x]) <=> prstate'[p] = "WAIT" /\ prsem'[p] = x
      <4>1. p \in Range(squeue[x]) <=> prstate[p] = "WAIT" /\ prsem[p] = x
        BY DEF IInv, WaitPart
      <4>2. p \in Range(squeue'[x]) <=> p \in Range(squeue[x]) \/ (x = s /\ p = currpid)
        BY <2>3, <3>1
      <4>3. CASE p = currpid
        BY <1>1, <2>5, <2>7, <4>1, <4>2, <4>3
      <4>4. CASE p # currpid
        BY <2>5, <2>7, <4>1, <4>2, <4>4
      <4> QED
        BY <4>3, <4>4
    <3>4. \A p \in Pid : prstate'[p] = "WAIT" => prsem'[p] \in Sem
      BY <2>5, <2>7 DEF IInv, WaitPart
    <3> QED
      BY <3>2, <3>3, <3>4 DEF WaitPart
  <2>11. CallPart'
    <3>1. \A q \in Pid : Keeps(q)
      BY <1>1, <1>2, <2>5 DEF Keeps, msgs
    <3> QED
      BY <1>1, <1>2, <3>1, CallsStay DEF IInv
  <2> QED
    BY <2>4, <2>6, <2>8, <2>9, <2>10, <2>11 DEF IInv
<1>7. CASE ~(scount[s] - 1 < 0)
  <2>1. UNCHANGED <<prsem, squeue, sched>>
    BY <1>4, <1>7 DEF Wait
  <2>2. /\ scount' \in [Sem -> Int] /\ sstate' \in [Sem -> {"FREE", "USED"}]
        /\ CountIsWaiters'
    <3> DEFINE c == scount[s] - 1
               u == "USED"
               q == squeue[s]
    <3>1. Len(q) = IF u = "USED" /\ c < 0 THEN -c ELSE 0
      BY <1>3, <1>7
    <3>2. scount' = [scount EXCEPT ![s] = c] /\ sstate' = [sstate EXCEPT ![s] = u]
      BY <1>2, <1>5
    <3>4. c \in Int /\ u \in {"FREE", "USED"}
      BY <1>3
    <3>3. squeue' = [squeue EXCEPT ![s] = q] /\ q \in Seq(Pid)
      BY <1>3, <2>1
    <3> HIDE DEF c, u, q
    <3> QED
      BY <3>1, <3>2, <3>3, <3>4, CountsMove
  <2>3. TypeOK'
    BY <1>2, <2>1, <2>2 DEF IInv, TypeOK, msgs, ids, sched
  <2>4. ReadyPart' /\ SleepPart' /\ WaitPart' /\ Turn'
    BY <1>2, <2>1 DEF IInv, ReadyPart, SleepPart, WaitPart, Turn, Moving, sched
  <2>5. CallPart'
    BY <1>2, <2>1 DEF IInv, CallPart, Progress, sched, msgs
  <2> QED
    BY <2>2, <2>3, <2>4, <2>5 DEF IInv
<1> QED
  BY <1>6, <1>7

(* A semaphore after n of its waiters have left and its count is c.        *)
LEMMA ReleaseStep ==
    ASSUME IInv, prstate[currpid] = "CURR", \A q \in Pid : kont[q].at \notin Inside,
           NEW s \in Sem, NEW n \in 0 .. Len(squeue[s]), Release(s, n),
           NEW c \in Int, NEW u \in {"FREE", "USED"},
           scount' = [scount EXCEPT ![s] = c], sstate' = [sstate EXCEPT ![s] = u],
           Len(squeue[s]) - n = IF u = "USED" /\ c < 0 THEN -c ELSE 0,
           UNCHANGED <<prsem, prprio, msgs, sleepq, ids, prcount, kont, inclk, halted>>
    PROVE  IInv' /\ Wakes
<1>1. /\ prstate' \in [Pid -> States] /\ readylist' \in Seq([pid : Pid, key : Int])
      /\ currpid' \in Pid /\ preempt' \in 1 .. QUANTUM
      /\ ReadyPart' /\ Turn' /\ SleepPart' /\ WaitPart' /\ CallPart' /\ Wakes
      /\ \E rest \in Seq(Pid) : /\ Len(rest) = Len(squeue[s]) - n
                                /\ squeue' = [squeue EXCEPT ![s] = rest]
  BY ReleaseSettles
<1>2. PICK rest \in Seq(Pid) : /\ Len(rest) = Len(squeue[s]) - n
                               /\ squeue' = [squeue EXCEPT ![s] = rest]
  BY <1>1
<1>3. Len(rest) = IF u = "USED" /\ c < 0 THEN -c ELSE 0
  BY <1>2
<1>4. /\ squeue' \in [Sem -> Seq(Pid)] /\ scount' \in [Sem -> Int]
      /\ sstate' \in [Sem -> {"FREE", "USED"}]
      /\ CountIsWaiters'
  BY <1>2, <1>3, CountsMove
<1>5. TypeOK'
  BY <1>1, <1>4 DEF IInv, TypeOK, msgs, ids
<1> QED
  BY <1>1, <1>4, <1>5 DEF IInv

LEMMA SignalnStep ==
    ASSUME IInv, NEW s \in Sem, NEW count \in Counts, Signaln(s, count)
    PROVE  IInv' /\ Wakes
<1> DEFINE n == IF scount[s] < 0 THEN Lesser(count, -scount[s]) ELSE 0
           c == scount[s] + count
           u == "USED"
<1>1. /\ prstate[currpid] = "CURR"
      /\ \A q \in Pid : kont[q].at \notin Inside
  BY Calling DEF Signaln
<1>2. /\ Used(s) /\ scount' = [scount EXCEPT ![s] = scount[s] + count]
      /\ Release(s, n)
      /\ UNCHANGED <<sstate, prsem, prprio, msgs, sleepq, ids, prcount, kont, inclk, halted>>
  BY DEF Signaln
<1>3. /\ scount[s] \in Int /\ sstate \in [Sem -> {"FREE", "USED"}]
      /\ Len(squeue[s]) = IF scount[s] < 0 THEN -scount[s] ELSE 0
      /\ count \in Nat
  BY <1>2, SemFacts, KernelAssumption
<1>4. /\ n \in 0 .. Len(squeue[s])
      /\ Len(squeue[s]) - n = IF u = "USED" /\ c < 0 THEN -c ELSE 0
  BY <1>3 DEF Lesser
<1>5. /\ c \in Int /\ u \in {"FREE", "USED"} /\ scount' = [scount EXCEPT ![s] = c]
      /\ sstate' = [sstate EXCEPT ![s] = u]
  BY <1>2, <1>3 DEF Used
<1> HIDE DEF n, c, u
<1> QED
  BY <1>1, <1>2, <1>4, <1>5, ReleaseStep

LEMMA SemdeleteStep == ASSUME IInv, NEW s \in Sem, Semdelete(s) PROVE IInv' /\ Wakes
<1> DEFINE n == IF scount[s] < 0 THEN -scount[s] ELSE 0
           c == IF scount[s] < 0 THEN 1 ELSE scount[s] + 1
           u == "FREE"
<1>1. /\ prstate[currpid] = "CURR"
      /\ \A q \in Pid : kont[q].at \notin Inside
  BY Calling DEF Semdelete
<1>2. /\ Used(s) /\ scount' = [scount EXCEPT ![s] = c]
      /\ sstate' = [sstate EXCEPT ![s] = u]
      /\ Release(s, n)
      /\ UNCHANGED <<prsem, prprio, msgs, sleepq, ids, prcount, kont, inclk, halted>>
  BY DEF Semdelete
<1>3. /\ scount[s] \in Int
      /\ Len(squeue[s]) = IF scount[s] < 0 THEN -scount[s] ELSE 0
  BY <1>2, SemFacts
<1>4. /\ n \in 0 .. Len(squeue[s])
      /\ Len(squeue[s]) - n = IF u = "USED" /\ c < 0 THEN -c ELSE 0
      /\ c \in Int /\ u \in {"FREE", "USED"}
  BY <1>3
<1> HIDE DEF n, c, u
<1> QED
  BY <1>1, <1>2, <1>4, ReleaseStep

LEMMA SemresetStep ==
    ASSUME IInv, NEW s \in Sem, NEW count \in Counts, Semreset(s, count)
    PROVE  IInv' /\ Wakes
<1> DEFINE n == Len(squeue[s])
           u == "USED"
<1>1. /\ prstate[currpid] = "CURR"
      /\ \A q \in Pid : kont[q].at \notin Inside
  BY Calling DEF Semreset
<1>2. /\ Used(s) /\ scount' = [scount EXCEPT ![s] = count]
      /\ Release(s, n)
      /\ UNCHANGED <<sstate, prsem, prprio, msgs, sleepq, ids, prcount, kont, inclk, halted>>
  BY DEF Semreset
<1>3. sstate \in [Sem -> {"FREE", "USED"}] /\ n \in Nat /\ count \in Nat /\ count \in Int
  BY SemFacts, KernelAssumption
<1>4. /\ n \in 0 .. Len(squeue[s])
      /\ Len(squeue[s]) - n = IF u = "USED" /\ count < 0 THEN -count ELSE 0
      /\ u \in {"FREE", "USED"} /\ sstate' = [sstate EXCEPT ![s] = u]
  BY <1>2, <1>3 DEF Used
<1> HIDE DEF n, u
<1> QED
  BY <1>1, <1>2, <1>3, <1>4, ReleaseStep

LEMMA SignalStep == ASSUME IInv, NEW s \in Sem, Signal(s) PROVE IInv' /\ Wakes
<1> DEFINE q == squeue[s]
           c == scount[s] + 1
           u == "USED"
<1>1. /\ prstate[currpid] = "CURR"
      /\ \A x \in Pid : kont[x].at \notin Inside
  BY Calling DEF Signal
<1>2. /\ Used(s) /\ scount' = [scount EXCEPT ![s] = c]
      /\ UNCHANGED <<sstate, prsem, prprio, msgs, sleepq, ids, prcount, kont, inclk, halted>>
  BY DEF Signal
<1>3. /\ squeue \in [Sem -> Seq(Pid)] /\ q \in Seq(Pid) /\ IsInjective(q)
      /\ Len(q) \in Nat /\ scount[s] \in Int
      /\ sstate \in [Sem -> {"FREE", "USED"}]
      /\ Len(q) = IF scount[s] < 0 THEN -scount[s] ELSE 0
      /\ \A p \in Range(q) : p \in Pid /\ prstate[p] = "WAIT"
  BY <1>2, SemFacts
<1>4. /\ c \in Int /\ u \in {"FREE", "USED"}
      /\ sstate' = [sstate EXCEPT ![s] = u]
  BY <1>2, <1>3 DEF Used
<1>5. CASE scount[s] < 0
  <2> DEFINE rest == Tail(q)
             p == Head(q)
             r == Ready(Now, p)
  <2>1. squeue' = [squeue EXCEPT ![s] = rest] /\ Schedule(r)
    BY <1>5 DEF Signal
  <2>2. 1 \in 0 .. Len(q) /\ Len(q) - 1 = -c
    BY <1>3, <1>5
  <2>3. rest = SubSeq(q, 1 + 1, Len(q)) /\ p = q[1]
    BY <1>3, <2>2, HeadTailProperties
  <2>4. /\ rest \in Seq(Pid) /\ Len(rest) = Len(q) - 1 /\ IsInjective(rest)
        /\ Range(rest) = Range(q) \ {p}
    <3> HIDE DEF q
    <3>1. LET front == SubSeq(q, 1, 1)
              back == SubSeq(q, 1 + 1, Len(q))
          IN  /\ back \in Seq(Pid) /\ Len(back) = Len(q) - 1 /\ IsInjective(back)
              /\ Range(front) = {q[i] : i \in 1 .. 1}
              /\ Range(back) = Range(q) \ Range(front)
      BY <1>3, <2>2, SplitRange
    <3>2. {q[i] : i \in 1 .. 1} = {q[1]}
      OBVIOUS
    <3> QED
      BY <2>3, <3>1, <3>2
  <2>5. p \in Range(q)
    BY <1>3, <2>2, <2>3, LenProperties DEF Range
  <2>6. Settled(Now, {p}, r)
    <3>1. Sched(Now) /\ Now.st = prstate /\ prprio \in [Pid -> Int]
      BY <1>1, NowSched DEF Now, IInv, TypeOK
    <3>2. p \in Pid /\ prstate[p] = "WAIT"
      BY <1>3, <2>5
    <3> HIDE DEF p
    <3> QED
      BY <3>1, <3>2, ReadySettles DEF Blocked
  <2>7. Len(rest) = IF u = "USED" /\ c < 0 THEN -c ELSE 0
    BY <1>3, <1>5, <2>2, <2>4
  <2> HIDE DEF rest, p, r, q, c, u
  <2>8. /\ prstate' \in [Pid -> States] /\ readylist' \in Seq([pid : Pid, key : Int])
        /\ currpid' \in Pid /\ preempt' \in 1 .. QUANTUM
        /\ ReadyPart' /\ Turn' /\ SleepPart' /\ WaitPart' /\ CallPart' /\ Wakes
    <3>1. {p} \in SUBSET Range(squeue[s]) /\ Range(rest) = Range(squeue[s]) \ {p}
      BY <2>4, <2>5 DEF q
    <3> QED
      BY <1>1, <1>2, <2>1, <2>4, <2>6, <3>1, WaitersLeave
  <2>9. /\ squeue' \in [Sem -> Seq(Pid)] /\ scount' \in [Sem -> Int]
        /\ sstate' \in [Sem -> {"FREE", "USED"}]
        /\ CountIsWaiters'
    BY <1>2, <1>4, <2>1, <2>4, <2>7, CountsMove
  <2>10. TypeOK'
    BY <1>2, <2>8, <2>9 DEF IInv, TypeOK, msgs, ids
  <2> QED
    BY <2>8, <2>9, <2>10 DEF IInv
<1>6. CASE ~(scount[s] < 0)
  <2>1. UNCHANGED <<squeue, sched>>
    BY <1>6 DEF Signal
  <2>2. /\ squeue' = [squeue EXCEPT ![s] = q]
        /\ Len(q) = IF u = "USED" /\ c < 0 THEN -c ELSE 0
    BY <1>3, <1>6, <2>1
  <2> HIDE DEF q, c, u
  <2>3. /\ squeue' \in [Sem -> Seq(Pid)] /\ scount' \in [Sem -> Int]
        /\ sstate' \in [Sem -> {"FREE", "USED"}]
        /\ CountIsWaiters'
    BY <1>2, <1>3, <1>4, <2>2, CountsMove
  <2>4. TypeOK'
    BY <1>2, <2>1, <2>3 DEF IInv, TypeOK, msgs, ids, sched
  <2>5. ReadyPart' /\ SleepPart' /\ WaitPart' /\ Turn'
    BY <1>2, <2>1 DEF IInv, ReadyPart, SleepPart, WaitPart, Turn, Moving, sched
  <2>6. CallPart'
    BY <1>2, <2>1 DEF IInv, CallPart, Progress, sched, msgs
  <2>7. Wakes
    BY <2>1 DEF Wakes, sched
  <2> QED
    BY <2>3, <2>4, <2>5, <2>6, <2>7 DEF IInv
<1> QED
  BY <1>5, <1>6

--------------------------------------------------------------------------------
(* The clock.                                                              *)

LEMMA CountedPids ==
    ASSUME IInv
    PROVE  /\ Counted \in Seq(Entries(Pid)) /\ Once(Counted)
           /\ PidsOf(Counted) = PidsOf(sleepq)
<1> DEFINE list == sleepq
           key == list[1].key - 1
           e == [list[1] EXCEPT !.key = key]
<1>1. list \in Seq(Entries(Pid)) /\ Once(list)
  BY DEF IInv, TypeOK, SleepPart, Entries
<1>2. CASE list = <<>>
  <2>1. Counted = list
    BY <1>2 DEF Counted
  <2> QED
    BY <1>1, <2>1
<1>3. CASE list # <<>>
  <2>1. 1 \in 1 .. Len(list) /\ list[1] \in Entries(Pid) /\ list[1].key \in Int
    <3>1. Len(list) # 0
      BY <1>1, <1>3, EmptySeq
    <3> QED
      BY <1>1, <3>1, ListTypes
  <2>2. e \in Entries(Pid) /\ e.pid = list[1].pid
    BY <2>1 DEF Entries
  <2>3. Counted = [list EXCEPT ![1] = e]
    BY <1>3 DEF Counted
  <2> HIDE DEF list, e
  <2>4. LET new == [list EXCEPT ![1] = e]
        IN  /\ new \in Seq(Entries(Pid)) /\ PidsOf(new) = PidsOf(list)
            /\ (Once(new) <=> Once(list))
    BY <1>1, <2>1, <2>2, ChangeKey
  <2>5. Counted \in Seq(Entries(Pid)) /\ Once(Counted) /\ PidsOf(Counted) = PidsOf(list)
    BY <1>1, <2>3, <2>4
  <2> QED
    BY <2>5 DEF list
<1> QED
  BY <1>2, <1>3

LEMMA DueRange ==
    ASSUME IInv
    PROVE  /\ Due \in 0 .. Len(Counted)
           /\ \A i \in 1 .. Due : Counted[i].key <= 0
           /\ IF Due = 0 THEN Counted = <<>> \/ Counted[1].key # 0
              ELSE Due < Len(Counted) => Counted[Due + 1].key > 0
<1> DEFINE list == Counted
           Ends(n) == n < Len(list) => list[n + 1].key > 0
           T == {n \in DOMAIN list : Ends(n)}
<1>1. list \in Seq(Entries(Pid))
  BY CountedPids
<1>2. /\ Len(list) \in Nat /\ DOMAIN list = 1 .. Len(list)
      /\ \A i \in 1 .. Len(list) : list[i].key \in Int
  BY <1>1, ListTypes
<1>3. CASE list # <<>> /\ list[1].key = 0
  <2>1. Len(list) # 0
    BY <1>1, <1>3, EmptySeq
  <2>2. T \subseteq Nat /\ T # {}
    <3>1. Len(list) \in T
      BY <1>2, <2>1
    <3> QED
      BY <1>2, <3>1
  <2>3. PICK m \in T : \A x \in T : m <= x
    <3> HIDE DEF T
    <3> QED
      BY <2>2, Least
  <2>4. ASSUME NEW i \in 1 .. m PROVE list[i].key <= 0
    <3>1. CASE i = 1
      BY <1>3, <3>1
    <3>2. CASE i # 1
      <4>1. i - 1 \in 1 .. Len(list) /\ i - 1 < m /\ i - 1 < Len(list) /\ i \in 1 .. Len(list)
        BY <1>2, <3>2
      <4>2. i - 1 \notin T
        BY <2>3, <4>1
      <4>3. ~(list[(i - 1) + 1].key > 0)
        BY <1>2, <4>1, <4>2
      <4>4. (i - 1) + 1 = i
        BY <4>1
      <4> QED
        BY <1>2, <4>1, <4>3, <4>4
    <3> QED
      BY <3>1, <3>2
  <2>5. \E n \in DOMAIN list : (\A i \in 1 .. n : list[i].key <= 0) /\ Ends(n)
    BY <2>4
  <2>6. Due \in DOMAIN list /\ (\A i \in 1 .. Due : list[i].key <= 0) /\ Ends(Due)
    <3>1. Due = CHOOSE n \in DOMAIN list : /\ \A i \in 1 .. n : list[i].key <= 0
                                           /\ Ends(n)
      BY <1>3 DEF Due
    <3> HIDE DEF list
    <3> QED
      BY <2>5, <3>1
  <2> QED
    BY <1>2, <2>6
<1>4. CASE ~(list # <<>> /\ list[1].key = 0)
  <2>1. Due = 0
    BY <1>4 DEF Due
  <2> QED
    BY <1>2, <1>4, <2>1
<1> QED
  BY <1>3, <1>4

LEMMA TickStep ==
    ASSUME IInv, "resume" \notin Unmasked, Tick
    PROVE  IInv' /\ Wakes
<1> DEFINE n == Due
           list == Counted
           pids == [i \in 1 .. n |-> list[i].pid]
           rest == SubSeq(list, n + 1, Len(list))
           r == ReadyAll(Now, pids)
<1>1. /\ currpid \in Pid /\ sleepq' = rest /\ Schedule(r)
      /\ inclk' = inclk \cup {currpid}
      /\ UNCHANGED <<prprio, msgs, sems, ids, prcount, kont, halted>>
  BY DEF Tick, IInv, TypeOK
<1>2. kont[currpid].at \notin Inside
  BY DEF Tick, Interruptible, Inside
<1>3. /\ \A q \in Pid : kont[q].at \notin Inside
      /\ kont[NULLPROC] = User /\ \A q \in Pid : kont'[q].at \notin Inside
  BY <1>1, <1>2, NoneInside DEF IInv, CallPart
<1>4. list \in Seq(Entries(Pid)) /\ Once(list) /\ PidsOf(list) = PidsOf(sleepq)
  BY CountedPids
<1>5. n \in 0 .. Len(list)
  BY DueRange
<1>6. /\ Len(list) \in Nat /\ DOMAIN list = 1 .. Len(list)
      /\ \A i \in 1 .. Len(list) : list[i].pid \in Pid
  BY <1>4, ListTypes
<1> HIDE DEF n, list
<1>7. /\ rest \in Seq(Entries(Pid)) /\ Once(rest)
      /\ PidsOf(rest) = {list[i].pid : i \in n + 1 .. Len(list)}
  BY <1>4, <1>5, SplitPids
<1>8. /\ pids \in Seq(Pid) /\ Len(pids) = n /\ IsInjective(pids)
      /\ Range(pids) = {list[i].pid : i \in 1 .. n}
  <2>1. pids \in Seq(Pid) /\ Len(pids) = n
    <3>1. n \in Nat /\ \A i \in 1 .. n : list[i].pid \in Pid
      BY <1>5, <1>6
    <3> QED
      BY <3>1, IsASeq
  <2>2. IsInjective(pids)
    BY <1>4, <1>5, <1>6 DEF Once, IsInjective
  <2>3. Range(pids) = {list[i].pid : i \in 1 .. n}
    BY DEF Range
  <2> QED
    BY <2>1, <2>2, <2>3
<1>9. \A i \in 1 .. n : prstate[list[i].pid] \in {"SLEEP", "RECTIM"}
  <2>1. \A i \in 1 .. n : list[i].pid \in PidsOf(list) /\ list[i].pid \in Pid
    BY <1>5, <1>6 DEF PidsOf
  <2> QED
    BY <1>4, <2>1 DEF IInv, SleepPart
<1>10. PidsOf(rest) = PidsOf(sleepq) \ Range(pids)
  <2>1. PidsOf(list) = {list[i].pid : i \in 1 .. Len(list)}
    BY <1>6 DEF PidsOf
  <2>2. \A i \in 1 .. n : \A j \in n + 1 .. Len(list) : list[i].pid # list[j].pid
    BY <1>4, <1>5, <1>6 DEF Once
  <2>3. \A i \in 1 .. Len(list) : i \in 1 .. n \/ i \in n + 1 .. Len(list)
    BY <1>5, <1>6
  <2>4. \A i \in n + 1 .. Len(list) : i \in 1 .. Len(list)
    BY <1>5, <1>6
  <2> HIDE DEF rest, pids
  <2> QED
    BY <1>4, <1>7, <1>8, <2>1, <2>2, <2>3, <2>4
<1>11. Sched(Now) /\ Now.st = prstate /\ prprio \in [Pid -> Int]
  BY <1>2, NowSched DEF Now, IInv, TypeOK
<1> HIDE DEF rest
<1>12. /\ prstate' \in [Pid -> States] /\ readylist' \in Seq([pid : Pid, key : Int])
       /\ currpid' \in Pid /\ preempt' \in 1 .. QUANTUM
       /\ ReadyPart' /\ Turn'
       /\ \A q \in Pid : IF q \in Range(pids) \/ prstate[q] \in {"READY", "CURR"}
                         THEN prstate'[q] \in {"READY", "CURR"}
                         ELSE prstate'[q] = prstate[q]
  <2>1. CASE pids # <<>>
    <3>1. Settled(Now, Range(pids), r)
      <4>1. \A i \in 1 .. Len(pids) : Now.st[pids[i]] \in Blocked
        BY <1>5, <1>8, <1>9, <1>11 DEF Blocked
      <4> HIDE DEF pids
      <4> QED
        BY <1>8, <1>11, <2>1, <4>1, ReadyAllSettles
    <3> HIDE DEF r, pids
    <3> QED
      BY <1>1, <1>3, <1>11, <3>1, Scheduled DEF Settled, Schedule
  <2>2. CASE pids = <<>>
    <3>1. r = Now
      BY <2>2, ReadyNone
    <3>2. UNCHANGED <<prstate, readylist, currpid, preempt>>
      BY <1>1, <3>1 DEF Schedule, Now
    <3>3. Range(pids) = {}
      BY <2>2 DEF Range
    <3> HIDE DEF r, pids
    <3>4. \A q \in Pid : Moving(q)' <=> Moving(q)
      BY <1>1, <3>2 DEF Moving
    <3>5. ReadyPart'
      BY <3>2, <3>4 DEF IInv, ReadyPart
    <3>6. Turn'
      BY <1>1, <3>2 DEF IInv, Turn
    <3>7. /\ prstate' \in [Pid -> States] /\ readylist' \in Seq([pid : Pid, key : Int])
          /\ currpid' \in Pid /\ preempt' \in 1 .. QUANTUM
      BY <3>2 DEF IInv, TypeOK
    <3> QED
      BY <3>2, <3>3, <3>5, <3>6, <3>7
  <2> QED
    BY <2>1, <2>2
<1>13. \A q \in Range(pids) : q \in Pid /\ prstate[q] \in {"SLEEP", "RECTIM"}
  <2>1. \A i \in 1 .. n : list[i].pid \in Pid
    BY <1>5, <1>6
  <2> HIDE DEF pids
  <2> QED
    BY <1>8, <1>9, <2>1
<1> HIDE DEF pids, r
<1>14. inclk' \subseteq Pid
  BY <1>1 DEF IInv, TypeOK
<1>15. TypeOK'
  BY <1>1, <1>7, <1>12, <1>14 DEF IInv, TypeOK, msgs, sems, ids, Entries
<1>16. SleepPart'
  BY <1>1, <1>7, <1>10, <1>12, <1>13 DEF IInv, SleepPart
<1>17. WaitPart'
  BY <1>1, <1>12, <1>13, WaitersStay DEF IInv, sems
<1>18. CallPart'
  <2>1. \A q \in Pid : Keeps(q)
    BY <1>1, <1>12, <1>13 DEF Keeps, msgs
  <2> QED
    BY <1>1, <1>3, <2>1, CallsStay DEF IInv
<1>19. CountIsWaiters'
  BY <1>1, CountsStay DEF IInv, sems
<1> QED
  BY <1>12, <1>13, <1>15, <1>16, <1>17, <1>18, <1>19 DEF IInv, Wakes

LEMMA TickRestStep == ASSUME IInv, TickRest PROVE IInv' /\ Wakes
<1>1. /\ currpid \in Pid /\ currpid \in inclk /\ inclk' = inclk \ {currpid}
      /\ UNCHANGED <<prprio, msgs, sleepq, sems, ids, prcount, kont, halted>>
      /\ preempt \in 1 .. QUANTUM /\ prprio \in [Pid -> Int]
      /\ prstate \in [Pid -> States] /\ readylist \in Seq(Entries(Pid))
  BY DEF TickRest, IInv, TypeOK, Entries
<1>2. kont[currpid].at \notin Inside
  BY <1>1 DEF IInv, CallPart, Progress
<1>3. /\ \A q \in Pid : kont[q].at \notin Inside
      /\ kont[NULLPROC] = User /\ \A q \in Pid : kont'[q].at \notin Inside
  BY <1>1, <1>2, NoneInside DEF IInv, CallPart
<1>4. Sched(Now)
  BY <1>2, NowSched
<1>5. /\ prstate' \in [Pid -> States] /\ readylist' \in Seq([pid : Pid, key : Int])
      /\ currpid' \in Pid /\ preempt' \in 1 .. QUANTUM
      /\ ReadyPart' /\ Turn'
      /\ \A q \in Pid : IF prstate[q] \in {"READY", "CURR"}
                        THEN prstate'[q] \in {"READY", "CURR"}
                        ELSE prstate'[q] = prstate[q]
  <2>1. CASE preempt = 1
    <3> DEFINE k == [Now EXCEPT !.pre = QUANTUM]
               r == Resched(k)
    <3>1. k = [st |-> prstate, rl |-> readylist, cur |-> currpid, pre |-> QUANTUM]
      BY DEF Now
    <3>2. k.st = prstate /\ k.rl = readylist /\ k.cur = currpid
      BY <3>1
    <3>3. k \in [st : [Pid -> States], rl : Seq(Entries(Pid)), cur : Pid, pre : 1 .. QUANTUM]
      BY <1>1, <3>1, QuantumFacts
    <3>4. Now.st = prstate /\ Now.rl = readylist /\ Now.cur = currpid
      BY DEF Now
    <3> HIDE DEF k
    <3>5. Sched(k)
      BY <1>4, <3>2, <3>3, <3>4 DEF Sched
    <3>6. Settled(k, {}, r)
      BY <1>1, <3>5, ReschedSettles
    <3>7. Schedule(r)
      BY <2>1 DEF TickRest, k
    <3> HIDE DEF r
    <3> QED
      BY <1>3, <3>2, <3>6, <3>7, Scheduled DEF Settled, Schedule
  <2>2. CASE preempt # 1
    <3>1. Schedule([Now EXCEPT !.pre = @ - 1])
      BY <2>2 DEF TickRest
    <3>2. UNCHANGED <<prstate, readylist, currpid>> /\ preempt' = preempt - 1
      BY <3>1 DEF Schedule, Now
    <3>3. preempt' \in 1 .. QUANTUM
      BY <1>1, <2>2, <3>2, KernelAssumption
    <3>4. \A q \in Pid : Moving(q)' <=> Moving(q)
      BY <1>1, <3>2 DEF Moving
    <3>5. ReadyPart'
      BY <3>2, <3>4 DEF IInv, ReadyPart
    <3>6. Turn'
      BY <1>1, <3>2 DEF IInv, Turn
    <3> QED
      BY <1>1, <3>2, <3>3, <3>5, <3>6 DEF Entries
  <2> QED
    BY <2>1, <2>2
<1>6. TypeOK'
  BY <1>1, <1>5 DEF IInv, TypeOK, msgs, sems, ids
<1>7. SleepPart'
  BY <1>1, <1>5, SleepersStay DEF IInv
<1>8. WaitPart'
  BY <1>1, <1>5, WaitersStay DEF IInv, sems
<1>9. CallPart'
  <2>1. \A q \in Pid : Keeps(q)
    BY <1>1, <1>5 DEF Keeps, msgs
  <2> QED
    BY <1>1, <1>3, <2>1, CallsStay DEF IInv
<1>10. CountIsWaiters'
  BY <1>1, CountsStay DEF IInv, sems
<1> QED
  BY <1>5, <1>6, <1>7, <1>8, <1>9, <1>10 DEF IInv, Wakes

--------------------------------------------------------------------------------
(* The invariant.                                                          *)

LEMMA InitInv == Init => IInv
<1> SUFFICES ASSUME Init PROVE IInv
  OBVIOUS
<1>1. /\ NPROC \in Nat /\ NPROC >= 2 /\ QUANTUM \in Nat \ {0}
      /\ 0 \in Pid /\ 1 \in Pid
  BY KernelAssumption DEF Pid
<1>2. /\ readylist \in Seq(Entries(Pid)) /\ Len(readylist) = 1
      /\ readylist[1] = Entry(0, 0) /\ DOMAIN readylist = 1 .. 1
  <2>1. Entry(0, 0) \in Entries(Pid)
    BY <1>1 DEF Entry, Entries
  <2>2. readylist = <<Entry(0, 0)>>
    BY DEF Init
  <2> QED
    BY <2>1, <2>2
<1>3. Once(readylist) /\ PidsOf(readylist) = {0}
  BY <1>2 DEF Once, PidsOf, Entry
<1>4. sleepq = <<>> /\ sleepq \in Seq(Entries(Pid)) /\ Once(sleepq) /\ PidsOf(sleepq) = {}
  BY DEF Init, Once, PidsOf
<1>5. /\ prstate \in [Pid -> States] /\ prstate[0] = "READY" /\ prstate[1] = "CURR"
      /\ \A p \in Pid : p # 0 /\ p # 1 => prstate[p] = "FREE"
  BY <1>1 DEF Init, States
<1>6. \A s \in Sem : squeue[s] = <<>> /\ Len(squeue[s]) = 0 /\ Range(squeue[s]) = {}
                     /\ sstate[s] = "FREE" /\ IsInjective(squeue[s])
  BY DEF Init, Range, IsInjective
<1>7. kont = [p \in Pid |-> User] /\ currpid = 1
  BY DEF Init
<1>8. \A p \in Pid : ~Moving(p)
  BY <1>1, <1>7, UserFacts DEF Moving
<1>9. TypeOK
  <2>1. nextpid \in Pid /\ nextsem \in Nat
    BY <1>1 DEF Init, Pid
  <2>2. /\ prprio \in [Pid -> Int] /\ prsem \in [Pid -> Int] /\ prparent \in [Pid -> Pid]
        /\ prhasmsg \in [Pid -> BOOLEAN]
    BY <1>1 DEF Init
  <2>3. /\ sstate \in [Sem -> {"FREE", "USED"}] /\ scount \in [Sem -> Int]
        /\ squeue \in [Sem -> Seq(Pid)]
    BY DEF Init
  <2>4. kont \in [Pid -> [at : Konts, arg : Pid]]
    BY <1>7, UserFacts
  <2>5. prcount \in Int /\ currpid \in Pid /\ preempt \in 1 .. QUANTUM
    BY <1>1 DEF Init
  <2>6. inclk \subseteq Pid /\ halted \in BOOLEAN
    BY DEF Init
  <2> QED
    BY <1>2, <1>4, <1>5, <2>1, <2>2, <2>3, <2>4, <2>5, <2>6 DEF TypeOK, Entries
<1>10. ReadyPart
  BY <1>3, <1>5, <1>8 DEF ReadyPart
<1>11. SleepPart
  BY <1>4, <1>5 DEF SleepPart
<1>12. WaitPart
  BY <1>5, <1>6 DEF WaitPart
<1>13. Turn
  BY <1>1, <1>5, <1>7 DEF Turn
<1>14. CallPart
  BY <1>1, <1>7, UserFacts DEF CallPart, Progress, Inside
<1>15. CountIsWaiters
  BY <1>6 DEF CountIsWaiters, Used
<1> QED
  BY <1>9, <1>10, <1>11, <1>12, <1>13, <1>14, <1>15 DEF IInv

LEMMA StutterInv == ASSUME IInv, UNCHANGED vars PROVE IInv'
<1>1. UNCHANGED <<sched, prprio, msgs, sleepq, sems, ids, prcount, kont, inclk, halted>>
  BY DEF vars
<1>2. TypeOK'
  BY <1>1 DEF IInv, TypeOK, sched, msgs, sems, ids
<1>3. ReadyPart' /\ SleepPart' /\ WaitPart' /\ Turn'
  BY <1>1 DEF IInv, ReadyPart, SleepPart, WaitPart, Turn, Moving, sched, sems
<1>4. CallPart'
  BY <1>1 DEF IInv, CallPart, Progress, sched, msgs
<1>5. CountIsWaiters'
  BY <1>1, CountsStay DEF IInv, sems
<1> QED
  BY <1>2, <1>3, <1>4, <1>5 DEF IInv

LEMMA NextInv ==
    ASSUME IInv, "resume" \notin Unmasked, [Next]_vars
    PROVE  IInv'
<1>1. CASE UNCHANGED vars
  BY <1>1, StutterInv
<1>2. CASE SystemCall
  <2>1. CASE Create \/ Yield \/ Receive \/ Recvclr
    BY <2>1, CreateStep, YieldStep, ReceiveStep, RecvclrStep
  <2>2. CASE \E p \in Pid :
                \/ Resume(p) \/ Suspend(p) \/ Kill(p) \/ Send(p)
                \/ \E newprio \in Prios : Chprio(p, newprio)
    BY <2>2, ResumeStep, SuspendStep, KillStep, SendStep, ChprioStep
  <2>3. CASE \/ \E delay \in Delays : Sleepms(delay)
             \/ \E maxwait \in Waits : Recvtime(maxwait)
    BY <2>3, SleepmsStep, RecvtimeStep
  <2>4. CASE \E s \in Sem : Wait(s) \/ Signal(s) \/ Semdelete(s)
    BY <2>4, WaitStep, SignalStep, SemdeleteStep
  <2>5. CASE \E count \in Counts :
                \/ Semcreate(count)
                \/ \E s \in Sem : Signaln(s, count) \/ Semreset(s, count)
    BY <2>5, SemcreateStep, SignalnStep, SemresetStep
  <2> QED
    BY <1>2, <2>1, <2>2, <2>3, <2>4, <2>5 DEF SystemCall
<1>3. CASE Continue
  BY <1>3, ReadyMarkStep, ReadyInsertStep, ReadyReschedStep, ReadySwitchStep,
     RecvStateStep, RecvYieldStep, RecvTakeStep, RecvtimeTakeStep, KillRestStep,
     TickRestStep
  DEF Continue
<1>4. CASE Tick
  BY <1>4, TickStep
<1> QED
  BY <1>1, <1>2, <1>3, <1>4 DEF Next

(* Whatever programs do, and with any number of processes and semaphores,  *)
(* the kernel stays consistent, if only resume() is not interrupted.       *)
THEOREM Consistent ==
    ASSUME "resume" \notin Unmasked
    PROVE  Spec => []IInv
<1>1. IInv /\ [Next]_vars => IInv'
  BY NextInv
<1> QED
  BY <1>1, InitInv, PTL DEF Spec

(* ready(), suspend(), send() and kill() find a process on the list its    *)
(* state names.                                                            *)
THEOREM ProcessOnItsList ==
    ASSUME "resume" \notin Unmasked
    PROVE  Spec => []StateNamesList
<1>1. IInv => StateNamesList
  <2> SUFFICES ASSUME IInv PROVE StateNamesList
    OBVIOUS
  <2> QED
    BY DEF IInv, ReadyPart, SleepPart, WaitPart, StateNamesList
<1> QED
  BY <1>1, Consistent, PTL

(* signal() may take a process off the queue whenever the count is         *)
(* negative: there is one.                                                 *)
THEOREM CountedWaiters ==
    ASSUME "resume" \notin Unmasked
    PROVE  Spec => []CountIsWaiters
<1>1. IInv => CountIsWaiters
  BY DEF IInv
<1> QED
  BY <1>1, Consistent, PTL

(* receive() needs no second look at prhasmsg when yield() returns.        *)
THEOREM MessageThere ==
    ASSUME "resume" \notin Unmasked
    PROVE  Spec => []ReceiveHasMessage
<1>1. IInv => ReceiveHasMessage
  <2> SUFFICES ASSUME IInv, At("recvtake") PROVE prhasmsg[currpid]
    BY DEF ReceiveHasMessage
  <2>1. Progress(currpid) /\ kont[currpid].at = "recvtake" /\ prstate[currpid] = "CURR"
    BY Continuing
  <2> QED
    BY <2>1 DEF Progress
<1> QED
  BY <1>1, Consistent, PTL

--------------------------------------------------------------------------------
(* The order in which waiters are served.                                  *)

InOrder ==
    \A s \in Sem : \A i \in DOMAIN squeue[s] : \A j \in 1 .. i - 1 :
        /\ squeue[s][i] \notin Range(squeue'[s])
        /\ prstate'[squeue[s][i]] # "FREE"
        => squeue[s][j] \notin Range(squeue'[s])

(* The first n waiters of s leave; nobody else moves.                      *)
LEMMA FrontLeaves ==
    ASSUME IInv, NEW s \in Sem, NEW n \in 0 .. Len(squeue[s]),
           squeue' = [squeue EXCEPT ![s] = SubSeq(@, n + 1, Len(@))]
    PROVE  InOrder
<1> DEFINE q == squeue[s]
           rest == SubSeq(q, n + 1, Len(q))
<1>1. squeue \in [Sem -> Seq(Pid)] /\ q \in Seq(Pid) /\ IsInjective(q) /\ Len(q) \in Nat
  BY SemFacts
<1>2. n \in 0 .. Len(q)
  OBVIOUS
<1>3. squeue'[s] = rest /\ \A x \in Sem : x # s => squeue'[x] = squeue[x]
  BY <1>1
<1>4. Range(rest) = Range(q) \ {q[i] : i \in 1 .. n}
  <2> HIDE DEF q
  <2>1. LET front == SubSeq(q, 1, n)
            back == SubSeq(q, n + 1, Len(q))
        IN  /\ Range(front) = {q[i] : i \in 1 .. n}
            /\ Range(back) = Range(q) \ Range(front)
    BY <1>1, <1>2, SplitRange
  <2> QED
    BY <2>1
<1> HIDE DEF rest
<1> SUFFICES ASSUME NEW x \in Sem, NEW i \in DOMAIN squeue[x], NEW j \in 1 .. i - 1,
                    squeue[x][i] \notin Range(squeue'[x])
             PROVE  squeue[x][j] \notin Range(squeue'[x])
  BY DEF InOrder
<1>5. squeue[x][i] \in Range(squeue[x])
  BY DEF Range
<1>6. x = s
  BY <1>3, <1>5
<1>7. i \in 1 .. Len(q) /\ q[i] \notin Range(rest)
  BY <1>1, <1>3, <1>6, LenProperties
<1>8. q[i] \in {q[k] : k \in 1 .. n}
  BY <1>4, <1>5, <1>6, <1>7
<1>9. PICK k \in 1 .. n : q[i] = q[k]
  BY <1>8
<1>10. i = k
  <2>1. k \in DOMAIN q /\ i \in DOMAIN q
    BY <1>1, <1>2, <1>7, LenProperties
  <2> QED
    BY <1>1, <1>9, <2>1 DEF IsInjective
<1>11. j \in 1 .. n
  BY <1>1, <1>2, <1>7, <1>10
<1>12. q[j] \in {q[m] : m \in 1 .. n}
  BY <1>11
<1> QED
  BY <1>3, <1>4, <1>6, <1>12

LEMMA NoneLeaves ==
    ASSUME \A s \in Sem : Range(squeue[s]) \subseteq Range(squeue'[s])
    PROVE  InOrder
BY DEF InOrder, Range

LEMMA NextInOrder ==
    ASSUME IInv, [Next]_vars
    PROVE  InOrder
<1>1. CASE squeue' = squeue
  BY <1>1, NoneLeaves
<1>2. ASSUME NEW s \in Sem, Wait(s) PROVE InOrder
  <2>1. squeue' = squeue \/ squeue' = [squeue EXCEPT ![s] = Append(squeue[s], currpid)]
    BY <1>2 DEF Wait
  <2>2. ASSUME squeue' = [squeue EXCEPT ![s] = Append(squeue[s], currpid)] PROVE InOrder
    <3>1. /\ prstate[currpid] = "CURR" /\ currpid \in Pid
      BY <1>2, Calling DEF Wait
    <3>2. /\ squeue \in [Sem -> Seq(Pid)] /\ squeue[s] \in Seq(Pid)
          /\ IsInjective(squeue[s]) /\ currpid \notin Range(squeue[s])
      BY <3>1, SemFacts
    <3>3. Range(Append(squeue[s], currpid)) = Range(squeue[s]) \cup {currpid}
      BY <3>1, <3>2, AppendRange
    <3>4. \A x \in Sem : Range(squeue[x]) \subseteq Range(squeue'[x])
      BY <2>2, <3>2, <3>3
    <3> QED
      BY <3>4, NoneLeaves
  <2> QED
    BY <1>1, <2>1, <2>2
<1>3. ASSUME NEW s \in Sem, Signal(s) PROVE InOrder
  <2>1. CASE scount[s] < 0
    <3>1. squeue' = [squeue EXCEPT ![s] = Tail(@)]
      BY <1>3, <2>1 DEF Signal
    <3>2. squeue[s] \in Seq(Pid) /\ Len(squeue[s]) = -scount[s] /\ scount[s] \in Int
      BY <1>3, <2>1, SemFacts DEF Signal
    <3>3. 1 \in 0 .. Len(squeue[s])
      BY <2>1, <3>2
    <3>4. Tail(squeue[s]) = SubSeq(squeue[s], 1 + 1, Len(squeue[s]))
      BY <3>2, <3>3, HeadTailProperties
    <3>5. squeue' = [squeue EXCEPT ![s] = SubSeq(@, 1 + 1, Len(@))]
      BY <3>1, <3>4
    <3> QED
      BY <3>3, <3>5, FrontLeaves
  <2>2. CASE ~(scount[s] < 0)
    BY <1>1, <1>3, <2>2 DEF Signal
  <2> QED
    BY <2>1, <2>2
<1>4. ASSUME NEW s \in Sem, NEW count \in Counts, Signaln(s, count) PROVE InOrder
  <2> DEFINE n == IF scount[s] < 0 THEN Lesser(count, -scount[s]) ELSE 0
  <2>1. n \in 0 .. Len(squeue[s])
    BY <1>4, SemFacts, KernelAssumption DEF Signaln, Lesser
  <2>2. squeue' = [squeue EXCEPT ![s] = SubSeq(@, n + 1, Len(@))]
    BY <1>4 DEF Signaln, Release
  <2> HIDE DEF n
  <2> QED
    BY <2>1, <2>2, FrontLeaves
<1>5. ASSUME NEW s \in Sem, Semdelete(s) PROVE InOrder
  <2> DEFINE n == IF scount[s] < 0 THEN -scount[s] ELSE 0
  <2>1. n \in 0 .. Len(squeue[s])
    BY <1>5, SemFacts DEF Semdelete
  <2>2. squeue' = [squeue EXCEPT ![s] = SubSeq(@, n + 1, Len(@))]
    BY <1>5 DEF Semdelete, Release
  <2> HIDE DEF n
  <2> QED
    BY <2>1, <2>2, FrontLeaves
<1>6. ASSUME NEW s \in Sem, NEW count \in Counts, Semreset(s, count) PROVE InOrder
  <2> DEFINE n == Len(squeue[s])
  <2>1. n \in 0 .. Len(squeue[s])
    BY SemFacts
  <2>2. squeue' = [squeue EXCEPT ![s] = SubSeq(@, n + 1, Len(@))]
    BY <1>6 DEF Semreset, Release
  <2> HIDE DEF n
  <2> QED
    BY <2>1, <2>2, FrontLeaves
<1>7. ASSUME KillRest PROVE InOrder
  <2> DEFINE t == Target
  <2>1. CASE squeue' = squeue
    BY <1>1, <2>1
  <2>2. CASE squeue' # squeue
    <3>1. /\ prstate' = [prstate EXCEPT ![t] = "FREE"]
          /\ prstate[t] = "WAIT"
          /\ squeue' = [squeue EXCEPT ![prsem[t]] = RemoveFirst(@, t)]
      BY <1>7, <2>2 DEF KillRest, LeaveLists
    <3>2. t \in Pid
      BY <1>7, Continuing DEF KillRest
    <3> HIDE DEF t
    <3>3. prsem[t] \in Sem /\ t \in Range(squeue[prsem[t]])
      BY <3>1, <3>2 DEF IInv, WaitPart
    <3>4. /\ squeue \in [Sem -> Seq(Pid)] /\ squeue[prsem[t]] \in Seq(Pid)
          /\ IsInjective(squeue[prsem[t]])
      BY <3>3, SemFacts
    <3>5. Range(RemoveFirst(squeue[prsem[t]], t)) = Range(squeue[prsem[t]]) \ {t}
      <4> DEFINE q == squeue[prsem[t]]
      <4>1. q \in Seq(Pid) /\ IsInjective(q) /\ t \in Range(q)
        BY <3>3, <3>4
      <4> HIDE DEF q
      <4>2. Range(RemoveFirst(q, t)) = Range(q) \ {t}
        BY <4>1, RemoveFirstRange
      <4> QED
        BY <4>2 DEF q
    <3>6. \A x \in Sem : Range(squeue[x]) \ {t} \subseteq Range(squeue'[x])
      BY <3>1, <3>3, <3>4, <3>5
    <3>7. prstate'[t] = "FREE"
      BY <3>1, <3>2 DEF IInv, TypeOK
    <3> QED
      BY <3>6, <3>7 DEF InOrder, Range
  <2> QED
    BY <2>1, <2>2
<1>8. CASE UNCHANGED vars
  BY <1>1, <1>8 DEF vars, sems
<1>9. CASE SystemCall
  <2>1. CASE Create \/ Yield \/ Receive \/ Recvclr
    BY <1>1, <2>1 DEF Create, Yield, Receive, Recvclr, sems
  <2>2. CASE \E p \in Pid :
                \/ Resume(p) \/ Suspend(p) \/ Kill(p) \/ Send(p)
                \/ \E newprio \in Prios : Chprio(p, newprio)
    BY <1>1, <2>2 DEF Resume, Suspend, Kill, Send, Chprio, sems
  <2>3. CASE \/ \E delay \in Delays : Sleepms(delay)
             \/ \E maxwait \in Waits : Recvtime(maxwait)
    BY <1>1, <2>3 DEF Sleepms, Recvtime, sems
  <2>4. CASE \E s \in Sem : Wait(s) \/ Signal(s) \/ Semdelete(s)
    BY <1>2, <1>3, <1>5, <2>4
  <2>5. CASE \E count \in Counts :
                \/ Semcreate(count)
                \/ \E s \in Sem : Signaln(s, count) \/ Semreset(s, count)
    <3>1. ASSUME NEW count \in Counts, Semcreate(count) PROVE InOrder
      BY <1>1, <3>1 DEF Semcreate
    <3> QED
      BY <1>4, <1>6, <2>5, <3>1
  <2> QED
    BY <1>9, <2>1, <2>2, <2>3, <2>4, <2>5 DEF SystemCall
<1>10. CASE Continue
  <2>1. CASE KillRest
    BY <1>7, <2>1
  <2>2. CASE Continue /\ ~KillRest
    <3>1. squeue' = squeue
      BY <2>2 DEF Continue, ReadyMark, ReadyInsert, ReadyResched, ReadySwitch,
         RecvState, RecvYield, RecvTake, RecvtimeTake, TickRest, sems
    <3> QED
      BY <1>1, <3>1
  <2> QED
    BY <1>10, <2>1, <2>2
<1>11. CASE Tick
  BY <1>1, <1>11 DEF Tick, sems
<1> QED
  BY <1>8, <1>9, <1>10, <1>11 DEF Next

(* signal(), signaln(), semdelete() and semreset() take waiters from the   *)
(* head of the queue and wait() puts them at its end.                      *)
THEOREM FirstComeFirstServed ==
    ASSUME "resume" \notin Unmasked
    PROVE  Spec => ServedInOrder
<1>1. IInv /\ [Next]_vars => [InOrder]_vars
  BY NextInOrder
<1>2. Spec => []IInv
  BY Consistent
<1>3. Spec => [][InOrder]_vars
  BY <1>1, <1>2, PTL DEF Spec
<1> QED
  BY <1>3 DEF ServedInOrder, InOrder

--------------------------------------------------------------------------------
(* Nobody comes to wait with a message pending but in receive().           *)

(* Who comes to wait for a message has none.                               *)
WaitsWithout ==
    \A p \in Pid : prstate'[p] \in {"RECV", "RECTIM"} =>
        \/ ~prhasmsg'[p]
        \/ prstate'[p] = prstate[p] /\ prhasmsg'[p] = prhasmsg[p]

LEMMA WakesWithout ==
    ASSUME Wakes, prhasmsg' = prhasmsg
    PROVE  WaitsWithout
BY DEF Wakes, WaitsWithout

LEMMA BlockWithout ==
    ASSUME IInv, kont[currpid].at \notin Inside, prstate[currpid] = "CURR",
           currpid # NULLPROC, NEW state \in Blocked \cup {"FREE"},
           Schedule(Block(state)), prhasmsg' = prhasmsg,
           state = "RECTIM" => ~prhasmsg[currpid], state # "RECV"
    PROVE  WaitsWithout
<1> DEFINE r == Block(state)
<1>1. /\ r.st[currpid] = state
      /\ \A q \in Pid \ {currpid} :
            IF prstate[q] \in {"READY", "CURR"} THEN r.st[q] \in {"READY", "CURR"}
            ELSE r.st[q] = prstate[q]
  BY BlockSettles
<1>2. prstate' = r.st
  BY DEF Schedule
<1> HIDE DEF r
<1> QED
  BY <1>1, <1>2 DEF WaitsWithout

LEMMA SendWithout ==
    ASSUME IInv, prstate[currpid] = "CURR", kont[currpid].at \notin Inside,
           NEW p \in Pid, SendTo(p) \/ UNCHANGED <<prhasmsg, sleepq, sched>>
    PROVE  WaitsWithout
<1>1. CASE UNCHANGED <<prhasmsg, sleepq, sched>>
  BY <1>1 DEF WaitsWithout, sched
<1>2. CASE /\ prhasmsg' = [prhasmsg EXCEPT ![p] = TRUE]
           /\ Schedule(IF prstate[p] \in {"RECV", "RECTIM"} THEN Ready(Now, p) ELSE Now)
  <2>1. \A q \in Pid : q # p => prhasmsg'[q] = prhasmsg[q]
    BY <1>2 DEF IInv, TypeOK
  <2>2. CASE prstate[p] \in {"RECV", "RECTIM"}
    <3> DEFINE r == Ready(Now, p)
    <3>1. Sched(Now) /\ Now.st = prstate /\ prprio \in [Pid -> Int]
      BY NowSched DEF Now, IInv, TypeOK
    <3>2. Settled(Now, {p}, r)
      BY <2>2, <3>1, ReadySettles DEF Blocked
    <3>3. prstate' = r.st
      BY <1>2, <2>2 DEF Schedule
    <3> HIDE DEF r
    <3> QED
      BY <2>1, <2>2, <3>1, <3>2, <3>3 DEF Settled, WaitsWithout
  <2>3. CASE prstate[p] \notin {"RECV", "RECTIM"}
    <3>1. prstate' = prstate
      BY <1>2, <2>3 DEF Schedule, Now
    <3> QED
      BY <2>1, <2>3, <3>1 DEF WaitsWithout
  <2> QED
    BY <2>2, <2>3
<1> QED
  BY <1>1, <1>2 DEF SendTo

LEMMA CallWithout ==
    ASSUME IInv, SystemCall
    PROVE  WaitsWithout
<1>1. /\ kont[currpid].at = "user" /\ kont[currpid].at \notin Inside
      /\ currpid \in Pid /\ currpid # NULLPROC /\ prstate[currpid] = "CURR"
  <2>1. \E name : Call(name)
    BY DEF SystemCall, Create, Yield, Receive, Recvclr, Resume, Suspend, Kill, MayKill,
       Send, Chprio, Sleepms, Recvtime, Wait, Signal, Semdelete, Semcreate, Signaln,
       Semreset
  <2>2. PICK name : Call(name)
    BY <2>1
  <2> QED
    BY <2>2, Calling DEF Call, At, Inside
<1>2. ASSUME UNCHANGED <<sched, msgs>> PROVE WaitsWithout
  BY <1>2 DEF WaitsWithout, sched, msgs
<1>3. CASE Create
  BY <1>3 DEF Create, WaitsWithout, IInv, TypeOK
<1>4. CASE Yield
  BY <1>4, YieldStep, WakesWithout DEF Yield, msgs
<1>5. CASE Receive
  BY <1>2, <1>5 DEF Receive
<1>6. CASE Recvclr
  BY <1>6 DEF Recvclr, WaitsWithout, IInv, TypeOK, sched
<1>7. ASSUME NEW p \in Pid, Resume(p) PROVE WaitsWithout
  BY <1>2, <1>7 DEF Resume
<1>8. ASSUME NEW p \in Pid, Suspend(p) PROVE WaitsWithout
  <2>1. CASE Schedule(Block("SUSP"))
    <3>1. prhasmsg' = prhasmsg /\ "SUSP" \in Blocked
      BY <1>8 DEF Suspend, msgs, Blocked
    <3> QED
      BY <1>1, <2>1, <3>1, BlockWithout
  <2>2. CASE prstate' = [prstate EXCEPT ![p] = "SUSP"]
    BY <1>8, <2>2 DEF Suspend, msgs, WaitsWithout, IInv, TypeOK
  <2> QED
    BY <1>8, <2>1, <2>2 DEF Suspend
<1>9. ASSUME NEW p \in Pid, Kill(p) PROVE WaitsWithout
  <2>1. /\ SendTo(prparent[p]) \/ UNCHANGED <<prhasmsg, sleepq, sched>>
        /\ prparent[p] \in Pid
    BY <1>9 DEF Kill, IInv, TypeOK
  <2> QED
    BY <1>1, <2>1, SendWithout
<1>10. ASSUME NEW p \in Pid, Send(p) PROVE WaitsWithout
  BY <1>1, <1>10, SendWithout DEF Send
<1>11. ASSUME NEW p \in Pid, NEW newprio \in Prios, Chprio(p, newprio) PROVE WaitsWithout
  BY <1>2, <1>11 DEF Chprio
<1>12. ASSUME NEW delay \in Delays, Sleepms(delay) PROVE WaitsWithout
  <2>1. prhasmsg' = prhasmsg /\ "SLEEP" \in Blocked
    BY <1>12 DEF Sleepms, msgs, Blocked
  <2> QED
    BY <1>1, <1>12, <2>1, BlockWithout DEF Sleepms
<1>13. ASSUME NEW maxwait \in Waits, Recvtime(maxwait) PROVE WaitsWithout
  <2>1. CASE prhasmsg[currpid]
    BY <1>13, <2>1 DEF Recvtime, WaitsWithout, IInv, TypeOK, sched
  <2>2. CASE ~prhasmsg[currpid]
    <3>1. prhasmsg' = prhasmsg /\ Schedule(Block("RECTIM")) /\ "RECTIM" \in Blocked
      BY <1>13, <2>2 DEF Recvtime, Blocked
    <3> QED
      BY <1>1, <2>2, <3>1, BlockWithout
  <2> QED
    BY <2>1, <2>2
<1>14. ASSUME NEW s \in Sem, Wait(s) PROVE WaitsWithout
  <2>1. prhasmsg' = prhasmsg /\ "WAIT" \in Blocked
    BY <1>14 DEF Wait, msgs, Blocked
  <2>2. CASE Schedule(Block("WAIT"))
    BY <1>1, <2>1, <2>2, BlockWithout
  <2>3. CASE UNCHANGED sched
    BY <2>1, <2>3 DEF WaitsWithout, sched
  <2> QED
    BY <1>14, <2>2, <2>3 DEF Wait
<1>15. ASSUME NEW s \in Sem, Signal(s) \/ Semdelete(s) PROVE WaitsWithout
  <2>1. Wakes
    BY <1>15, SignalStep, SemdeleteStep
  <2>2. prhasmsg' = prhasmsg
    BY <1>15 DEF Signal, Semdelete, msgs
  <2> QED
    BY <2>1, <2>2, WakesWithout
<1>16. ASSUME NEW s \in Sem, NEW count \in Counts, Signaln(s, count) \/ Semreset(s, count)
       PROVE  WaitsWithout
  <2>1. Wakes
    BY <1>16, SignalnStep, SemresetStep
  <2>2. prhasmsg' = prhasmsg
    BY <1>16 DEF Signaln, Semreset, msgs
  <2> QED
    BY <2>1, <2>2, WakesWithout
<1>17. ASSUME NEW count \in Counts, Semcreate(count) PROVE WaitsWithout
  BY <1>2, <1>17 DEF Semcreate
<1> QED
  BY <1>3, <1>4, <1>5, <1>6, <1>7, <1>8, <1>9, <1>10, <1>11, <1>12, <1>13, <1>14,
     <1>15, <1>16, <1>17
  DEF SystemCall

LEMMA ContinueWithout ==
    ASSUME IInv, Continue, ~RecvState
    PROVE  WaitsWithout
<1>1. CASE ReadyMark
  BY <1>1 DEF ReadyMark, WaitsWithout, msgs, IInv, TypeOK
<1>2. CASE ReadyInsert
  BY <1>2 DEF ReadyInsert, WaitsWithout, msgs
<1>3. CASE ReadyResched
  BY <1>3 DEF ReadyResched, WaitsWithout, msgs, IInv, TypeOK
<1>4. CASE ReadySwitch
  BY <1>4, ReadySwitchStep, WakesWithout DEF ReadySwitch, msgs
<1>5. CASE RecvYield
  BY <1>5, RecvYieldStep, WakesWithout DEF RecvYield, msgs
<1>6. CASE RecvTake \/ RecvtimeTake
  BY <1>6 DEF RecvTake, RecvtimeTake, WaitsWithout, sched, IInv, TypeOK
<1>7. CASE KillRest
  <2>1. /\ prstate[currpid] = "CURR" /\ currpid # NULLPROC
        /\ kont[currpid].at \notin Inside
    BY <1>7, Continuing DEF KillRest, Inside
  <2>2. prhasmsg' = prhasmsg
    BY <1>7 DEF KillRest, msgs
  <2>3. CASE Schedule(Block("FREE"))
    BY <2>1, <2>2, <2>3, BlockWithout
  <2>4. CASE prstate' = [prstate EXCEPT ![Target] = "FREE"]
    BY <2>2, <2>4 DEF WaitsWithout, IInv, TypeOK
  <2> QED
    BY <1>7, <2>3, <2>4 DEF KillRest
<1>8. CASE TickRest
  BY <1>8, TickRestStep, WakesWithout DEF TickRest, msgs
<1> QED
  BY <1>1, <1>2, <1>3, <1>4, <1>5, <1>6, <1>7, <1>8 DEF Continue

(* "Pass a message to a process and start recipient if waiting": whatever  *)
(* programs call, with the clock interrupting receive(), the only step     *)
(* that makes a process wait with a message pending is receive()'s own     *)
(* change to PR_RECV, after the test for a message.                        *)
LostInReceive ==
    \A p \in Pid : InVain(p)' => InVain(p) \/ (p = currpid /\ kont[p].at = "recv")

THEOREM RecipientStarted ==
    ASSUME "resume" \notin Unmasked
    PROVE  Spec => LostOnlyInReceive
<1>1. IInv /\ [Next]_vars => [LostInReceive]_vars
  <2> SUFFICES ASSUME IInv, Next PROVE LostInReceive
    OBVIOUS
  <2>1. ASSUME WaitsWithout PROVE LostInReceive
    BY <2>1 DEF WaitsWithout, LostInReceive, InVain
  <2>2. CASE SystemCall
    BY <2>1, <2>2, CallWithout
  <2>3. CASE Continue /\ ~RecvState
    BY <2>1, <2>3, ContinueWithout
  <2>4. CASE RecvState
    <3>1. /\ kont[currpid].at = "recv" /\ currpid \in Pid /\ prhasmsg' = prhasmsg
          /\ \A p \in Pid : p # currpid => prstate'[p] = prstate[p]
      BY <2>4 DEF RecvState, At, msgs, IInv, TypeOK
    <3> QED
      BY <3>1 DEF LostInReceive, InVain
  <2>5. CASE Tick
    <3>1. prhasmsg' = prhasmsg
      BY <2>5 DEF Tick, msgs
    <3> QED
      BY <2>1, <2>5, <3>1, TickStep, WakesWithout
  <2> QED
    BY <2>2, <2>3, <2>4, <2>5 DEF Next
<1>2. Spec => []IInv
  BY Consistent
<1>3. Spec => [][LostInReceive]_vars
  BY <1>1, <1>2, PTL DEF Spec
<1> QED
  BY <1>3 DEF LostOnlyInReceive, LostInReceive

--------------------------------------------------------------------------------
(* The processor is not halted while a program runs that nobody has        *)
(* killed, as long as kills stay apart.                                    *)

(* Who lives and is not being killed, by himself or by others.             *)
Busy == {p \in Pid : Live(p) /\ ~Dying(p)}

(* prcount may be too high, after create() has failed, but never too low.  *)
Books ==
    /\ Cardinality(Busy) <= prcount
    /\ halted => Busy \subseteq {NULLPROC}

(* Nobody is created, and who is being killed still is.                    *)
NobodyNew ==
    /\ \A p \in Pid : prstate[p] = "FREE" => prstate'[p] = "FREE"
    /\ \A p \in Pid : kont[p].at = "kill" => kont'[p] = kont[p]
    /\ prcount' = prcount /\ halted' = halted

LEMMA BusyFinite ==
    /\ IsFiniteSet(Busy) /\ Cardinality(Busy) \in Nat
    /\ IsFiniteSet(Busy') /\ Cardinality(Busy') \in Nat
<1>1. IsFiniteSet(Pid)
  BY FS_Interval, KernelAssumption DEF Pid
<1>2. Busy \in SUBSET Pid /\ Busy' \in SUBSET Pid
  BY DEF Busy
<1> QED
  BY <1>1, <1>2, FS_Subset, FS_CardinalityType

LEMMA BooksStay ==
    ASSUME IInv, Books, NobodyNew
    PROVE  Books'
<1>1. Busy' \in SUBSET Busy
  <2>1. \A p \in Pid : Dying(p) => Dying(p)'
    BY DEF Dying, NobodyNew
  <2> QED
    BY <2>1 DEF Busy, NobodyNew, Live
<1>2. Cardinality(Busy') <= Cardinality(Busy)
  BY <1>1, BusyFinite, FS_Subset
<1>3. prcount \in Int
  BY DEF IInv, TypeOK
<1>4. Cardinality(Busy') <= prcount'
  BY <1>2, <1>3, BusyFinite DEF Books, NobodyNew
<1> QED
  BY <1>1, <1>4 DEF Books, NobodyNew

(* A call goes on, or stays, outside kill().                               *)
LEMMA NoExit ==
    ASSUME IInv, kont[currpid].at # "kill", NEW at, at # "kill", NEW arg,
           \/ kont' = kont
           \/ kont' = [kont EXCEPT ![currpid] = [at |-> at, arg |-> arg]]
    PROVE  \A p \in Pid : kont[p].at = "kill" => kont'[p] = kont[p]
BY DEF IInv, TypeOK

LEMMA BlockNew ==
    ASSUME IInv, kont[currpid].at \notin Inside, prstate[currpid] = "CURR",
           currpid # NULLPROC, NEW state \in Blocked \cup {"FREE"},
           Schedule(Block(state))
    PROVE  \A p \in Pid : prstate[p] = "FREE" => prstate'[p] = "FREE"
<1> DEFINE r == Block(state)
<1>1. \A q \in Pid \ {currpid} :
         IF prstate[q] \in {"READY", "CURR"} THEN r.st[q] \in {"READY", "CURR"}
         ELSE r.st[q] = prstate[q]
  BY BlockSettles
<1>2. prstate' = r.st
  BY DEF Schedule
<1> HIDE DEF r
<1> QED
  BY <1>1, <1>2

LEMMA SendWakes ==
    ASSUME IInv, prstate[currpid] = "CURR", kont[currpid].at \notin Inside,
           NEW p \in Pid, SendTo(p) \/ UNCHANGED <<prhasmsg, sleepq, sched>>
    PROVE  Wakes
<1>1. CASE prstate' = prstate
  BY <1>1 DEF Wakes
<1>2. CASE prstate[p] \in {"RECV", "RECTIM"} /\ Schedule(Ready(Now, p))
  <2> DEFINE r == Ready(Now, p)
  <2>1. Sched(Now) /\ Now.st = prstate /\ prprio \in [Pid -> Int]
    BY NowSched DEF Now, IInv, TypeOK
  <2>2. Settled(Now, {p}, r)
    BY <1>2, <2>1, ReadySettles DEF Blocked
  <2>3. prstate' = r.st
    BY <1>2 DEF Schedule
  <2> HIDE DEF r
  <2> QED
    BY <1>2, <2>1, <2>2, <2>3 DEF Settled, Wakes
<1> QED
  BY <1>1, <1>2 DEF SendTo, sched, Schedule, Now

LEMMA CreateBooks ==
    ASSUME IInv, Books, Create
    PROVE  Books'
<1> DEFINE new == Newpid
<1>1. /\ prcount' = prcount + 1 /\ kont' = kont /\ ~halted'
      /\ prstate' = prstate \/ prstate' = [prstate EXCEPT ![new] = "SUSP"]
  BY DEF Create, Call, At
<1>2. Busy' \subseteq Busy \cup {new}
  BY <1>1 DEF Busy, Live, Dying, IInv, TypeOK
<1> HIDE DEF new
<1>3. /\ IsFiniteSet(Busy \cup {new})
      /\ Cardinality(Busy \cup {new}) <= Cardinality(Busy) + 1
      /\ Cardinality(Busy \cup {new}) \in Nat
  <2>1. /\ IsFiniteSet(Busy \cup {new})
        /\ Cardinality(Busy \cup {new}) =
              IF new \in Busy THEN Cardinality(Busy) ELSE Cardinality(Busy) + 1
    BY BusyFinite, FS_AddElement, Zenon
  <2>2. Cardinality(Busy) \in Nat
    BY BusyFinite
  <2> QED
    BY <2>1, <2>2
<1>4. Cardinality(Busy') <= Cardinality(Busy \cup {new})
  BY <1>2, <1>3, FS_Subset
<1>5. prcount \in Int
  BY DEF IInv, TypeOK
<1>6. Cardinality(Busy') <= prcount'
  BY <1>1, <1>3, <1>4, <1>5, BusyFinite DEF Books
<1> QED
  BY <1>1, <1>6 DEF Books

LEMMA KillBooks ==
    ASSUME IInv, Books, KillsApart', NEW p \in Pid, Kill(p)
    PROVE  Books'
<1>1. /\ p # NULLPROC /\ Live(p) /\ ~halted
      /\ currpid \in Pid /\ prstate[currpid] = "CURR"
      /\ kont[currpid].at = "user" /\ kont[currpid].at \notin Inside
  BY Calling DEF Kill, MayKill, Call, At, Inside
<1>2. /\ prcount' = prcount - 1
      /\ kont' = [kont EXCEPT ![currpid] = [at |-> "kill", arg |-> p]]
      /\ IF prcount' <= 1 THEN halted' = TRUE ELSE halted' = halted
      /\ SendTo(prparent[p]) \/ UNCHANGED <<prhasmsg, sleepq, sched>>
  BY DEF Kill, Goto
<1>3. Wakes
  <2>1. prparent[p] \in Pid
    BY DEF IInv, TypeOK
  <2> QED
    BY <1>1, <1>2, <2>1, SendWakes
<1>4. /\ kont'[currpid] = [at |-> "kill", arg |-> p]
      /\ \A q \in Pid : q # currpid => kont'[q] = kont[q]
  BY <1>2 DEF IInv, TypeOK
<1>5. Busy' \subseteq Busy \ {p}
  <2>1. \A q \in Pid : Dying(q) => Dying(q)'
    BY <1>1, <1>4 DEF Dying
  <2>2. Dying(p)'
    BY <1>1, <1>4 DEF Dying
  <2> QED
    BY <1>3, <2>1, <2>2 DEF Busy, Live, Wakes
<1>6. p \in Busy
  <2>1. ASSUME NEW q \in Pid, kont[q] = [at |-> "kill", arg |-> p] PROVE FALSE
    <3>1. q # currpid
      BY <1>1, <2>1
    <3>2. /\ kont'[q].at = "kill" /\ kont'[q].arg = p
          /\ kont'[currpid].at = "kill" /\ kont'[currpid].arg = p
      BY <1>4, <2>1, <3>1
    <3> QED
      BY <1>1, <3>1, <3>2 DEF KillsApart
  <2> QED
    BY <1>1, <2>1 DEF Busy, Dying
<1>7. /\ IsFiniteSet(Busy \ {p}) /\ Cardinality(Busy \ {p}) = Cardinality(Busy) - 1
      /\ Cardinality(Busy \ {p}) \in Nat
  BY <1>6, BusyFinite, FS_RemoveElement, FS_CardinalityType
<1>8. Cardinality(Busy') <= Cardinality(Busy \ {p})
  BY <1>5, <1>7, FS_Subset
<1>9. prcount \in Int
  BY DEF IInv, TypeOK
<1>10. Cardinality(Busy') <= prcount' /\ Cardinality(Busy \ {p}) <= prcount'
  BY <1>2, <1>7, <1>8, <1>9, BusyFinite DEF Books
<1>11. ASSUME halted' PROVE Busy' \subseteq {NULLPROC}
  <2>1. prcount' <= 1 /\ prcount' \in Int
    <3>1. prcount' <= 1
      BY <1>1, <1>2, <1>11, Zenon
    <3>2. prcount' \in Int
      BY <1>2, <1>9
    <3> QED
      BY <3>1, <3>2
  <2>2. NULLPROC \in Busy \ {p}
    <3>1. Live(NULLPROC) /\ NULLPROC \in Pid
      BY PidFacts DEF Live, IInv, Turn
    <3>2. ~Dying(NULLPROC)
      BY DEF Dying, IInv, CallPart, Progress
    <3> QED
      BY <1>1, <3>1, <3>2 DEF Busy
  <2>3. {NULLPROC} \in SUBSET (Busy \ {p})
    BY <2>2
  <2>4. Cardinality({NULLPROC}) = 1 /\ Cardinality({NULLPROC}) <= Cardinality(Busy \ {p})
    BY <1>7, <2>3, FS_Singleton, FS_Subset
  <2>5. Cardinality(Busy \ {p}) = Cardinality({NULLPROC})
    <3> DEFINE c == Cardinality(Busy \ {p})
               d == Cardinality({NULLPROC})
    <3>1. c \in Nat /\ d = 1 /\ d <= c /\ c <= prcount'
      BY <1>7, <1>10, <2>4
    <3> HIDE DEF c, d
    <3>2. c = d
      BY <2>1, <3>1
    <3> QED
      BY <3>2 DEF c, d
  <2>6. Busy \ {p} = {NULLPROC}
    BY <1>7, <2>3, <2>5, FS_Subset
  <2> QED
    BY <1>5, <2>6
<1> QED
  BY <1>10, <1>11 DEF Books

LEMMA CallBooks ==
    ASSUME IInv, Books, KillsApart', SystemCall
    PROVE  Books'
<1>1. /\ kont[currpid].at = "user" /\ kont[currpid].at \notin Inside
      /\ currpid \in Pid /\ currpid # NULLPROC /\ prstate[currpid] = "CURR"
  <2>1. \E name : Call(name)
    BY DEF SystemCall, Create, Yield, Receive, Recvclr, Resume, Suspend, Kill, MayKill,
       Send, Chprio, Sleepms, Recvtime, Wait, Signal, Semdelete, Semcreate, Signaln,
       Semreset
  <2>2. PICK name : Call(name)
    BY <2>1
  <2> QED
    BY <2>2, Calling DEF Inside
<1> DEFINE NoneBorn == \A p \in Pid : prstate[p] = "FREE" => prstate'[p] = "FREE"
           GoesOn == \/ kont' = kont
                     \/ \E at \in Konts \ {"kill"} : Goto(at, NULLPROC) \/ Goto(at, Target)
                                                     \/ \E p \in Pid : Goto(at, p)
<1>2. ASSUME NoneBorn, GoesOn, prcount' = prcount, halted' = halted PROVE Books'
  <2>1. \A p \in Pid : kont[p].at = "kill" => kont'[p] = kont[p]
    BY <1>1, <1>2, NoExit DEF Goto
  <2> QED
    BY <1>2, <2>1, BooksStay DEF NobodyNew
<1>3. ASSUME Wakes PROVE NoneBorn
  BY <1>3 DEF Wakes
<1>4. ASSUME UNCHANGED sched PROVE NoneBorn
  BY <1>4 DEF sched
<1>5. ASSUME NEW state \in Blocked, Schedule(Block(state)) PROVE NoneBorn
  BY <1>1, <1>5, BlockNew
<1> HIDE DEF NoneBorn
<1>6. CASE Create
  BY <1>6, CreateBooks
<1>7. CASE Yield
  BY <1>2, <1>3, <1>7, YieldStep DEF Yield
<1>8. CASE Receive
  <2>1. GoesOn
    BY <1>8 DEF Receive, Konts
  <2> QED
    BY <1>2, <1>4, <1>8, <2>1 DEF Receive
<1>9. CASE Recvclr
  BY <1>2, <1>4, <1>9 DEF Recvclr
<1>10. ASSUME NEW p \in Pid, Resume(p) PROVE Books'
  <2>1. GoesOn
    BY <1>10 DEF Resume, Konts
  <2> QED
    BY <1>2, <1>4, <1>10, <2>1 DEF Resume
<1>11. ASSUME NEW p \in Pid, Suspend(p) PROVE Books'
  <2>1. CASE Schedule(Block("SUSP"))
    BY <1>2, <1>5, <1>11, <2>1 DEF Suspend, Blocked
  <2>2. CASE prstate[p] = "READY" /\ prstate' = [prstate EXCEPT ![p] = "SUSP"]
    <3>1. NoneBorn
      BY <2>2 DEF NoneBorn, IInv, TypeOK
    <3> QED
      BY <1>2, <1>11, <3>1 DEF Suspend
  <2> QED
    BY <1>11, <2>1, <2>2 DEF Suspend
<1>12. ASSUME NEW p \in Pid, Kill(p) PROVE Books'
  BY <1>12, KillBooks
<1>13. ASSUME NEW p \in Pid, Send(p) PROVE Books'
  <2>1. Wakes
    BY <1>1, <1>13, SendWakes DEF Send
  <2> QED
    BY <1>2, <1>3, <1>13, <2>1 DEF Send
<1>14. ASSUME NEW p \in Pid, NEW newprio \in Prios, Chprio(p, newprio) PROVE Books'
  BY <1>2, <1>4, <1>14 DEF Chprio
<1>15. ASSUME NEW delay \in Delays, Sleepms(delay) PROVE Books'
  BY <1>2, <1>5, <1>15 DEF Sleepms, Blocked
<1>16. ASSUME NEW maxwait \in Waits, Recvtime(maxwait) PROVE Books'
  <2>1. CASE prhasmsg[currpid]
    BY <1>2, <1>4, <1>16, <2>1 DEF Recvtime
  <2>2. CASE ~prhasmsg[currpid]
    <3>1. Schedule(Block("RECTIM")) /\ Goto("timetake", NULLPROC)
      BY <1>16, <2>2 DEF Recvtime
    <3>2. GoesOn
      BY <3>1 DEF Konts
    <3> QED
      BY <1>2, <1>5, <1>16, <3>1, <3>2 DEF Recvtime, Blocked
  <2> QED
    BY <2>1, <2>2
<1>17. ASSUME NEW s \in Sem, Wait(s) PROVE Books'
  <2>1. CASE Schedule(Block("WAIT"))
    BY <1>2, <1>5, <1>17, <2>1 DEF Wait, Blocked
  <2>2. CASE UNCHANGED sched
    BY <1>2, <1>4, <1>17, <2>2 DEF Wait
  <2> QED
    BY <1>17, <2>1, <2>2 DEF Wait
<1>18. ASSUME NEW s \in Sem, Signal(s) \/ Semdelete(s) PROVE Books'
  <2>1. Wakes
    BY <1>18, SignalStep, SemdeleteStep
  <2> QED
    BY <1>2, <1>3, <1>18, <2>1 DEF Signal, Semdelete
<1>19. ASSUME NEW s \in Sem, NEW count \in Counts, Signaln(s, count) \/ Semreset(s, count)
       PROVE  Books'
  <2>1. Wakes
    BY <1>19, SignalnStep, SemresetStep
  <2> QED
    BY <1>2, <1>3, <1>19, <2>1 DEF Signaln, Semreset
<1>20. ASSUME NEW count \in Counts, Semcreate(count) PROVE Books'
  BY <1>2, <1>4, <1>20 DEF Semcreate
<1> QED
  BY <1>6, <1>7, <1>8, <1>9, <1>10, <1>11, <1>12, <1>13, <1>14, <1>15, <1>16,
     <1>17, <1>18, <1>19, <1>20
  DEF SystemCall

(* The victim is gone; whom it was killing itself, if anybody, would be     *)
(* left alive and uncounted.                                               *)
LEMMA KillRestBooks ==
    ASSUME IInv, Books, KillsApart, KillRest
    PROVE  Books'
<1>1. /\ kont[currpid].at = "kill" /\ kont[currpid].at \notin Inside
      /\ currpid \in Pid /\ currpid # NULLPROC /\ prstate[currpid] = "CURR"
      /\ Target \in Pid /\ Target = kont[currpid].arg
  BY Continuing DEF KillRest, Inside, Target, IInv, TypeOK
<1>2. /\ kont' = [kont EXCEPT ![currpid] = User, ![Target] = User]
      /\ prcount' = prcount /\ halted' = halted
  BY DEF KillRest
<1>3. \A p \in Pid : p # currpid /\ p # Target => kont'[p] = kont[p]
  BY <1>1, <1>2 DEF IInv, TypeOK
<1>4. /\ \A p \in Pid : prstate[p] = "FREE" => prstate'[p] = "FREE"
      /\ prstate'[Target] = "FREE"
  <2>1. CASE Target = currpid
    <3>1. Schedule(Block("FREE"))
      BY <2>1 DEF KillRest
    <3>2. prstate'[currpid] = "FREE"
      BY <1>1, <3>1, BlockSettles DEF Schedule
    <3> QED
      BY <1>1, <2>1, <3>1, <3>2, BlockNew
  <2>2. CASE Target # currpid
    BY <1>1, <2>2 DEF KillRest, IInv, TypeOK
  <2> QED
    BY <2>1, <2>2
<1>5. Busy' \in SUBSET Busy
  <2> SUFFICES ASSUME NEW p \in Pid, Live(p)', ~Dying(p)' PROVE p \in Busy
    BY DEF Busy
  <2>1. Live(p) /\ p # Target
    BY <1>4 DEF Live
  <2>2. ASSUME NEW q \in Pid, kont[q] = [at |-> "kill", arg |-> p] PROVE FALSE
    <3>1. q # currpid
      BY <1>1, <2>1, <2>2
    <3>2. CASE q = Target
      BY <1>1, <2>2, <3>1, <3>2 DEF KillsApart
    <3>3. CASE q # Target
      BY <1>3, <2>2, <3>1, <3>3 DEF Dying
    <3> QED
      BY <3>2, <3>3
  <2> QED
    BY <2>1, <2>2 DEF Busy, Dying
<1>6. Cardinality(Busy') <= Cardinality(Busy)
  BY <1>5, BusyFinite, FS_Subset
<1>7. prcount \in Int
  BY DEF IInv, TypeOK
<1>8. Cardinality(Busy') <= prcount'
  BY <1>2, <1>6, <1>7, BusyFinite DEF Books
<1> QED
  BY <1>2, <1>5, <1>8 DEF Books

LEMMA ContinueBooks ==
    ASSUME IInv, Books, KillsApart, Continue
    PROVE  Books'
<1> DEFINE NoneBorn == \A p \in Pid : prstate[p] = "FREE" => prstate'[p] = "FREE"
           GoesOn == \/ kont' = kont
                     \/ \E at \in Konts \ {"kill"}, arg \in Pid :
                           kont' = [kont EXCEPT ![currpid] = [at |-> at, arg |-> arg]]
<1>1. ASSUME kont[currpid].at # "kill", NoneBorn, GoesOn,
             prcount' = prcount, halted' = halted
      PROVE  Books'
  <2>1. \A p \in Pid : kont[p].at = "kill" => kont'[p] = kont[p]
    BY <1>1, NoExit
  <2> QED
    BY <1>1, <2>1, BooksStay DEF NobodyNew
<1>2. ASSUME Wakes PROVE NoneBorn
  BY <1>2 DEF Wakes
<1>3. ASSUME NEW at \in Konts \ {"kill"}, NEW arg \in Pid, Goto(at, arg) PROVE GoesOn
  BY <1>3 DEF Goto
<1>4. ASSUME Return PROVE GoesOn
  <2>1. User = [at |-> "user", arg |-> NULLPROC] /\ NULLPROC \in Pid
    BY PidFacts DEF User
  <2> QED
    BY <1>4, <2>1 DEF Return, Konts
<1>5. NULLPROC \in Pid /\ Target \in Pid
  BY PidFacts DEF Target, IInv, TypeOK
<1>6. ASSUME NoneBorn, kont' = kont, prcount' = prcount, halted' = halted PROVE Books'
  BY <1>6, BooksStay DEF NobodyNew
<1> HIDE DEF NoneBorn, GoesOn
<1>7. CASE ReadyMark
  <2>1. kont[currpid].at = "mark"
    BY <1>7 DEF ReadyMark, At
  <2>2. NoneBorn
    BY <1>5, <1>7 DEF ReadyMark, Live, NoneBorn, IInv, TypeOK
  <2>3. GoesOn
    BY <1>3, <1>4, <1>5, <1>7 DEF ReadyMark, Konts
  <2> QED
    BY <1>1, <1>7, <2>1, <2>2, <2>3 DEF ReadyMark
<1>8. CASE ReadyInsert
  <2>1. kont[currpid].at = "insert"
    BY <1>8 DEF ReadyInsert, At
  <2>2. NoneBorn
    BY <1>8 DEF ReadyInsert, NoneBorn
  <2>3. GoesOn
    BY <1>3, <1>5, <1>8 DEF ReadyInsert, Konts
  <2> QED
    BY <1>1, <1>8, <2>1, <2>2, <2>3 DEF ReadyInsert
<1>9. CASE ReadyResched
  <2>1. kont[currpid].at = "resched"
    BY <1>9 DEF ReadyResched, At
  <2>2. NoneBorn
    <3>1. prstate[currpid] = "CURR"
      BY <2>1 DEF IInv, Turn
    <3> QED
      BY <1>9, <3>1 DEF ReadyResched, NoneBorn, IInv, TypeOK
  <2>3. GoesOn
    BY <1>3, <1>4, <1>5, <1>9 DEF ReadyResched, Konts
  <2> QED
    BY <1>1, <1>9, <2>1, <2>2, <2>3 DEF ReadyResched
<1>10. CASE ReadySwitch
  <2>1. kont[currpid].at = "requeue"
    BY <1>10 DEF ReadySwitch, At
  <2>2. NoneBorn
    BY <1>2, <1>10, ReadySwitchStep
  <2> QED
    BY <1>1, <1>4, <1>10, <2>1, <2>2 DEF ReadySwitch
<1>11. CASE RecvState
  <2>1. kont[currpid].at = "recv"
    BY <1>11 DEF RecvState, At
  <2>2. NoneBorn
    <3>1. prstate[currpid] = "CURR"
      BY <2>1 DEF IInv, Turn
    <3> QED
      BY <1>11, <3>1 DEF RecvState, NoneBorn, IInv, TypeOK
  <2>3. GoesOn
    BY <1>3, <1>5, <1>11 DEF RecvState, Konts
  <2> QED
    BY <1>1, <1>11, <2>1, <2>2, <2>3 DEF RecvState
<1>12. CASE RecvYield
  <2>1. kont[currpid].at = "recvyield"
    BY <1>12 DEF RecvYield, At
  <2>2. NoneBorn
    BY <1>2, <1>12, RecvYieldStep
  <2>3. GoesOn
    BY <1>3, <1>5, <1>12 DEF RecvYield, Konts
  <2> QED
    BY <1>1, <1>12, <2>1, <2>2, <2>3 DEF RecvYield
<1>13. CASE RecvTake \/ RecvtimeTake
  <2>1. kont[currpid].at \in {"recvtake", "timetake"}
    BY <1>13 DEF RecvTake, RecvtimeTake, At
  <2>2. NoneBorn
    BY <1>13 DEF RecvTake, RecvtimeTake, NoneBorn, sched
  <2> QED
    BY <1>1, <1>4, <1>13, <2>1, <2>2 DEF RecvTake, RecvtimeTake
<1>14. CASE KillRest
  BY <1>14, KillRestBooks
<1>15. CASE TickRest
  BY <1>2, <1>6, <1>15, TickRestStep DEF TickRest
<1> QED
  BY <1>7, <1>8, <1>9, <1>10, <1>11, <1>12, <1>13, <1>14, <1>15 DEF Continue

(* "All user processes have completed" is true when xdone() says so,       *)
(* however processes exit and kill each other, until somebody is killed    *)
(* who is being killed already, or is killing.  A failed create() leaves   *)
(* prcount too high, but that only keeps the processor from halting.       *)
THEOREM CompletedWhenHalted ==
    ASSUME "resume" \notin Unmasked
    PROVE  Spec => HaltsWhenDone
<1>1. ASSUME Init PROVE Books
  <2>1. Busy = {0, 1}
    BY <1>1, PidFacts, UserFacts DEF Init, Busy, Live, Dying
  <2>2. Cardinality({0, 1}) = 2
    <3>1. {0, 1} = {0} \cup {1}
      OBVIOUS
    <3>2. IsFiniteSet({0}) /\ Cardinality({0}) = 1
      BY FS_Singleton
    <3> QED
      BY <3>1, <3>2, FS_AddElement
  <2> QED
    BY <1>1, <2>1, <2>2, UserFacts DEF Init, Books
<1>2. IInv /\ Books /\ KillsApart /\ KillsApart' /\ [Next]_vars => Books'
  <2> SUFFICES ASSUME IInv, Books, KillsApart, KillsApart', [Next]_vars PROVE Books'
    OBVIOUS
  <2>1. CASE UNCHANGED vars
    <3>1. UNCHANGED <<prstate, kont, prcount, halted>>
      BY <2>1 DEF vars, sched
    <3> QED
      BY <3>1, BooksStay DEF NobodyNew
  <2>2. CASE Tick
    <3>1. Wakes
      BY <2>2, TickStep
    <3>2. kont' = kont /\ prcount' = prcount /\ halted' = halted
      BY <2>2 DEF Tick
    <3> QED
      BY <3>1, <3>2, BooksStay DEF NobodyNew, Wakes
  <2> QED
    BY <2>1, <2>2, CallBooks, ContinueBooks DEF Next
<1>3. Books => AllCompleted
  BY DEF Books, Busy, AllCompleted
<1>4. Spec => []IInv
  BY Consistent
<1> QED
  BY <1>1, <1>2, <1>3, <1>4, PTL DEF Spec, HaltsWhenDone

--------------------------------------------------------------------------------
(* The sleep list as an alarm clock.                                       *)

(* What AlarmClock's left and handling see of a step.                      *)
Rings == [Alarm!Next]_(Alarm!vars)

LEMMA SleepList ==
    ASSUME IInv
    PROVE  /\ sleepq \in Seq(Entries(Pid)) /\ Once(sleepq)
           /\ Len(sleepq) \in Nat /\ DOMAIN sleepq = 1 .. Len(sleepq)
           /\ \A i \in 1 .. Len(sleepq) : sleepq[i].pid \in Pid /\ sleepq[i].key \in Int
<1>1. sleepq \in Seq(Entries(Pid)) /\ Once(sleepq)
  BY DEF IInv, TypeOK, SleepPart, Entries
<1> QED
  BY <1>1, ListTypes

LEMMA NothingCounts ==
    ASSUME Running(sleepq), sleepq' = sleepq, inclk' \subseteq inclk
    PROVE  Running(sleepq)' /\ Rings
<1>1. Alarm!FinishTick
  BY DEF Alarm!FinishTick
<1> QED
  BY <1>1 DEF Rings, Alarm!Next

(* sleepms() and recvtime().                                               *)
LEMMA FallsAsleep ==
    ASSUME IInv, Running(sleepq), prstate[currpid] = "CURR",
           NEW delay \in Delays \cup Waits, 0 \notin Waits,
           sleepq' = Insertd(sleepq, currpid, delay), inclk' = inclk
    PROVE  Running(sleepq)' /\ Rings
<1>1. PICK c \in Pid : c = currpid
  BY DEF IInv, TypeOK
<1> DEFINE list == sleepq
           new == Insertd(list, c, delay)
<1>2. delay \in Int /\ delay >= 1
  BY KernelAssumption
<1>3. c \in Pid /\ list \in Seq(Entries(Pid)) /\ Once(list) /\ c \notin PidsOf(list)
      /\ Running(list)
  BY <1>1, SleepList DEF IInv, TypeOK, SleepPart
<1>4. /\ Running(new)
      /\ \A p \in Pid : Left(new, p) = IF p = c THEN delay ELSE Left(list, p)
  <2> HIDE DEF list
  <2> QED
    BY <1>2, <1>3, InsertdLeft
<1>5. sleepq' = new /\ Left(list, c) = 0
  BY <1>3, <1>1 DEF Left
<1> HIDE DEF new
<1>6. Alarm!FallAsleep(c)
  <2>1. [p \in Pid |-> IF p \in PidsOf(new) THEN Delay(new, PosOf(new, p)) ELSE 0]
            = [p \in Pid |-> Left(new, p)]
    BY DEF Left
  <2>2. [p \in Pid |-> IF p \in PidsOf(list) THEN Delay(list, PosOf(list, p)) ELSE 0]
            = [p \in Pid |-> Left(list, p)]
    BY DEF Left
  <2>3. [p \in Pid |-> Left(new, p)] = [[p \in Pid |-> Left(list, p)] EXCEPT ![c] = delay]
    BY <1>4
  <2>4. [p \in Pid |-> IF p \in PidsOf(sleepq) THEN Delay(sleepq, PosOf(sleepq, p)) ELSE 0]'
            = [p \in Pid |-> IF p \in PidsOf(new) THEN Delay(new, PosOf(new, p)) ELSE 0]
    BY <1>5
  <2>5. ~Alarm!Asleep(c)
    BY <1>3 DEF Alarm!Asleep
  <2> QED
    BY <2>1, <2>2, <2>3, <2>4, <2>5 DEF Alarm!FallAsleep
<1>7. Running(sleepq)'
  BY <1>4, <1>5
<1>8. Alarm!Next
  BY <1>6 DEF Alarm!Next
<1> QED
  BY <1>7, <1>8 DEF Rings

(* A message or kill() comes before the time is over.                      *)
LEMMA WakesEarly ==
    ASSUME IInv, Running(sleepq), NEW p \in PidsOf(sleepq),
           sleepq' = Unsleep(sleepq, p), inclk' \subseteq inclk,
           \/ prstate'[p] = "FREE"
           \/ prstate[p] = "RECTIM" /\ ~prhasmsg[p] /\ prhasmsg'[p]
    PROVE  Running(sleepq)' /\ Rings
<1> DEFINE list == sleepq
           new == Unsleep(list, p)
<1>1. /\ list \in Seq(Entries(Pid)) /\ Once(list) /\ p \in PidsOf(list) /\ p \in Pid
      /\ Running(list)
  BY SleepList DEF PidsOf
<1>2. /\ Running(new)
      /\ \A q \in Pid : Left(new, q) = IF q = p THEN 0 ELSE Left(list, q)
  <2> HIDE DEF list
  <2> QED
    BY <1>1, UnsleepLeft
<1>3. Left(list, p) > 0
  <2>1. PICK i \in 1 .. Len(list) : list[i].pid = p
    BY <1>1, SleepList DEF PidsOf
  <2> HIDE DEF list
  <2>2. Left(list, list[i].pid) = Delay(list, i)
    BY <1>1, LeftAt
  <2>3. Delay(list, i) >= 1 /\ Delay(list, i) \in Int
    BY <1>1, RunningDelays, ListTypes, DelayInt
  <2> QED
    BY <2>1, <2>2, <2>3
<1>4. sleepq' = new
  OBVIOUS
<1> HIDE DEF new
<1>5. Alarm!WakeEarly(p)
  <2>1. [q \in Pid |-> IF q \in PidsOf(new) THEN Delay(new, PosOf(new, q)) ELSE 0]
            = [q \in Pid |-> Left(new, q)]
    BY DEF Left
  <2>2. [q \in Pid |-> IF q \in PidsOf(list) THEN Delay(list, PosOf(list, q)) ELSE 0]
            = [q \in Pid |-> Left(list, q)]
    BY DEF Left
  <2>3. [q \in Pid |-> Left(new, q)] = [[q \in Pid |-> Left(list, q)] EXCEPT ![p] = 0]
    BY <1>2
  <2>4. [q \in Pid |-> IF q \in PidsOf(sleepq) THEN Delay(sleepq, PosOf(sleepq, q)) ELSE 0]'
            = [q \in Pid |-> IF q \in PidsOf(new) THEN Delay(new, PosOf(new, q)) ELSE 0]
    BY <1>4
  <2>5. Alarm!Asleep(p)
    <3>1. [q \in Pid |-> Left(list, q)][p] > 0
      BY <1>1, <1>3
    <3> QED
      BY <2>2, <3>1 DEF Alarm!Asleep
  <2>6. \/ [q \in Pid |-> prstate[q] = "FREE"]'[p]
        \/ /\ [q \in Pid |-> prstate[q] = "RECTIM"][p] /\ ~prhasmsg[p] /\ prhasmsg'[p]
    BY <1>1
  <2> QED
    BY <2>1, <2>2, <2>3, <2>4, <2>5, <2>6 DEF Alarm!WakeEarly
<1>6. Running(sleepq)'
  BY <1>2, <1>4
<1>7. Alarm!Next
  BY <1>1, <1>5 DEF Alarm!Next
<1> QED
  BY <1>6, <1>7 DEF Rings

(* send() ends the wait of a process in recvtime().                        *)
LEMMA SendRings ==
    ASSUME IInv, Running(sleepq), NEW p \in Pid,
           SendTo(p) \/ UNCHANGED <<prhasmsg, sleepq, sched>>, inclk' = inclk
    PROVE  Running(sleepq)' /\ Rings
<1>1. CASE sleepq' = sleepq
  BY <1>1, NothingCounts
<1>2. CASE sleepq' # sleepq
  <2>1. /\ prstate[p] = "RECTIM" /\ ~prhasmsg[p]
        /\ prhasmsg' = [prhasmsg EXCEPT ![p] = TRUE] /\ sleepq' = Unsleep(sleepq, p)
    BY <1>2 DEF SendTo
  <2>2. p \in PidsOf(sleepq) /\ prhasmsg'[p]
    BY <2>1 DEF IInv, SleepPart, TypeOK
  <2> QED
    BY <2>1, <2>2, WakesEarly
<1> QED
  BY <1>1, <1>2

(* kill() takes its victim off the list.                                   *)
LEMMA KillRings ==
    ASSUME IInv, Running(sleepq), KillRest
    PROVE  Running(sleepq)' /\ Rings
<1>1. inclk' \subseteq inclk /\ currpid \in Pid /\ Target \in Pid
  BY DEF KillRest, IInv, TypeOK, Target
<1>2. CASE sleepq' = sleepq
  BY <1>1, <1>2, NothingCounts
<1>3. CASE sleepq' # sleepq
  <2>1. /\ prstate' = [prstate EXCEPT ![Target] = "FREE"]
        /\ prstate[Target] \in {"SLEEP", "RECTIM"} /\ sleepq' = Unsleep(sleepq, Target)
    BY <1>3 DEF KillRest, LeaveLists
  <2>2. Target \in PidsOf(sleepq) /\ prstate'[Target] = "FREE"
    BY <1>1, <2>1 DEF IInv, SleepPart, TypeOK
  <2> QED
    BY <1>1, <2>1, <2>2, WakesEarly
<1> QED
  BY <1>2, <1>3

(* A tick is counted off the list, and those it leaves nothing go.         *)
LEMMA TickLeft ==
    ASSUME IInv, Running(sleepq)
    PROVE  LET new == SubSeq(Counted, Due + 1, Len(Counted))
           IN  /\ Running(new)
               /\ \A p \in Pid : Left(new, p) = IF Left(sleepq, p) > 0
                                               THEN Left(sleepq, p) - 1 ELSE 0
<1> DEFINE old == sleepq
           list == Counted
           n == Due
           new == SubSeq(list, n + 1, Len(list))
           k == old[1].key - 1
<1>1. /\ old \in Seq(Entries(Pid)) /\ Once(old) /\ Running(old)
      /\ Len(old) \in Nat /\ DOMAIN old = 1 .. Len(old)
      /\ \A i \in 1 .. Len(old) : old[i].pid \in Pid /\ old[i].key \in Int
  BY SleepList
<1>2. list \in Seq(Entries(Pid)) /\ Once(list) /\ PidsOf(list) = PidsOf(old)
  BY CountedPids
<1>3. /\ n \in 0 .. Len(list) /\ \A i \in 1 .. n : list[i].key <= 0
      /\ IF n = 0 THEN list = <<>> \/ list[1].key # 0
         ELSE n < Len(list) => list[n + 1].key > 0
  BY DueRange
<1>4. /\ Len(list) = Len(old)
      /\ \A i \in 1 .. Len(old) : /\ list[i].pid = old[i].pid
                                  /\ list[i].key = old[i].key - IF i = 1 THEN 1 ELSE 0
  <2>1. CASE old = <<>>
    BY <2>1 DEF Counted
  <2>2. CASE old # <<>>
    <3>1. 1 \in 1 .. Len(old)
      <4>1. Len(old) # 0
        BY <1>1, <2>2, EmptySeq
      <4> QED
        BY <1>1, <4>1
    <3>2. list = [old EXCEPT ![1].key = k]
      BY <2>2 DEF Counted
    <3>3. k \in Int /\ k = old[1].key - 1 /\ old[1].key \in Int
      BY <1>1, <3>1
    <3> HIDE DEF old, list, k
    <3>4. /\ Len(list) = Len(old)
          /\ \A j \in 1 .. Len(old) : list[j].pid = old[j].pid
          /\ \A j \in 1 .. Len(old) : j # 1 => list[j] = old[j]
          /\ list[1].key = k
      BY <1>1, <3>1, <3>2, <3>3, ChangedKeys
    <3>5. ASSUME NEW i \in 1 .. Len(old)
          PROVE  list[i].key = old[i].key - IF i = 1 THEN 1 ELSE 0
      <4>1. CASE i = 1
        BY <3>3, <3>4, <4>1
      <4>2. CASE i # 1
        BY <1>1, <3>4, <4>2
      <4> QED
        BY <4>1, <4>2
    <3> QED
      BY <3>4, <3>5
  <2> QED
    BY <2>1, <2>2
<1> HIDE DEF old, list, n
<1>5. \A i \in 1 .. Len(old) : list[i].key \in Int /\ list[i].key >= 0
  BY <1>1, <1>4 DEF Running
<1>6. \A i \in 1 .. n : list[i].key = 0
  <2>1. \A i \in 1 .. n : i \in 1 .. Len(old)
    BY <1>1, <1>3, <1>4
  <2> QED
    BY <1>3, <1>5, <2>1
<1>7. ASSUME NEW i \in n + 1 .. Len(list) PROVE list[i].key >= 0 /\ (i = n + 1 => list[i].key >= 1)
  <2>1. i \in 1 .. Len(old) /\ n \in Nat
    BY <1>1, <1>3, <1>4
  <2>2. list[i].key \in Int /\ list[i].key >= 0
    BY <1>5, <2>1
  <2>3. CASE i = n + 1
    <3>1. n < Len(list) /\ (n = 0 => i = 1)
      BY <1>1, <1>4, <2>1, <2>3
    <3>2. n = 0 => list # <<>>
      BY <1>1, <1>4, <3>1
    <3>3. list[i].key # 0
      BY <1>3, <2>2, <2>3, <3>1, <3>2
    <3> QED
      BY <2>2, <3>3
  <2> QED
    BY <2>2, <2>3
<1>8. /\ Running(new)
      /\ \A i \in 1 .. Len(list) : Left(new, list[i].pid) = Delay(list, i)
      /\ \A p : p \notin PidsOf(list) => Left(new, p) = 0
  BY <1>2, <1>3, <1>6, <1>7, FrontOff
<1>9. \A i \in 1 .. Len(old) : Delay(list, i) = Delay(old, i) - 1
  <2> DEFINE U == {i \in 0 .. Len(old) : i = 0 \/ Delay(list, i) = Delay(old, i) - 1}
  <2>1. /\ Delay(list, 0) = 0 /\ Delay(old, 0) = 0
        /\ \A i \in 1 .. Len(old) : Delay(list, i) = Delay(list, i - 1) + list[i].key
        /\ \A i \in 1 .. Len(old) : Delay(old, i) = Delay(old, i - 1) + old[i].key
        /\ \A i \in 0 .. Len(old) : Delay(old, i) \in Int
    BY <1>1, <1>2, <1>4, DelaySums, DelayInt
  <2>2. 0 \in U
    BY <1>1
  <2>3. ASSUME NEW i \in 1 .. Len(old), i - 1 \in U PROVE i \in U
    <3>1. /\ Delay(list, i) = Delay(list, i - 1) + list[i].key
          /\ Delay(old, i) = Delay(old, i - 1) + old[i].key
          /\ list[i].key = old[i].key - IF i = 1 THEN 1 ELSE 0
          /\ old[i].key \in Int /\ i - 1 \in 0 .. Len(old)
      BY <1>1, <1>4, <2>1
    <3>2. CASE i = 1
      BY <2>1, <3>1, <3>2
    <3>3. CASE i # 1
      <4>1. Delay(list, i - 1) = Delay(old, i - 1) - 1 /\ Delay(old, i - 1) \in Int
        BY <2>1, <2>3, <3>1, <3>3
      <4> QED
        BY <3>1, <3>3, <4>1
    <3> QED
      BY <3>2, <3>3
  <2> HIDE DEF U
  <2>4. \A i \in 0 .. Len(old) : i \in U
    BY <1>1, <2>2, <2>3, Ascent
  <2> QED
    BY <1>1, <2>4 DEF U
<1>10. ASSUME NEW p \in Pid
       PROVE  Left(new, p) = IF Left(old, p) > 0 THEN Left(old, p) - 1 ELSE 0
  <2>1. CASE p \in PidsOf(old)
    <3>1. PICK i \in 1 .. Len(old) : old[i].pid = p
      BY <1>1, <2>1 DEF PidsOf
    <3>2. Left(old, p) = Delay(old, i)
      BY <1>1, <3>1, LeftAt
    <3>3. Left(new, p) = Delay(list, i)
      BY <1>4, <1>8, <3>1
    <3>4. Delay(old, i) >= 1 /\ Delay(old, i) \in Int
      BY <1>1, RunningDelays, DelayInt
    <3> QED
      BY <1>9, <3>2, <3>3, <3>4
  <2>2. CASE p \notin PidsOf(old)
    <3>1. Left(old, p) = 0
      BY <2>2 DEF Left
    <3> QED
      BY <1>2, <1>8, <2>2, <3>1
  <2> QED
    BY <2>1, <2>2
<1> QED
  BY <1>8, <1>10 DEF old, list, n

LEMMA TickRings ==
    ASSUME IInv, Running(sleepq), Tick
    PROVE  Running(sleepq)' /\ Rings
<1> DEFINE list == sleepq
           new == SubSeq(Counted, Due + 1, Len(Counted))
<1>1. /\ sleepq' = new /\ currpid \in Pid \ inclk /\ inclk' = inclk \cup {currpid}
  BY DEF Tick, IInv, TypeOK
<1>2. /\ Running(new)
      /\ \A p \in Pid : Left(new, p) = IF Left(list, p) > 0 THEN Left(list, p) - 1 ELSE 0
  BY TickLeft
<1> HIDE DEF new
<1>3. Alarm!Tick
  <2>1. [q \in Pid |-> IF q \in PidsOf(new) THEN Delay(new, PosOf(new, q)) ELSE 0]
            = [q \in Pid |-> Left(new, q)]
    BY DEF Left
  <2>2. [q \in Pid |-> IF q \in PidsOf(list) THEN Delay(list, PosOf(list, q)) ELSE 0]
            = [q \in Pid |-> Left(list, q)]
    BY DEF Left
  <2> DEFINE was == [q \in Pid |-> Left(list, q)]
  <2>3. [q \in Pid |-> Left(new, q)] = [q \in Pid |-> IF was[q] > 0 THEN was[q] - 1 ELSE 0]
    BY <1>2
  <2>4. [q \in Pid |-> IF q \in PidsOf(sleepq) THEN Delay(sleepq, PosOf(sleepq, q)) ELSE 0]'
            = [q \in Pid |-> IF q \in PidsOf(new) THEN Delay(new, PosOf(new, q)) ELSE 0]
    BY <1>1
  <2>5. \E p \in Pid \ inclk : inclk' = inclk \cup {p}
    BY <1>1
  <2> QED
    BY <2>1, <2>2, <2>3, <2>4, <2>5 DEF Alarm!Tick, Alarm!Asleep
<1>4. Running(sleepq)'
  BY <1>1, <1>2
<1> QED
  BY <1>3, <1>4 DEF Rings, Alarm!Next

LEMMA NextRings ==
    ASSUME IInv, Running(sleepq), 0 \notin Waits, [Next]_vars
    PROVE  Running(sleepq)' /\ Rings
<1>1. CASE UNCHANGED vars
  BY <1>1, NothingCounts DEF vars
<1>2. CASE Tick
  BY <1>2, TickRings
<1>3. CASE Continue
  <2>1. CASE KillRest
    BY <2>1, KillRings
  <2>2. CASE ~KillRest
    <3>1. sleepq' = sleepq /\ inclk' \subseteq inclk
      BY <1>3, <2>2 DEF Continue, ReadyMark, ReadyInsert, ReadyResched, ReadySwitch,
         RecvState, RecvYield, RecvTake, RecvtimeTake, TickRest
    <3> QED
      BY <3>1, NothingCounts
  <2> QED
    BY <2>1, <2>2
<1>4. CASE SystemCall
  <2>1. CASE Create \/ Yield \/ Receive \/ Recvclr
    <3>1. sleepq' = sleepq /\ inclk' = inclk
      BY <2>1 DEF Create, Yield, Receive, Recvclr
    <3> QED
      BY <3>1, NothingCounts
  <2>2. ASSUME NEW p \in Pid, Send(p) \/ Kill(p) PROVE Running(sleepq)' /\ Rings
    <3>1. CASE Send(p)
      BY <3>1, SendRings DEF Send
    <3>2. CASE Kill(p)
      <4>1. prparent[p] \in Pid /\ inclk' = inclk
            /\ (SendTo(prparent[p]) \/ UNCHANGED <<prhasmsg, sleepq, sched>>)
        BY <3>2 DEF Kill, IInv, TypeOK
      <4> QED
        BY <4>1, SendRings
    <3> QED
      BY <2>2, <3>1, <3>2
  <2>3. ASSUME NEW p \in Pid,
               Resume(p) \/ Suspend(p) \/ \E newprio \in Prios : Chprio(p, newprio)
        PROVE  Running(sleepq)' /\ Rings
    <3>1. sleepq' = sleepq /\ inclk' = inclk
      BY <2>3 DEF Resume, Suspend, Chprio
    <3> QED
      BY <3>1, NothingCounts
  <2>4. ASSUME NEW delay \in Delays, Sleepms(delay) PROVE Running(sleepq)' /\ Rings
    <3>1. prstate[currpid] = "CURR"
      BY <2>4, Calling DEF Sleepms
    <3> QED
      BY <2>4, <3>1, FallsAsleep DEF Sleepms
  <2>5. ASSUME NEW maxwait \in Waits, Recvtime(maxwait) PROVE Running(sleepq)' /\ Rings
    <3>1. prstate[currpid] = "CURR"
      BY <2>5, Calling DEF Recvtime
    <3>2. CASE sleepq' = sleepq
      BY <2>5, <3>2, NothingCounts DEF Recvtime
    <3>3. CASE sleepq' # sleepq
      BY <2>5, <3>1, <3>3, FallsAsleep DEF Recvtime
    <3> QED
      BY <3>2, <3>3
  <2>6. ASSUME NEW s \in Sem, Wait(s) \/ Signal(s) \/ Semdelete(s)
        PROVE  Running(sleepq)' /\ Rings
    <3>1. sleepq' = sleepq /\ inclk' = inclk
      BY <2>6 DEF Wait, Signal, Semdelete
    <3> QED
      BY <3>1, NothingCounts
  <2>7. ASSUME NEW count \in Counts,
               Semcreate(count) \/ \E s \in Sem : Signaln(s, count) \/ Semreset(s, count)
        PROVE  Running(sleepq)' /\ Rings
    <3>1. sleepq' = sleepq /\ inclk' = inclk
      BY <2>7 DEF Semcreate, Signaln, Semreset
    <3> QED
      BY <3>1, NothingCounts
  <2> QED
    BY <1>4, <2>1, <2>2, <2>3, <2>4, <2>5, <2>6, <2>7 DEF SystemCall
<1> QED
  BY <1>1, <1>2, <1>3, <1>4 DEF Next

(* Each process sleeps exactly as long as it asked, with every tick, and   *)
(* wakes earlier only if it is killed or gets its message, whatever is     *)
(* inserted into the list and taken off it in between; if nobody asks      *)
(* recvtime() to wait for no time at all.                                  *)
THEOREM SleepersWakeInTime ==
    ASSUME "resume" \notin Unmasked, 0 \notin Waits
    PROVE  Spec => SleepsExactly
<1>1. Init => IInv /\ Running(sleepq) /\ Alarm!Init
  <2> SUFFICES ASSUME Init PROVE IInv /\ Running(sleepq) /\ Alarm!Init
    OBVIOUS
  <2>1. sleepq = <<>> /\ inclk = {}
    BY DEF Init
  <2>2. PidsOf(sleepq) = {} /\ Running(sleepq)
    BY <2>1 DEF PidsOf, Running
  <2> QED
    BY <2>1, <2>2, InitInv DEF Alarm!Init
<1>2. IInv /\ Running(sleepq) /\ [Next]_vars => IInv' /\ Running(sleepq)' /\ Rings
  BY NextInv, NextRings
<1>3. Rings => [Alarm!Next]_(Alarm!vars)
  BY DEF Rings
<1> QED
  BY <1>1, <1>2, <1>3, PTL DEF Spec, SleepsExactly, Alarm!Spec

(* And no tick leaves anybody on the list who is overdue.                  *)
THEOREM NobodyOverdue ==
    ASSUME "resume" \notin Unmasked, 0 \notin Waits
    PROVE  Spec => []NoneOverdue
<1>1. Init => IInv /\ Running(sleepq)
  <2> SUFFICES ASSUME Init PROVE IInv /\ Running(sleepq)
    OBVIOUS
  <2>1. sleepq = <<>>
    BY DEF Init
  <2> QED
    BY <2>1, InitInv DEF Running
<1>2. IInv /\ Running(sleepq) /\ [Next]_vars => IInv' /\ Running(sleepq)'
  BY NextInv, NextRings
<1>3. IInv /\ Running(sleepq) => NoneOverdue
  <2> SUFFICES ASSUME IInv, Running(sleepq), NEW n \in DOMAIN sleepq
               PROVE  Delay(sleepq, n) >= 0
    BY DEF NoneOverdue
  <2>1. /\ sleepq \in Seq(Entries(Pid)) /\ n \in 1 .. Len(sleepq)
        /\ n \in 0 .. Len(sleepq)
    BY SleepList
  <2>2. Delay(sleepq, n) >= 1 /\ Delay(sleepq, n) \in Int
    BY <2>1, RunningDelays, DelayInt
  <2> QED
    BY <2>2
<1> QED
  BY <1>1, <1>2, <1>3, PTL DEF Spec
================================================================================
