---------------------------- MODULE QueueTab_proofs ----------------------------
(***************************************************************************)
(* For every number of processes and semaphores: queuetab[] stays a set of *)
(* consistently linked lists, the ready list stays sorted, no delta        *)
(* becomes negative, nobody on a list is lost from it, and the table       *)
(* implements the lists of QueueSpec.  The first part proves the inductive *)
(* invariant IInv of the links and keys; the second proves that the links  *)
(* hold the lists read off them (AllHeld), which each operation changes as *)
(* the one of QueueSpec does, with ListInv as its inductive invariant.     *)
(***************************************************************************)
EXTENDS QueueTab, XinuLists_proofs, FiniteSetTheorems

--------------------------------------------------------------------------------
(* Arithmetic of the table: heads and tails are the entries behind the     *)
(* processes', and alternate.                                              *)

LEMMA QueueIds ==
    \A q : q \in Queue <=> \E i \in 0 .. NSEM + 1 : q = NPROC + 2 * i
<1> USE QueueTabAssumption
<1>1. ASSUME NEW q, q \in Queue
      PROVE  \E i \in 0 .. NSEM + 1 : q = NPROC + 2 * i
  <2>1. CASE q = sleepq
    <3> WITNESS 0 \in 0 .. NSEM + 1
    <3> QED  BY <2>1 DEF sleepq
  <2>2. CASE q = readylist
    <3> WITNESS NSEM + 1 \in 0 .. NSEM + 1
    <3> QED  BY <2>2 DEF readylist
  <2>3. CASE q \in SemQueue
    <3>1. PICK s \in 0 .. NSEM - 1 : q = squeue(s)
      BY <2>3 DEF SemQueue
    <3> WITNESS s + 1 \in 0 .. NSEM + 1
    <3> QED  BY <3>1 DEF squeue
  <2> QED  BY <1>1, <2>1, <2>2, <2>3 DEF Queue
<1>2. ASSUME NEW i \in 0 .. NSEM + 1
      PROVE  NPROC + 2 * i \in Queue
  <2>1. CASE i = 0
    BY <2>1 DEF Queue, sleepq
  <2>2. CASE i = NSEM + 1
    BY <2>2 DEF Queue, readylist
  <2>3. CASE i \in 1 .. NSEM
    <3>1. i - 1 \in 0 .. NSEM - 1 /\ NPROC + 2 * i = squeue(i - 1)
      BY <2>3 DEF squeue
    <3> QED  BY <3>1 DEF Queue, SemQueue
  <2> QED  BY <2>1, <2>2, <2>3
<1> QED  BY <1>1, <1>2

(* A head is an entry of the table, no process, and no other list's tail. *)
LEMMA Heads ==
    ASSUME NEW q \in Queue
    PROVE  /\ q \in Node /\ q \notin Pid
           /\ q + 1 \in Node /\ q + 1 \notin Pid /\ q + 1 \notin Queue
<1>1. PICK i \in 0 .. NSEM + 1 : q = NPROC + 2 * i
  BY QueueIds
<1>2. q + 1 \notin Queue
  <2> SUFFICES ASSUME NEW j \in 0 .. NSEM + 1, q + 1 = NPROC + 2 * j
               PROVE  FALSE
    BY QueueIds
  <2> QED  BY <1>1, QueueTabAssumption
<1> QED  BY <1>1, <1>2, QueueTabAssumption DEF Node, NQENT, Pid

(* What is neither a process nor a head is the tail of a list.             *)
LEMMA Tails ==
    ASSUME NEW x \in Node, x \notin Pid, x \notin Queue
    PROVE  x - 1 \in Queue
<1>1. PICK k \in 0 .. 2 * NSEM + 3 : x = NPROC + k
  <2>1. x - NPROC \in 0 .. 2 * NSEM + 3
    BY QueueTabAssumption DEF Node, NQENT, Pid
  <2> QED  BY <2>1, QueueTabAssumption DEF Node
<1>2. PICK j \in 0 .. NSEM + 1 : k = 2 * j \/ k = 2 * j + 1
  <2>1. k \div 2 \in 0 .. NSEM + 1 /\ (k = 2 * (k \div 2) \/ k = 2 * (k \div 2) + 1)
    BY QueueTabAssumption
  <2> QED  BY <2>1
<1>3. CASE k = 2 * j
  BY <1>1, <1>3, QueueIds
<1>4. CASE k = 2 * j + 1
  <2>1. x - 1 = NPROC + 2 * j
    BY <1>1, <1>4, QueueTabAssumption
  <2> QED  BY <2>1, QueueIds
<1> QED  BY <1>2, <1>3, <1>4

(* The facts about the layout that the rest of the proof uses; Node, Queue *)
(* and the ids stay folded from here on.                                   *)
LEMMA Layout ==
    /\ Pid \subseteq Node
    /\ \A p \in Pid : p \in Int /\ p \notin Queue
    /\ \A x \in Node : x \in Int /\ (x < NPROC <=> x \in Pid)
    /\ EMPTY \notin Node /\ EMPTY \notin Queue
    /\ 0 \in Pid
    /\ sleepq \in Queue /\ readylist \in Queue /\ sleepq # readylist
    /\ SemQueue \subseteq Queue
    /\ sleepq \notin SemQueue /\ readylist \notin SemQueue
<1>1. \A p \in Pid : p \notin Queue
  BY Heads
<1>2. sleepq \notin SemQueue /\ readylist \notin SemQueue
  <2> SUFFICES ASSUME NEW s \in 0 .. NSEM - 1
               PROVE  sleepq # squeue(s) /\ readylist # squeue(s)
    BY DEF SemQueue
  <2> QED  BY QueueTabAssumption DEF squeue, sleepq, readylist
<1>3. EMPTY \notin Queue
  BY QueueIds, QueueTabAssumption DEF EMPTY
<1> QED
  BY <1>1, <1>2, <1>3, QueueTabAssumption
  DEF Pid, Node, NQENT, EMPTY, Queue, sleepq, readylist

(* Which list an entry belongs to, by kind of entry.                       *)
LEMMA OwnerOf ==
    ASSUME TypeOK, NEW x \in Node
    PROVE  /\ x \in Pid => Owner[x] = on[x]
           /\ x \in Queue => Owner[x] = x /\ Owner[x + 1] = x
           /\ x \notin Pid /\ x \notin Queue =>
                  Owner[x] \in Queue /\ x = queuetail(Owner[x])
           /\ Owner[x] \in Queue \cup {EMPTY}
           /\ Owner[x] = EMPTY => x \in Pid
<1>1. CASE x \in Pid
  BY <1>1, Layout DEF Owner, TypeOK
<1>2. CASE x \in Queue
  BY <1>2, Heads, Layout DEF Owner
<1>3. CASE x \notin Pid /\ x \notin Queue
  BY <1>3, Tails, Layout DEF Owner, queuetail
<1> QED  BY <1>1, <1>2, <1>3

--------------------------------------------------------------------------------
(* The two ways the links change.                                          *)

(* Entry by entry, what linking p behind b does to the links.              *)
LinkedBehind(p, b) ==
    \A x \in Node :
        /\ qnext'[x] = IF x = b THEN p ELSE IF x = p THEN qnext[b] ELSE qnext[x]
        /\ qprev'[x] = IF x = qnext[b] THEN p ELSE IF x = p THEN b ELSE qprev[x]

(* Linking a process that is on no list between b and a of list q.         *)
LEMMA LinkIn ==
    ASSUME TypeOK, LinksConsistent,
           NEW p \in Pid, on[p] = EMPTY,
           NEW q \in Queue,
           NEW b \in Node, Owner[b] = q, b # queuetail(q),
           LinkedBehind(p, b),
           on' = [on EXCEPT ![p] = q]
    PROVE  LinksConsistent'
<1> DEFINE a == qnext[b]
<1>1. /\ a \in Node /\ a \notin Queue /\ Owner[a] = q /\ qprev[a] = b
      /\ p \in Node /\ p \notin Queue /\ p # a /\ p # b
  BY Layout, OwnerOf DEF LinksConsistent, ForwardLinks
<1>2. \A x \in Node : Owner'[x] = IF x = p THEN q ELSE Owner[x]
  BY Layout DEF Owner, TypeOK
<1>3. \A x \in Node :
         /\ qnext'[x] = IF x = b THEN p ELSE IF x = p THEN a ELSE qnext[x]
         /\ qprev'[x] = IF x = a THEN p ELSE IF x = p THEN b ELSE qprev[x]
  BY DEF LinkedBehind
<1>4. EMPTY \notin Queue /\ Owner[p] = EMPTY
  BY Layout, OwnerOf
<1>5. ForwardLinks'
  <2> SUFFICES ASSUME NEW x \in Node, Owner'[x] # EMPTY, x # queuetail(Owner'[x])
               PROVE  /\ qnext'[x] \in Node \ Queue
                      /\ Owner'[qnext'[x]] = Owner'[x]
                      /\ qprev'[qnext'[x]] = x
    BY DEF ForwardLinks
  <2>1. CASE x = p
    BY <2>1, <1>1, <1>2, <1>3
  <2>2. CASE x = b
    BY <2>2, <1>1, <1>2, <1>3
  <2>3. CASE x # p /\ x # b
    <3>1. /\ qnext[x] \in Node \ Queue /\ Owner[qnext[x]] = Owner[x]
          /\ qprev[qnext[x]] = x
      BY <2>3, <1>2 DEF LinksConsistent, ForwardLinks
    <3>2. qnext[x] # p /\ qnext[x] # a
      BY <3>1, <2>3, <1>1, <1>2, <1>4
    <3> QED  BY <3>1, <3>2, <2>3, <1>2, <1>3
  <2> QED  BY <2>1, <2>2, <2>3
<1>6. BackwardLinks'
  <2> SUFFICES ASSUME NEW x \in Node, Owner'[x] # EMPTY, x \notin Queue
               PROVE  /\ qprev'[x] \in Node
                      /\ qprev'[x] # queuetail(Owner'[x])
                      /\ Owner'[qprev'[x]] = Owner'[x]
                      /\ qnext'[qprev'[x]] = x
    BY DEF BackwardLinks
  <2>1. CASE x = p
    BY <2>1, <1>1, <1>2, <1>3
  <2>2. CASE x = a
    <3>1. p # queuetail(q)
      BY Heads DEF queuetail
    <3> QED  BY <3>1, <2>2, <1>1, <1>2, <1>3
  <2>3. CASE x # p /\ x # a
    <3>1. /\ qprev[x] \in Node /\ qprev[x] # queuetail(Owner[x])
          /\ Owner[qprev[x]] = Owner[x] /\ qnext[qprev[x]] = x
      BY <2>3, <1>2 DEF LinksConsistent, BackwardLinks
    <3>2. qprev[x] # p
      BY <3>1, <2>3, <1>2, <1>4
    <3>3. qprev[x] # b
      BY <3>1, <2>3
    <3> QED  BY <3>1, <3>2, <3>3, <2>3, <1>2, <1>3
  <2> QED  BY <2>1, <2>2, <2>3
<1> QED  BY <1>5, <1>6 DEF LinksConsistent

(* Unlinking a process from the list it is on; what becomes of its own     *)
(* links does not matter.                                                  *)
LEMMA LinkOut ==
    ASSUME TypeOK, LinksConsistent,
           NEW p \in Pid, on[p] \in Queue,
           \A x \in Node \ {p} :
               /\ qnext'[x] = IF x = qprev[p] THEN qnext[p] ELSE qnext[x]
               /\ qprev'[x] = IF x = qnext[p] THEN qprev[p] ELSE qprev[x],
           on' = [on EXCEPT ![p] = EMPTY]
    PROVE  LinksConsistent'
<1> DEFINE n == qnext[p]
           r == qprev[p]
<1>1. p \in Node /\ p \notin Queue /\ Owner[p] \in Queue /\ EMPTY \notin Queue
  BY Layout, OwnerOf
<1>2. p # queuetail(Owner[p])
  BY <1>1, Heads DEF queuetail
<1>3. /\ n \in Node /\ n \notin Queue /\ Owner[n] = Owner[p] /\ qprev[n] = p
      /\ r \in Node /\ r # queuetail(Owner[p]) /\ Owner[r] = Owner[p] /\ qnext[r] = p
  BY <1>1, <1>2 DEF LinksConsistent, ForwardLinks, BackwardLinks
<1>4. \A x \in Node : Owner'[x] = IF x = p THEN EMPTY ELSE Owner[x]
  BY Layout DEF Owner, TypeOK
<1>5. \A x \in Node \ {p} : /\ qnext'[x] = IF x = r THEN n ELSE qnext[x]
                            /\ qprev'[x] = IF x = n THEN r ELSE qprev[x]
  OBVIOUS
<1>6. ForwardLinks'
  <2> SUFFICES ASSUME NEW x \in Node, Owner'[x] # EMPTY, x # queuetail(Owner'[x])
               PROVE  /\ qnext'[x] \in Node \ Queue
                      /\ Owner'[qnext'[x]] = Owner'[x]
                      /\ qprev'[qnext'[x]] = x
    BY DEF ForwardLinks
  <2>1. /\ x # p /\ qnext[x] \in Node \ Queue /\ Owner[qnext[x]] = Owner[x]
        /\ qprev[qnext[x]] = x
    BY <1>4 DEF LinksConsistent, ForwardLinks
  <2>2. CASE x = r
    <3>1. n # p
      BY <2>1, <2>2, <1>3
    <3> QED  BY <3>1, <2>1, <2>2, <1>3, <1>4, <1>5
  <2>3. CASE x # r
    <3>1. qnext[x] # p /\ qnext[x] # n
      BY <2>1, <2>3, <1>3
    <3> QED  BY <3>1, <2>1, <2>3, <1>4, <1>5
  <2> QED  BY <2>2, <2>3
<1>7. BackwardLinks'
  <2> SUFFICES ASSUME NEW x \in Node, Owner'[x] # EMPTY, x \notin Queue
               PROVE  /\ qprev'[x] \in Node
                      /\ qprev'[x] # queuetail(Owner'[x])
                      /\ Owner'[qprev'[x]] = Owner'[x]
                      /\ qnext'[qprev'[x]] = x
    BY DEF BackwardLinks
  <2>1. /\ x # p /\ qprev[x] \in Node /\ qprev[x] # queuetail(Owner[x])
        /\ Owner[qprev[x]] = Owner[x] /\ qnext[qprev[x]] = x
    BY <1>4 DEF LinksConsistent, BackwardLinks
  <2>2. CASE x = n
    <3>1. r # p
      BY <2>1, <2>2, <1>3
    <3> QED  BY <3>1, <2>1, <2>2, <1>3, <1>4, <1>5
  <2>3. CASE x # n
    <3>1. qprev[x] # p /\ qprev[x] # r
      BY <2>1, <2>3, <1>3
    <3> QED  BY <3>1, <2>1, <2>3, <1>4, <1>5
  <2> QED  BY <2>2, <2>3
<1> QED  BY <1>6, <1>7 DEF LinksConsistent

(* The order of the ready list survives both: removing an entry keeps its  *)
(* neighbours in order ...                                                 *)
LEMMA SortedOut ==
    ASSUME TypeOK, LinksConsistent, ReadySorted,
           NEW p \in Pid, on[p] \in Queue,
           \A x \in Node \ {p} :
               qnext'[x] = IF x = qprev[p] THEN qnext[p] ELSE qnext[x],
           on' = [on EXCEPT ![p] = EMPTY],
           \A x \in Node : Owner[x] = readylist => qkey'[x] = qkey[x]
    PROVE  ReadySorted'
<1>1. p \in Node /\ p \notin Queue /\ Owner[p] \in Queue /\ EMPTY \notin Queue
      /\ p # queuetail(Owner[p]) /\ readylist \in Queue
  BY Layout, OwnerOf, Heads DEF queuetail
<1>2. \A x \in Node : Owner'[x] = IF x = p THEN EMPTY ELSE Owner[x]
  BY Layout DEF Owner, TypeOK
<1> SUFFICES ASSUME NEW x \in Node, Owner'[x] = readylist, x # queuetail(readylist)
             PROVE  qkey'[x] >= qkey'[qnext'[x]]
  BY DEF ReadySorted
<1>3. x # p /\ Owner[x] = readylist
  BY <1>1, <1>2
<1>4. /\ qnext[x] \in Node /\ Owner[qnext[x]] = readylist /\ qprev[qnext[x]] = x
      /\ qkey[x] >= qkey[qnext[x]]
  BY <1>1, <1>3 DEF LinksConsistent, ForwardLinks, ReadySorted
<1>5. CASE x = qprev[p]
  <2>1. qnext[x] = p /\ Owner[p] = readylist
    BY <1>1, <1>3, <1>5 DEF LinksConsistent, BackwardLinks
  <2>2. qnext[p] \in Node /\ Owner[qnext[p]] = readylist /\ qkey[p] >= qkey[qnext[p]]
    BY <1>1, <2>1 DEF LinksConsistent, ForwardLinks, ReadySorted
  <2>3. qkey[x] \in Int /\ qkey[p] \in Int /\ qkey[qnext[p]] \in Int
    BY <1>1, <2>2 DEF TypeOK
  <2>4. qkey[x] >= qkey[qnext[p]]
    BY <1>4, <2>1, <2>2, <2>3
  <2> QED  BY <2>2, <2>4, <1>3, <1>5
<1>6. CASE x # qprev[p]
  BY <1>3, <1>4, <1>6
<1> QED  BY <1>5, <1>6

(* ... and a change to the other lists does not touch it.                  *)
LEMMA SortedElsewhere ==
    ASSUME TypeOK, LinksConsistent, ReadySorted,
           \A x \in Node : Owner'[x] = readylist =>
               Owner[x] = readylist /\ qnext'[x] = qnext[x],
           \A x \in Node : Owner[x] = readylist => qkey'[x] = qkey[x]
    PROVE  ReadySorted'
<1> SUFFICES ASSUME NEW x \in Node, Owner'[x] = readylist, x # queuetail(readylist)
             PROVE  qkey'[x] >= qkey'[qnext'[x]]
  BY DEF ReadySorted
<1>1. readylist # EMPTY
  BY Layout
<1>2. /\ Owner[x] = readylist /\ qnext'[x] = qnext[x]
      /\ qnext[x] \in Node /\ Owner[qnext[x]] = readylist
      /\ qkey[x] >= qkey[qnext[x]]
  BY <1>1 DEF LinksConsistent, ForwardLinks, ReadySorted
<1> QED  BY <1>2

(* What isempty(q) tells: the entry behind the head, and the one before    *)
(* the tail, is a process on that list.                                    *)
LEMMA FirstAndLast ==
    ASSUME TypeOK, LinksConsistent, NEW q \in Queue, ~isempty(q)
    PROVE  /\ firstid(q) \in Pid /\ on[firstid(q)] = q
           /\ lastid(q) \in Pid /\ on[lastid(q)] = q
<1>1. /\ q \in Node /\ queuetail(q) \in Node /\ queuetail(q) \notin Queue
      /\ queuetail(q) \notin Pid /\ q # queuetail(q)
      /\ Owner[q] = q /\ Owner[queuetail(q)] = q /\ q # EMPTY
  BY Heads, OwnerOf, Layout DEF queuetail
<1>2. qnext[q] \in Node /\ Owner[qnext[q]] = q
  BY <1>1 DEF LinksConsistent, ForwardLinks
<1>3. qnext[q] \in Pid
  BY <1>2, Layout, QueueTabAssumption DEF isempty, firstid
<1>4. /\ lastid(q) \in Node /\ Owner[lastid(q)] = q
      /\ lastid(q) # queuetail(q) /\ qnext[lastid(q)] = queuetail(q)
  BY <1>1 DEF LinksConsistent, BackwardLinks, lastid
<1>5. lastid(q) # q
  BY <1>1, <1>3, <1>4
<1>6. lastid(q) \in Pid
  BY <1>4, <1>5, OwnerOf
<1> QED  BY <1>2, <1>3, <1>4, <1>6, OwnerOf DEF firstid

--------------------------------------------------------------------------------
(* The initial table.                                                      *)

(* newqueue() leaves empty lists with their sentinels.                     *)
LEMMA InitTable == Init => TableInv
<1> SUFFICES ASSUME Init
             PROVE  TableInv
  OBVIOUS
<1>1. \A x \in Node : IF x \in Queue
                      THEN /\ qnext[x] = queuetail(x) /\ qprev[x] = EMPTY
                           /\ qkey[x] = MAXKEY
                      ELSE x \notin Pid =>
                           /\ qnext[x] = EMPTY /\ qprev[x] = x - 1
                           /\ qkey[x] = MINKEY
  BY Layout DEF Init, NewqueueKey
<1>2. TypeOK
  <2>1. qnext \in [Node -> Node \cup {EMPTY}]
    BY Heads, Layout DEF Init, queuetail
  <2>2. qprev \in [Node -> Node \cup {EMPTY}]
    BY Heads, Tails, Layout DEF Init
  <2>3. qkey \in [Node -> Int]
    BY DEF Init, NewqueueKey, MAXKEY, MINKEY
  <2> QED  BY <2>1, <2>2, <2>3, Layout DEF Init, TypeOK
<1>3. \A x \in Node : Owner[x] # EMPTY =>
        /\ x \notin Pid
        /\ x \in Queue => Owner[x] = x
        /\ x \notin Queue => Owner[x] = x - 1 /\ x - 1 \in Queue
  BY <1>2, Layout, Tails DEF Init, Owner
<1>4. \A q \in Queue : q \in Node /\ q + 1 \in Node /\ q + 1 \notin Queue
                     /\ Owner[q + 1] = q /\ q + 1 # q /\ (q + 1) - 1 = q
  BY <1>2, Heads, OwnerOf, Layout
<1>5. ForwardLinks
  <2> SUFFICES ASSUME NEW x \in Node, Owner[x] # EMPTY, x # queuetail(Owner[x])
               PROVE  /\ qnext[x] \in Node \ Queue
                      /\ Owner[qnext[x]] = Owner[x]
                      /\ qprev[qnext[x]] = x
    BY DEF ForwardLinks
  <2>1. x \in Queue
    BY <1>3, Layout DEF queuetail
  <2>2. qnext[x] = x + 1 /\ Owner[x] = x
    BY <1>1, <1>3, <2>1 DEF queuetail
  <2>3. qprev[x + 1] = x
    BY <1>1, <1>4, <2>1, Heads
  <2> QED  BY <1>4, <2>1, <2>2, <2>3
<1>6. BackwardLinks
  <2> SUFFICES ASSUME NEW x \in Node, Owner[x] # EMPTY, x \notin Queue
               PROVE  /\ qprev[x] \in Node
                      /\ qprev[x] # queuetail(Owner[x])
                      /\ Owner[qprev[x]] = Owner[x]
                      /\ qnext[qprev[x]] = x
    BY DEF BackwardLinks
  <2>1. x \notin Pid /\ Owner[x] = x - 1 /\ x - 1 \in Queue
    BY <1>3
  <2>2. qprev[x] = x - 1
    BY <1>1, <2>1
  <2>3. x - 1 \in Node /\ Owner[x - 1] = x - 1 /\ x - 1 # (x - 1) + 1
    BY <1>2, <2>1, Heads, OwnerOf, Layout
  <2>4. qnext[x - 1] = x
    BY <1>1, <2>1, <2>3, Layout DEF queuetail
  <2> QED  BY <2>1, <2>2, <2>3, <2>4 DEF queuetail
<1>7. Sentinels
  BY <1>1, Heads DEF Sentinels, queuetail
<1>8. ReadySorted
  <2> SUFFICES ASSUME NEW x \in Node, Owner[x] = readylist, x # queuetail(readylist)
               PROVE  qkey[x] >= qkey[qnext[x]]
    BY DEF ReadySorted
  <2>1. x = readylist /\ readylist \in Queue
    BY <1>3, Layout DEF queuetail
  <2>2. qkey[x] = MAXKEY /\ qkey[qnext[x]] = MINKEY
    BY <1>1, <1>7, <2>1 DEF Sentinels
  <2> QED  BY <2>2 DEF MAXKEY, MINKEY
<1>9. SleepKeysNatural /\ InsertPosition /\ InsertdPosition
  BY Layout DEF Init, SleepKeysNatural, InsertPosition, InsertdPosition
<1> QED  BY <1>2, <1>5, <1>6, <1>7, <1>8, <1>9 DEF TableInv, LinksConsistent

(* Nobody sleeps.                                                          *)
LEMMA InitDue == Init => NoneDue
<1> SUFFICES ASSUME Init
             PROVE  NoneDue
  OBVIOUS
<1>1. qnext[sleepq] = queuetail(sleepq)
  BY Layout, Heads DEF Init
<1> QED  BY <1>1, Layout, Heads DEF NoneDue, firstid, queuetail

--------------------------------------------------------------------------------
(* The operations that take a process off its list.                        *)

(* Whatever takes p off its list and keeps the keys of the others keeps    *)
(* the invariant.                                                          *)
LEMMA RemoveStep ==
    ASSUME TableInv, pc \in {"idle", "wakeup"},
           NEW p \in Pid, on[p] \in Queue,
           qnext' \in [Node -> Node \cup {EMPTY}],
           qprev' \in [Node -> Node \cup {EMPTY}],
           \A x \in Node \ {p} :
               /\ qnext'[x] = IF x = qprev[p] THEN qnext[p] ELSE qnext[x]
               /\ qprev'[x] = IF x = qnext[p] THEN qprev[p] ELSE qprev[x],
           on' = [on EXCEPT ![p] = EMPTY],
           qkey' \in [Node -> Int],
           \A x \in Node : ~(x \in Pid /\ on[x] = sleepq) => qkey'[x] = qkey[x],
           \A x \in Pid : on[x] = sleepq => qkey'[x] >= 0,
           UNCHANGED regs
    PROVE  TableInv'
<1>1. TypeOK'
  BY DEF TableInv, TypeOK, regs
<1>2. LinksConsistent'
  BY LinkOut DEF TableInv
<1>3. \A x \in Node : Owner[x] = readylist => qkey'[x] = qkey[x]
  BY Layout, OwnerOf DEF TableInv
<1>4. ReadySorted'
  BY <1>3, SortedOut DEF TableInv
<1>5. Sentinels'
  BY Heads DEF TableInv, Sentinels, queuetail
<1>6. SleepKeysNatural'
  BY Layout DEF TableInv, SleepKeysNatural, TypeOK
<1>7. InsertPosition' /\ InsertdPosition'
  BY DEF regs, InsertPosition, InsertdPosition
<1> QED  BY <1>1, <1>2, <1>4, <1>5, <1>6, <1>7 DEF TableInv

(* The neighbours of a process on a list are entries of the table.         *)
LEMMA Neighbours ==
    ASSUME TypeOK, LinksConsistent, NEW p \in Pid, on[p] \in Queue
    PROVE  /\ p \in Node
           /\ qnext[p] \in Node /\ Owner[qnext[p]] = on[p]
           /\ qprev[p] \in Node /\ Owner[qprev[p]] = on[p]
<1>1. /\ p \in Node /\ p \notin Queue /\ Owner[p] = on[p] /\ EMPTY \notin Queue
      /\ p # queuetail(on[p])
  BY Layout, OwnerOf, Heads DEF queuetail
<1>2. /\ qnext[p] \in Node /\ Owner[qnext[p]] = on[p] /\ qprev[qnext[p]] = p
      /\ qprev[p] \in Node /\ Owner[qprev[p]] = on[p] /\ qnext[qprev[p]] = p
  BY <1>1 DEF LinksConsistent, ForwardLinks, BackwardLinks
<1> QED  BY <1>1, <1>2

(* getitem() and what is built from it.                                    *)
LEMMA UnlinkStep ==
    ASSUME TableInv, pc = "idle",
           NEW p \in Pid, on[p] \in Queue,
           Unlink(p),
           on' = [on EXCEPT ![p] = EMPTY],
           UNCHANGED <<qkey, regs>>
    PROVE  TableInv'
<1>1. /\ qnext \in [Node -> Node \cup {EMPTY}] /\ qprev \in [Node -> Node \cup {EMPTY}]
      /\ qkey' = qkey /\ qkey \in [Node -> Int] /\ UNCHANGED regs
      /\ \A x \in Pid : on[x] = sleepq => qkey[x] >= 0
  BY DEF TableInv, TypeOK, SleepKeysNatural
<1>2. qnext[p] \in Node /\ qprev[p] \in Node
  BY Neighbours DEF TableInv
<1>3. /\ qnext' \in [Node -> Node \cup {EMPTY}] /\ qprev' \in [Node -> Node \cup {EMPTY}]
      /\ \A x \in Node :
             /\ qnext'[x] = IF x = qprev[p] THEN qnext[p] ELSE qnext[x]
             /\ qprev'[x] = IF x = qnext[p] THEN qprev[p] ELSE qprev[x]
  BY <1>1, <1>2 DEF Unlink
<1> QED  BY <1>1, <1>3, RemoveStep

(* getitem(), by kill() and suspend().                                     *)
LEMMA GetitemStep == \A p \in Pid : TableInv /\ GetitemPid(p) => TableInv'
BY UnlinkStep DEF GetitemPid

(* getfirst(): the entry behind the head of a list that is not empty.      *)
LEMMA GetfirstStep == \A q \in SemQueue : TableInv /\ Getfirst(q) => TableInv'
<1> SUFFICES ASSUME NEW q \in SemQueue, TableInv, Getfirst(q)
             PROVE  TableInv'
  OBVIOUS
<1>1. firstid(q) \in Pid /\ on[firstid(q)] \in Queue
  BY FirstAndLast, Layout DEF TableInv, Getfirst
<1> QED  BY <1>1, UnlinkStep DEF Getfirst

(* getlast(): the entry before the tail.                                   *)
LEMMA GetlastStep == \A q \in SemQueue : TableInv /\ Getlast(q) => TableInv'
<1> SUFFICES ASSUME NEW q \in SemQueue, TableInv, Getlast(q)
             PROVE  TableInv'
  OBVIOUS
<1>1. lastid(q) \in Pid /\ on[lastid(q)] \in Queue
  BY FirstAndLast, Layout DEF TableInv, Getlast
<1> QED  BY <1>1, UnlinkStep DEF Getlast

(* dequeue(): the removed entry's own links are cleared as well.           *)
LEMMA DequeueFromStep ==
    ASSUME TableInv, pc \in {"idle", "wakeup"},
           NEW q \in Queue, ~isempty(q), DequeueFrom(q)
    PROVE  TableInv'
<1> DEFINE p == firstid(q)
<1>1. p \in Pid /\ on[p] \in Queue
  BY FirstAndLast DEF TableInv
<1>2. qnext[p] \in Node /\ qprev[p] \in Node
  BY <1>1, Neighbours DEF TableInv
<1>3. /\ qnext' = [qnext EXCEPT ![qprev[p]] = qnext[p], ![p] = EMPTY]
      /\ qprev' = [qprev EXCEPT ![qnext[p]] = qprev[p], ![p] = EMPTY]
      /\ on' = [on EXCEPT ![p] = EMPTY] /\ qkey' = qkey /\ UNCHANGED regs
  BY DEF DequeueFrom
<1>4. /\ qnext \in [Node -> Node \cup {EMPTY}] /\ qprev \in [Node -> Node \cup {EMPTY}]
      /\ qkey \in [Node -> Int] /\ \A x \in Pid : on[x] = sleepq => qkey[x] >= 0
  BY DEF TableInv, TypeOK, SleepKeysNatural
<1> HIDE DEF p
<1>5. /\ qnext' \in [Node -> Node \cup {EMPTY}] /\ qprev' \in [Node -> Node \cup {EMPTY}]
      /\ \A x \in Node \ {p} :
             /\ qnext'[x] = IF x = qprev[p] THEN qnext[p] ELSE qnext[x]
             /\ qprev'[x] = IF x = qnext[p] THEN qprev[p] ELSE qprev[x]
  BY <1>2, <1>3, <1>4
<1> QED  BY <1>1, <1>3, <1>4, <1>5, RemoveStep

(* By the scheduler and signal(), and by wakeup().                         *)
LEMMA DequeueStep == \A q \in Queue : TableInv /\ Dequeue(q) => TableInv'
BY DequeueFromStep DEF Dequeue

(* The loop of wakeup() takes the first sleeper.                           *)
LEMMA WakeupNextStep == TableInv /\ WakeupNext => TableInv'
BY DequeueFromStep, Layout DEF WakeupNext, Due

(* unsleep() may change the key of the entry that follows.  The sum of two *)
(* natural delays is natural, and that entry is a sleeper's.               *)
LEMMA UnsleepStep == \A p \in Pid : TableInv /\ UnsleepPid(p) => TableInv'
<1> SUFFICES ASSUME NEW p \in Pid, TableInv, UnsleepPid(p)
             PROVE  TableInv'
  OBVIOUS
<1>1. /\ pc = "idle" /\ on[p] = sleepq /\ on[p] \in Queue /\ Unlink(p)
      /\ qkey' = IF qnext[p] < NPROC
                 THEN [qkey EXCEPT ![qnext[p]] = @ + qkey[p]] ELSE qkey
      /\ on' = [on EXCEPT ![p] = EMPTY] /\ UNCHANGED regs
  BY Layout DEF UnsleepPid
<1>2. /\ qnext \in [Node -> Node \cup {EMPTY}] /\ qprev \in [Node -> Node \cup {EMPTY}]
      /\ qkey \in [Node -> Int] /\ \A x \in Pid : on[x] = sleepq => qkey[x] >= 0
  BY DEF TableInv, TypeOK, SleepKeysNatural
<1>3. p \in Node /\ qnext[p] \in Node /\ qprev[p] \in Node /\ Owner[qnext[p]] = sleepq
  BY <1>1, Neighbours DEF TableInv
<1>4. qnext[p] < NPROC => qnext[p] \in Pid /\ on[qnext[p]] = sleepq
  BY <1>3, Layout, OwnerOf DEF TableInv
<1>5. /\ qnext' \in [Node -> Node \cup {EMPTY}] /\ qprev' \in [Node -> Node \cup {EMPTY}]
      /\ \A x \in Node :
             /\ qnext'[x] = IF x = qprev[p] THEN qnext[p] ELSE qnext[x]
             /\ qprev'[x] = IF x = qnext[p] THEN qprev[p] ELSE qprev[x]
  BY <1>1, <1>2, <1>3 DEF Unlink
<1>6. qkey[p] \in Int /\ qkey[p] >= 0 /\ qkey[qnext[p]] \in Int
  BY <1>1, <1>2, <1>3
<1>7. /\ qkey' \in [Node -> Int]
      /\ \A x \in Node : ~(x \in Pid /\ on[x] = sleepq) => qkey'[x] = qkey[x]
      /\ \A x \in Pid : on[x] = sleepq => qkey'[x] >= 0
  <2>1. CASE qnext[p] < NPROC
    <3>1. qkey' = [qkey EXCEPT ![qnext[p]] = qkey[qnext[p]] + qkey[p]]
      BY <1>1, <2>1
    <3> QED  BY <1>2, <1>3, <1>4, <1>6, <2>1, <3>1, Layout
  <2>2. CASE ~(qnext[p] < NPROC)
    BY <1>1, <1>2, <2>2
  <2> QED  BY <2>1, <2>2
<1> QED  BY <1>1, <1>5, <1>7, RemoveStep

--------------------------------------------------------------------------------
(* The operations that put a process on a list.  What they have in common: *)
(* p goes between b and its successor a, only keys of p and of sleepers    *)
(* change, and no scan is running afterwards.                              *)

KeysKept(p) ==
    \A x \in Node : x # p /\ ~(x \in Pid /\ on[x] = sleepq) => qkey'[x] = qkey[x]

LinkBehind(p, b) ==
    /\ qnext' = [qnext EXCEPT ![p] = qnext[b], ![b] = p]
    /\ qprev' = [qprev EXCEPT ![p] = b, ![qnext[b]] = p]

(* Whatever links p behind b, with a key that fits there, keeps the        *)
(* invariant.                                                              *)
LEMMA PlaceStep ==
    ASSUME TableInv,
           NEW p \in Pid, on[p] = EMPTY,
           NEW q \in Queue,
           NEW b \in Node, Owner[b] = q, b # queuetail(q),
           LinkBehind(p, b),
           on' = [on EXCEPT ![p] = q],
           qkey' \in [Node -> Int],
           KeysKept(p),
           q = readylist => qkey[b] >= qkey'[p] /\ qkey'[p] >= qkey[qnext[b]],
           SleepKeysNatural',
           pc' = "idle", arg' \in Pid, key' \in Int, curr' \in Node, prev' \in Node
    PROVE  TableInv'
<1> DEFINE a == qnext[b]
<1> USE DEF LinkBehind, KeysKept
<1>1. /\ qnext \in [Node -> Node \cup {EMPTY}] /\ qprev \in [Node -> Node \cup {EMPTY}]
      /\ qkey \in [Node -> Int] /\ on \in [Pid -> Queue \cup {EMPTY}]
      /\ TypeOK /\ LinksConsistent /\ ReadySorted /\ Sentinels
  BY DEF TableInv, TypeOK
<1>2. /\ p \in Node /\ p \notin Queue /\ Owner[p] = EMPTY /\ EMPTY \notin Queue
      /\ readylist # sleepq
  BY <1>1, Layout, OwnerOf
<1>3. /\ a \in Node /\ a \notin Queue /\ Owner[a] = q /\ qprev[a] = b /\ p # a /\ p # b
  BY <1>1, <1>2 DEF LinksConsistent, ForwardLinks
<1>4. \A x \in Node :
         /\ qnext'[x] = IF x = b THEN p ELSE IF x = p THEN a ELSE qnext[x]
         /\ qprev'[x] = IF x = a THEN p ELSE IF x = p THEN b ELSE qprev[x]
  BY <1>1, <1>2, <1>3
<1>5. LinksConsistent'
  <2>1. LinkedBehind(p, b)
    BY <1>4 DEF LinkedBehind
  <2> QED  BY <1>1, <2>1, LinkIn
<1>6. TypeOK'
  <2>1. qnext' \in [Node -> Node \cup {EMPTY}] /\ qprev' \in [Node -> Node \cup {EMPTY}]
    BY <1>1, <1>2, <1>3
  <2>2. on' \in [Pid -> Queue \cup {EMPTY}]
    BY <1>1
  <2> QED  BY <2>1, <2>2 DEF TypeOK
<1>7. Sentinels'
  <2> SUFFICES ASSUME NEW r \in Queue
               PROVE  qkey'[r] = MAXKEY /\ qkey'[queuetail(r)] = MINKEY
    BY DEF Sentinels
  <2>1. r \in Node \ Pid /\ queuetail(r) \in Node \ Pid
    BY Heads DEF queuetail
  <2> QED  BY <1>1, <2>1 DEF Sentinels
<1>8. \A x \in Node : Owner'[x] = IF x = p THEN q ELSE Owner[x]
  BY <1>1, Layout DEF Owner
<1>9. \A x \in Node : Owner[x] = readylist => x # p /\ qkey'[x] = qkey[x]
  BY <1>1, <1>2, Layout, OwnerOf
<1>10. ReadySorted'
  <2>1. CASE q # readylist
    <3>1. \A x \in Node : Owner'[x] = readylist =>
              Owner[x] = readylist /\ qnext'[x] = qnext[x]
      BY <2>1, <1>2, <1>4, <1>8
    <3> QED  BY <3>1, <1>1, <1>9, SortedElsewhere
  <2>2. CASE q = readylist
    <3> SUFFICES ASSUME NEW x \in Node, Owner'[x] = readylist, x # queuetail(readylist)
                 PROVE  qkey'[x] >= qkey'[qnext'[x]]
      BY DEF ReadySorted
    <3>1. CASE x = p
      <4>1. qnext'[x] = a /\ qkey'[a] = qkey[a]
        BY <3>1, <2>2, <1>2, <1>3, <1>4, <1>9
      <4> QED  BY <4>1, <3>1, <2>2
    <3>2. CASE x = b
      BY <3>2, <2>2, <1>3, <1>4, <1>9
    <3>3. CASE x # p /\ x # b
      <4>1. Owner[x] = readylist /\ qnext'[x] = qnext[x]
        BY <3>3, <1>4, <1>8
      <4>2. /\ qnext[x] \in Node /\ Owner[qnext[x]] = readylist
            /\ qkey[x] >= qkey[qnext[x]]
        BY <4>1, <1>1, <1>2, <2>2 DEF LinksConsistent, ForwardLinks, ReadySorted
      <4> QED  BY <4>1, <4>2, <1>9
    <3> QED  BY <3>1, <3>2, <3>3
  <2> QED  BY <2>1, <2>2
<1>11. InsertPosition' /\ InsertdPosition'
  BY DEF InsertPosition, InsertdPosition
<1> QED  BY <1>5, <1>6, <1>7, <1>10, <1>11 DEF TableInv

(* enqueue(): behind the last entry of a semaphore's queue.                *)
LEMMA EnqueueStep == \A p \in Pid, q \in SemQueue : TableInv /\ Enqueue(p, q) => TableInv'
<1> SUFFICES ASSUME NEW p \in Pid, NEW q \in SemQueue, TableInv, Enqueue(p, q)
             PROVE  TableInv'
  OBVIOUS
<1> DEFINE tail == queuetail(q)
           last == qprev[tail]
<1>1. /\ q \in Queue /\ q # readylist /\ q # sleepq /\ q # EMPTY
      /\ tail \in Node /\ tail \notin Queue /\ Owner[tail] = q
  BY Layout, Heads, OwnerOf DEF TableInv, queuetail
<1>2. last \in Node /\ last # tail /\ Owner[last] = q /\ qnext[last] = tail
  BY <1>1 DEF TableInv, LinksConsistent, BackwardLinks
<1>3. /\ on[p] = EMPTY /\ on' = [on EXCEPT ![p] = q] /\ qkey' = qkey /\ UNCHANGED regs
      /\ pc = "idle"
      /\ qnext' = [qnext EXCEPT ![p] = tail, ![last] = p]
      /\ qprev' = [qprev EXCEPT ![p] = last, ![tail] = p]
  BY DEF Enqueue
<1>4. /\ pc' = "idle" /\ arg' \in Pid /\ key' \in Int /\ curr' \in Node /\ prev' \in Node
      /\ qkey' \in [Node -> Int]
  BY <1>3 DEF regs, TableInv, TypeOK
<1>5. SleepKeysNatural'
  BY <1>1, <1>3 DEF TableInv, TypeOK, SleepKeysNatural
<1>6. LinkBehind(p, last) /\ KeysKept(p)
  BY <1>2, <1>3 DEF LinkBehind, KeysKept
<1>7. last # queuetail(q)
  BY <1>2
<1> HIDE DEF tail, last
<1> QED  BY <1>1, <1>2, <1>3, <1>4, <1>5, <1>6, <1>7, PlaceStep

(* clkhandler() counts down the first sleeper, whose delay is positive.    *)
LEMMA ClockTickStep == TableInv /\ NoneDue /\ ClockTick => TableInv'
<1> SUFFICES ASSUME TableInv, NoneDue, ClockTick
             PROVE  TableInv'
  OBVIOUS
<1> DEFINE f == firstid(sleepq)
<1>1. f \in Pid /\ on[f] = sleepq /\ f \in Node
  BY FirstAndLast, Layout DEF TableInv, ClockTick
<1>2. /\ UNCHANGED <<links, on, arg, key, curr, prev>> /\ qkey[f] > 0
      /\ qkey' = [qkey EXCEPT ![f] = qkey[f] - 1] /\ pc' \in {"idle", "wakeup"}
  BY <1>1 DEF ClockTick, NoneDue
<1>3. qkey \in [Node -> Int]
  BY DEF TableInv, TypeOK
<1> HIDE DEF f
<1>4. qkey' \in [Node -> Int] /\ qkey'[f] >= 0 /\ \A x \in Node \ {f} : qkey'[x] = qkey[x]
  BY <1>1, <1>2, <1>3
<1>5. TypeOK' /\ Owner' = Owner
  BY <1>2, <1>4 DEF TableInv, TypeOK, links, Owner
<1>6. LinksConsistent'
  BY <1>2, <1>5 DEF TableInv, LinksConsistent, ForwardLinks, BackwardLinks, links
<1>7. Sentinels'
  <2> SUFFICES ASSUME NEW r \in Queue
               PROVE  qkey'[r] = MAXKEY /\ qkey'[queuetail(r)] = MINKEY
    BY DEF Sentinels
  <2>1. r \in Node \ {f} /\ queuetail(r) \in Node \ {f}
    BY <1>1, Heads DEF queuetail
  <2> QED  BY <1>4, <2>1 DEF TableInv, Sentinels
<1>8. ReadySorted'
  <2>1. \A x \in Node : Owner[x] = readylist => qkey'[x] = qkey[x]
    BY <1>1, <1>4, OwnerOf, Layout DEF TableInv
  <2> QED  BY <2>1, <1>2, <1>5, SortedElsewhere DEF TableInv, links
<1>9. SleepKeysNatural' /\ InsertPosition' /\ InsertdPosition'
  BY <1>2, <1>4, Layout
  DEF TableInv, SleepKeysNatural, InsertPosition, InsertdPosition
<1> QED  BY <1>5, <1>6, <1>7, <1>8, <1>9 DEF TableInv

--------------------------------------------------------------------------------
(* The scans.                                                              *)

(* A step of a scan leaves the table alone: only the registers matter.     *)
LEMMA ScanStep ==
    ASSUME TableInv, UNCHANGED <<links, qkey, on>>,
           pc' \in {"insert", "insertd"},
           arg' \in Pid, key' \in Int, curr' \in Node, prev' \in Node,
           InsertPosition', InsertdPosition'
    PROVE  TableInv'
<1>1. TypeOK' /\ Owner' = Owner
  BY DEF TableInv, TypeOK, links, Owner
<1>2. LinksConsistent'
  BY <1>1 DEF TableInv, LinksConsistent, ForwardLinks, BackwardLinks, links
<1>3. Sentinels' /\ ReadySorted' /\ SleepKeysNatural'
  BY <1>1 DEF TableInv, Sentinels, ReadySorted, SleepKeysNatural, links
<1> QED  BY <1>1, <1>2, <1>3 DEF TableInv

(* insert() starts at the first entry, which the head's MAXKEY precedes.   *)
LEMMA InsertCallStep == \A p \in Pid, k \in Prio : TableInv /\ InsertCall(p, k) => TableInv'
<1> SUFFICES ASSUME NEW p \in Pid, NEW k \in Prio, TableInv, InsertCall(p, k)
             PROVE  TableInv'
  OBVIOUS
<1>1. /\ readylist \in Queue /\ readylist \in Node /\ Owner[readylist] = readylist
      /\ readylist # EMPTY /\ readylist # queuetail(readylist)
  BY Heads, Layout, OwnerOf DEF TableInv, queuetail
<1>2. /\ firstid(readylist) \in Node \ Queue /\ Owner[firstid(readylist)] = readylist
      /\ qprev[firstid(readylist)] = readylist
  BY <1>1 DEF TableInv, LinksConsistent, ForwardLinks, firstid
<1>3. qkey[readylist] >= k /\ k \in Int
  <2>1. k \in Int /\ k <= 32767
    BY QueueTabAssumption
  <2>2. qkey[readylist] = MAXKEY
    BY <1>1 DEF TableInv, Sentinels
  <2> QED  BY <2>1, <2>2, SMT DEF MAXKEY
<1>4. /\ pc' = "insert" /\ arg' = p /\ key' = k /\ curr' = firstid(readylist) /\ prev' = prev
      /\ on[p] = EMPTY /\ UNCHANGED <<links, qkey, on>> /\ Owner' = Owner
  BY DEF InsertCall, Owner
<1>5. InsertPosition' /\ InsertdPosition'
  BY <1>1, <1>2, <1>3, <1>4 DEF InsertPosition, InsertdPosition, links
<1> QED  BY <1>2, <1>3, <1>4, <1>5, ScanStep DEF TableInv, TypeOK

(* The scan does not pass the tail: its key is below every priority.       *)
LEMMA InsertScanStep == TableInv /\ InsertScan => TableInv'
<1> SUFFICES ASSUME TableInv, InsertScan
             PROVE  TableInv'
  OBVIOUS
<1>1. /\ pc = "insert" /\ qkey[curr] >= key /\ key \in Prio /\ on[arg] = EMPTY
      /\ curr \in Node /\ Owner[curr] = readylist /\ readylist \in Queue /\ readylist # EMPTY
  BY Layout DEF TableInv, InsertPosition, InsertScan, TypeOK
<1>2. curr # queuetail(readylist)
  BY <1>1, QueueTabAssumption DEF TableInv, Sentinels, MINKEY
<1>3. /\ qnext[curr] \in Node \ Queue /\ Owner[qnext[curr]] = readylist
      /\ qprev[qnext[curr]] = curr
  BY <1>1, <1>2 DEF TableInv, LinksConsistent, ForwardLinks
<1>4. /\ pc' = pc /\ arg' = arg /\ key' = key /\ curr' = qnext[curr] /\ prev' = prev
      /\ UNCHANGED <<links, qkey, on>> /\ Owner' = Owner
  BY DEF InsertScan, Owner
<1>5. InsertPosition' /\ InsertdPosition'
  BY <1>1, <1>3, <1>4 DEF InsertPosition, InsertdPosition, links
<1> QED  BY <1>1, <1>3, <1>4, <1>5, ScanStep DEF TableInv, TypeOK

(* insert() links in front of the first smaller key.                       *)
LEMMA InsertLinkStep == TableInv /\ InsertLink => TableInv'
<1> SUFFICES ASSUME TableInv, InsertLink
             PROVE  TableInv'
  OBVIOUS
<1> DEFINE b == qprev[curr]
<1>1. /\ pc = "insert" /\ qkey[curr] < key /\ key \in Prio /\ key \in Int
      /\ arg \in Pid /\ on[arg] = EMPTY
      /\ curr \in Node /\ Owner[curr] = readylist /\ curr \notin Queue
      /\ qkey[b] >= key /\ readylist \in Queue /\ readylist # EMPTY
  BY Layout DEF TableInv, InsertPosition, InsertLink, TypeOK
<1>2. b \in Node /\ b # queuetail(readylist) /\ Owner[b] = readylist /\ qnext[b] = curr
  BY <1>1 DEF TableInv, LinksConsistent, BackwardLinks
<1>3. /\ LinkBetween(b, curr, readylist) /\ qkey' = [qkey EXCEPT ![arg] = key]
      /\ qkey \in [Node -> Int] /\ arg \in Node
  BY <1>1, Layout DEF InsertLink, TableInv, TypeOK
<1>4. /\ pc' = "idle" /\ arg' \in Pid /\ key' \in Int /\ curr' \in Node /\ prev' \in Node
      /\ on' = [on EXCEPT ![arg] = readylist] /\ qkey' \in [Node -> Int]
  BY <1>1, <1>3, Layout DEF LinkBetween
<1>5. LinkBehind(arg, b) /\ KeysKept(arg)
  BY <1>2, <1>3 DEF LinkBetween, LinkBehind, KeysKept
<1>6. SleepKeysNatural'
  BY <1>1, <1>3, <1>4, Layout DEF TableInv, SleepKeysNatural, TypeOK
<1>7. qkey[b] >= qkey'[arg] /\ qkey'[arg] >= qkey[qnext[b]]
  <2>1. qkey'[arg] = key /\ qkey[curr] \in Int /\ qkey[curr] < key
    BY <1>1, <1>3
  <2> QED  BY <2>1, <1>1, <1>2
<1> HIDE DEF b
<1> QED  BY <1>1, <1>2, <1>4, <1>5, <1>6, <1>7, PlaceStep

(* insertd() starts between the head and the first entry.                  *)
LEMMA InsertdCallStep ==
    \A p \in Pid, delay \in 1 .. MaxDelay : TableInv /\ InsertdCall(p, delay) => TableInv'
<1> SUFFICES ASSUME NEW p \in Pid, NEW delay \in 1 .. MaxDelay, TableInv, InsertdCall(p, delay)
             PROVE  TableInv'
  OBVIOUS
<1>1. /\ sleepq \in Queue /\ sleepq \in Node /\ Owner[sleepq] = sleepq
      /\ sleepq # EMPTY /\ sleepq # queuetail(sleepq)
  BY Heads, Layout, OwnerOf DEF TableInv, queuetail
<1>2. firstid(sleepq) \in Node /\ firstid(sleepq) = qnext[sleepq]
  BY <1>1 DEF TableInv, LinksConsistent, ForwardLinks, firstid
<1>3. /\ pc' = "insertd" /\ arg' = p /\ key' = delay /\ prev' = sleepq
      /\ curr' = firstid(sleepq)
      /\ on[p] = EMPTY /\ UNCHANGED <<links, qkey, on>> /\ Owner' = Owner
  BY DEF InsertdCall, Owner
<1>4. delay \in Int /\ delay > 0
  BY QueueTabAssumption
<1>5. InsertPosition' /\ InsertdPosition'
  BY <1>1, <1>2, <1>3, <1>4 DEF InsertPosition, InsertdPosition, links
<1> QED  BY <1>1, <1>2, <1>3, <1>4, <1>5, ScanStep

(* The scan deducts no more than is left of the delay.                     *)
LEMMA InsertdScanStep == TableInv /\ InsertdScan => TableInv'
<1> SUFFICES ASSUME TableInv, InsertdScan
             PROVE  TableInv'
  OBVIOUS
<1>1. /\ pc = "insertd" /\ curr # queuetail(sleepq) /\ qkey[curr] <= key
      /\ on[arg] = EMPTY /\ key \in Int /\ key >= 0
      /\ prev \in Node /\ prev # queuetail(sleepq) /\ Owner[prev] = sleepq
      /\ curr = qnext[prev] /\ sleepq # EMPTY
  BY Layout DEF TableInv, InsertdPosition, InsertdScan, InsertdGoesOn, TypeOK
<1>2. curr \in Node /\ Owner[curr] = sleepq /\ curr # sleepq
  BY <1>1, Layout DEF TableInv, LinksConsistent, ForwardLinks
<1>3. qnext[curr] \in Node
  BY <1>1, <1>2 DEF TableInv, LinksConsistent, ForwardLinks
<1>4. /\ pc' = pc /\ arg' = arg /\ prev' = curr /\ curr' = qnext[curr]
      /\ key' = key - qkey[curr]
      /\ UNCHANGED <<links, qkey, on>> /\ Owner' = Owner
  BY DEF InsertdScan, Owner
<1>5. qkey[curr] \in Int
  BY <1>2 DEF TableInv, TypeOK
<1>6. key' \in Int /\ key' >= 0
  BY <1>1, <1>4, <1>5
<1>7. InsertPosition' /\ InsertdPosition'
  BY <1>1, <1>2, <1>4, <1>6 DEF InsertPosition, InsertdPosition, links
<1> QED  BY <1>1, <1>2, <1>3, <1>4, <1>6, <1>7, ScanStep DEF TableInv, TypeOK

(* insertd() links and shortens the next entry by no more than its key.    *)
LEMMA InsertdLinkStep == TableInv /\ InsertdLink => TableInv'
<1> SUFFICES ASSUME TableInv, InsertdLink
             PROVE  TableInv'
  OBVIOUS
<1>1. /\ pc = "insertd" /\ arg \in Pid /\ on[arg] = EMPTY /\ key \in Int /\ key >= 0
      /\ prev \in Node /\ prev # queuetail(sleepq) /\ Owner[prev] = sleepq
      /\ curr = qnext[prev]
      /\ sleepq \in Queue /\ sleepq # EMPTY /\ sleepq # readylist
  BY Layout DEF TableInv, InsertdPosition, InsertdLink, TypeOK
<1>2. curr \in Node /\ Owner[curr] = sleepq /\ curr \notin Queue
  BY <1>1 DEF TableInv, LinksConsistent, ForwardLinks
<1>3. /\ LinkBetween(prev, curr, sleepq) /\ qkey \in [Node -> Int] /\ arg \in Node
      /\ qkey' = IF curr # queuetail(sleepq)
                 THEN [qkey EXCEPT ![arg] = key, ![curr] = @ - key]
                 ELSE [qkey EXCEPT ![arg] = key]
  BY <1>1, Layout DEF InsertdLink, TableInv, TypeOK
<1>4. /\ pc' = "idle" /\ arg' \in Pid /\ key' \in Int /\ curr' \in Node /\ prev' \in Node
      /\ on' = [on EXCEPT ![arg] = sleepq]
  BY <1>1, <1>3, Layout DEF LinkBetween
<1>5. arg # curr /\ (curr # queuetail(sleepq) => curr \in Pid /\ on[curr] = sleepq)
  BY <1>1, <1>2, Layout, OwnerOf DEF TableInv
<1>6. /\ qkey' \in [Node -> Int] /\ qkey'[arg] = key
      /\ \A x \in Node \ {arg, curr} : qkey'[x] = qkey[x]
      /\ curr # queuetail(sleepq) => qkey'[curr] = qkey[curr] - key
      /\ curr = queuetail(sleepq) => qkey'[curr] = qkey[curr]
  <2>1. qkey[curr] \in Int
    BY <1>2, <1>3
  <2>2. CASE curr # queuetail(sleepq)
    <3>1. qkey' = [qkey EXCEPT ![arg] = key, ![curr] = qkey[curr] - key]
      BY <1>3, <1>5, <2>2
    <3> QED  BY <3>1, <2>1, <2>2, <1>1, <1>2, <1>3, <1>5
  <2>3. CASE curr = queuetail(sleepq)
    BY <2>3, <1>1, <1>2, <1>3, <1>5
  <2> QED  BY <2>2, <2>3
<1>7. LinkBehind(arg, prev) /\ KeysKept(arg)
  <2>1. LinkBehind(arg, prev)
    BY <1>1, <1>3 DEF LinkBetween, LinkBehind
  <2>2. KeysKept(arg)
    BY <1>5, <1>6 DEF KeysKept
  <2> QED  BY <2>1, <2>2
<1>8. SleepKeysNatural'
  <2> SUFFICES ASSUME NEW p \in Pid, on'[p] = sleepq
               PROVE  qkey'[p] >= 0
    BY DEF SleepKeysNatural
  <2>1. CASE p = arg
    BY <2>1, <1>1, <1>6
  <2>2. CASE p # arg /\ p = curr
    <3>1. curr # queuetail(sleepq)
      BY <2>2, <1>1, Heads DEF queuetail
    <3>2. qkey[curr] > key /\ qkey[curr] \in Int
      BY <3>1, <1>1, <1>2, <1>3 DEF InsertdLink, InsertdGoesOn
    <3> QED  BY <3>1, <3>2, <2>2, <1>1, <1>6
  <2>3. CASE p # arg /\ p # curr
    BY <2>3, <1>4, <1>6, Layout DEF TableInv, SleepKeysNatural, TypeOK
  <2> QED  BY <2>1, <2>2, <2>3
<1> QED  BY <1>1, <1>4, <1>6, <1>7, <1>8, PlaceStep

(* wakeup() returns.                                                       *)
LEMMA WakeupEndStep == TableInv /\ WakeupEnd => TableInv'
<1> SUFFICES ASSUME TableInv, WakeupEnd
             PROVE  TableInv'
  OBVIOUS
<1>1. /\ pc' = "idle" /\ UNCHANGED <<links, qkey, on, arg, key, curr, prev>>
      /\ Owner' = Owner
  BY DEF WakeupEnd, Owner
<1>2. TypeOK' /\ LinksConsistent'
  BY <1>1 DEF TableInv, TypeOK, LinksConsistent, ForwardLinks, BackwardLinks, links
<1>3. Sentinels' /\ ReadySorted' /\ SleepKeysNatural'
  BY <1>1 DEF TableInv, Sentinels, ReadySorted, SleepKeysNatural, links
<1>4. InsertPosition' /\ InsertdPosition'
  BY <1>1 DEF InsertPosition, InsertdPosition
<1> QED  BY <1>2, <1>3, <1>4 DEF TableInv

(* A step outside the module changes nothing the invariant reads.          *)
LEMMA StutterStep == TableInv /\ UNCHANGED vars => TableInv'
<1> SUFFICES ASSUME TableInv, UNCHANGED vars
             PROVE  TableInv'
  OBVIOUS
<1>1. TypeOK' /\ Owner' = Owner
  BY DEF TableInv, TypeOK, vars, Owner
<1>2. LinksConsistent'
  BY <1>1 DEF TableInv, LinksConsistent, ForwardLinks, BackwardLinks, vars
<1>3. Sentinels' /\ ReadySorted' /\ SleepKeysNatural'
  BY <1>1 DEF TableInv, Sentinels, ReadySorted, SleepKeysNatural, vars
<1>4. InsertPosition' /\ InsertdPosition'
  BY <1>1 DEF TableInv, InsertPosition, InsertdPosition, vars
<1> QED  BY <1>1, <1>2, <1>3, <1>4 DEF TableInv

(* Every step keeps the table well formed.                                 *)
LEMMA TableStep == IInv /\ [Next]_vars => TableInv'
<1> SUFFICES ASSUME TableInv, NoneDue, [Next]_vars
             PROVE  TableInv'
  BY DEF IInv
<1>1. ASSUME NEW p \in Pid, NEW q \in SemQueue, Enqueue(p, q)
      PROVE  TableInv'
  BY <1>1, EnqueueStep
<1>2. ASSUME NEW p \in Pid, NEW k \in Prio, InsertCall(p, k)
      PROVE  TableInv'
  BY <1>2, InsertCallStep
<1>3. ASSUME NEW p \in Pid, NEW delay \in 1 .. MaxDelay, InsertdCall(p, delay)
      PROVE  TableInv'
  BY <1>3, InsertdCallStep
<1>4. ASSUME NEW p \in Pid, GetitemPid(p) \/ UnsleepPid(p)
      PROVE  TableInv'
  BY <1>4, GetitemStep, UnsleepStep
<1>5. ASSUME NEW q \in SemQueue, Getfirst(q) \/ Getlast(q)
      PROVE  TableInv'
  BY <1>5, GetfirstStep, GetlastStep
<1>6. ASSUME NEW q \in Queue \ {sleepq}, Dequeue(q)
      PROVE  TableInv'
  BY <1>6, DequeueStep
<1>7. CASE InsertScan
  BY <1>7, InsertScanStep
<1>8. CASE InsertLink
  BY <1>8, InsertLinkStep
<1>9. CASE InsertdScan
  BY <1>9, InsertdScanStep
<1>10. CASE InsertdLink
  BY <1>10, InsertdLinkStep
<1>11. CASE ClockTick
  BY <1>11, ClockTickStep
<1>12. CASE WakeupNext
  BY <1>12, WakeupNextStep
<1>13. CASE WakeupEnd
  BY <1>13, WakeupEndStep
<1>14. CASE UNCHANGED vars
  BY <1>14, StutterStep
<1> QED
  BY <1>1, <1>2, <1>3, <1>4, <1>5, <1>6, <1>7, <1>8, <1>9, <1>10, <1>11, <1>12,
     <1>13, <1>14
  DEF Next

--------------------------------------------------------------------------------
(* The first sleeper.                                                      *)

(* The entry behind the head of the sleep list is a sleeper or the tail.   *)
LEMMA FirstSleeper ==
    ASSUME TableInv
    PROVE  /\ sleepq \in Node /\ sleepq \notin Pid /\ Owner[sleepq] = sleepq
           /\ sleepq # EMPTY /\ sleepq \in Queue
           /\ firstid(sleepq) \in Node /\ firstid(sleepq) = qnext[sleepq]
           /\ qprev[firstid(sleepq)] = sleepq
           /\ firstid(sleepq) \in Pid => on[firstid(sleepq)] = sleepq
<1>1. /\ sleepq \in Node /\ sleepq \notin Pid /\ sleepq # EMPTY /\ sleepq \in Queue
      /\ Owner[sleepq] = sleepq /\ sleepq # queuetail(sleepq)
  BY Heads, OwnerOf, Layout DEF TableInv, queuetail
<1>2. /\ qnext[sleepq] \in Node /\ Owner[qnext[sleepq]] = sleepq
      /\ qprev[qnext[sleepq]] = sleepq
  BY <1>1 DEF TableInv, LinksConsistent, ForwardLinks
<1> QED  BY <1>1, <1>2, OwnerOf DEF TableInv, firstid

(* A step that leaves the first sleeper and its key alone.                 *)
LEMMA DueKept ==
    ASSUME TableInv, NoneDue, pc # "wakeup",
           qnext'[sleepq] = qnext[sleepq],
           \A p \in Pid : on[p] = sleepq => qkey'[p] = qkey[p]
    PROVE  NoneDue'
BY FirstSleeper DEF NoneDue, firstid

(* Unlinking a process that does not sleep is such a step ...              *)
LEMMA DueUnlink ==
    ASSUME TableInv, NoneDue, pc # "wakeup",
           NEW p \in Pid, on[p] \in Queue \ {sleepq}, UNCHANGED qkey,
           \/ qnext' = [qnext EXCEPT ![qprev[p]] = qnext[p]]
           \/ qnext' = [qnext EXCEPT ![qprev[p]] = qnext[p], ![p] = EMPTY]
    PROVE  NoneDue'
<1>1. qprev[p] # sleepq /\ p # sleepq /\ sleepq \in Node
  BY Neighbours, FirstSleeper DEF TableInv
<1>2. qnext'[sleepq] = qnext[sleepq]
  BY <1>1 DEF TableInv, TypeOK
<1> QED  BY <1>2, DueKept

(* ... and so is linking one into another list.                            *)
LEMMA DueLink ==
    ASSUME TableInv, NoneDue, pc # "wakeup",
           NEW p \in Pid, on[p] = EMPTY,
           NEW b \in Node, Owner[b] # sleepq,
           NEW a, qnext' = [qnext EXCEPT ![p] = a, ![b] = p],
           \A x \in Pid \ {p} : qkey'[x] = qkey[x]
    PROVE  NoneDue'
<1>1. b # sleepq /\ p # sleepq /\ sleepq \in Node /\ sleepq # EMPTY
  BY FirstSleeper
<1>2. qnext'[sleepq] = qnext[sleepq]
  BY <1>1 DEF TableInv, TypeOK
<1>3. \A x \in Pid : on[x] = sleepq => qkey'[x] = qkey[x]
  BY <1>1
<1> QED  BY <1>2, <1>3, DueKept

(* A process that leaves the sleep list early adds its delay to the next   *)
(* one's: when it was the first, the new first has as much to wait.        *)
LEMMA DueUnsleep ==
    ASSUME TableInv, NoneDue, NEW p \in Pid, UnsleepPid(p)
    PROVE  NoneDue'
<1>1. /\ pc = "idle" /\ on[p] = sleepq /\ pc' = pc /\ on[p] \in Queue
      /\ qkey' = IF qnext[p] < NPROC
                 THEN [qkey EXCEPT ![qnext[p]] = @ + qkey[p]] ELSE qkey
      /\ qnext' = [qnext EXCEPT ![qprev[p]] = qnext[p]]
  BY Layout DEF UnsleepPid, Unlink, regs
<1>2. /\ qnext \in [Node -> Node \cup {EMPTY}] /\ qkey \in [Node -> Int]
      /\ \A x \in Pid : on[x] = sleepq => qkey[x] >= 0
      /\ \A x \in Pid : x \in Node /\ x < NPROC
  BY Layout DEF TableInv, TypeOK, SleepKeysNatural
<1>3. /\ p \in Node /\ p \notin Queue /\ Owner[p] = sleepq
      /\ qnext[p] \in Node /\ qprev[p] \in Node
      /\ qnext[qprev[p]] = p /\ qprev[qnext[p]] = p /\ Owner[qnext[p]] = sleepq
  <2>1. p \in Node /\ p \notin Queue /\ Owner[p] = sleepq /\ sleepq # EMPTY
        /\ p # queuetail(sleepq)
    BY <1>1, Layout, OwnerOf, Heads DEF TableInv, queuetail
  <2> QED  BY <2>1 DEF TableInv, LinksConsistent, ForwardLinks, BackwardLinks
<1>4. SUFFICES ASSUME NEW f \in Pid, f = qnext'[sleepq]
               PROVE  qkey'[f] > 0
  BY DEF NoneDue, firstid
<1>5. qkey[p] \in Int /\ qkey[p] >= 0 /\ qkey[f] \in Int
  BY <1>1, <1>2
<1>6. CASE qprev[p] = sleepq
  <2>1. f = qnext[p] /\ on[f] = sleepq
    <3>1. f = qnext[p]
      BY <1>1, <1>2, <1>3, <1>4, <1>6
    <3> QED  BY <3>1, <1>3, OwnerOf DEF TableInv
  <2>2. qkey[p] > 0
    BY <1>1, <1>3, <1>6 DEF NoneDue, firstid
  <2>3. qkey' = [qkey EXCEPT ![f] = qkey[f] + qkey[p]] /\ f \in Node
    BY <1>1, <1>2, <2>1
  <2>4. qkey'[f] = qkey[f] + qkey[p] /\ qkey[f] >= 0
    BY <1>2, <2>1, <2>3
  <2> QED  BY <1>5, <2>2, <2>4
<1>7. CASE qprev[p] # sleepq
  <2>1. f = qnext[sleepq] /\ qprev[f] = sleepq
    BY <1>1, <1>2, <1>4, <1>7, FirstSleeper
  <2>2. f # qnext[p] /\ qkey[f] > 0
    <3>1. f # qnext[p]
      BY <2>1, <1>3, FirstSleeper
    <3> QED  BY <3>1, <2>1, <1>1 DEF NoneDue, firstid
  <2>3. qkey'[f] = qkey[f]
    BY <1>1, <1>2, <1>3, <2>2
  <2> QED  BY <2>2, <2>3
<1> QED  BY <1>6, <1>7

(* A new sleeper goes first only with its whole delay, and it shortens the *)
(* delay of the first only by going before it.                             *)
LEMMA DueInsertd ==
    ASSUME TableInv, NoneDue, InsertdLink
    PROVE  NoneDue'
<1>1. /\ pc = "insertd" /\ arg \in Pid /\ on[arg] = EMPTY /\ key \in Int
      /\ prev \in Node /\ curr = qnext[prev] /\ curr \in Node
      /\ (prev = sleepq => key > 0)
      /\ qnext' = [qnext EXCEPT ![arg] = curr, ![prev] = arg]
      /\ qkey' = IF curr # queuetail(sleepq)
                 THEN [qkey EXCEPT ![arg] = key, ![curr] = @ - key]
                 ELSE [qkey EXCEPT ![arg] = key]
  BY DEF InsertdLink, LinkBetween, TableInv, InsertdPosition, TypeOK
<1>2. /\ qnext \in [Node -> Node \cup {EMPTY}] /\ qkey \in [Node -> Int]
      /\ \A x \in Pid : x \in Node
  BY Layout DEF TableInv, TypeOK
<1>3. /\ Owner[prev] = sleepq /\ prev # queuetail(sleepq) /\ qprev[curr] = prev
      /\ Owner[curr] = sleepq /\ arg # curr /\ arg # sleepq
  <2>1. Owner[prev] = sleepq /\ prev # queuetail(sleepq) /\ sleepq # EMPTY
    BY <1>1, FirstSleeper DEF TableInv, InsertdPosition
  <2>2. qprev[curr] = prev /\ Owner[curr] = sleepq
    BY <1>1, <2>1 DEF TableInv, LinksConsistent, ForwardLinks
  <2>3. Owner[arg] = EMPTY
    BY <1>1, <1>2, OwnerOf DEF TableInv
  <2> QED  BY <2>1, <2>2, <2>3, FirstSleeper
<1>4. SUFFICES ASSUME NEW f \in Pid, f = qnext'[sleepq]
               PROVE  qkey'[f] > 0
  BY DEF NoneDue, firstid
<1>5. CASE prev = sleepq
  <2>1. f = arg /\ key > 0
    BY <1>1, <1>2, <1>3, <1>4, <1>5
  <2>2. qkey'[arg] = key
    BY <1>1, <1>2, <1>3
  <2> QED  BY <2>1, <2>2
<1>6. CASE prev # sleepq
  <2>1. f = qnext[sleepq] /\ qprev[f] = sleepq /\ on[f] = sleepq
    BY <1>1, <1>2, <1>3, <1>4, <1>6, FirstSleeper DEF firstid
  <2>2. f # curr /\ f # arg
    BY <2>1, <1>1, <1>3, <1>6, FirstSleeper
  <2>3. qkey'[f] = qkey[f]
    BY <1>1, <1>2, <2>2
  <2>4. qkey[f] > 0
    BY <2>1, <1>1 DEF NoneDue, firstid
  <2> QED  BY <2>3, <2>4
<1> QED  BY <1>5, <1>6

(* clkhandler() calls wakeup() exactly when the first has nothing left.    *)
LEMMA DueClockTick ==
    ASSUME TableInv, NoneDue, ClockTick
    PROVE  NoneDue'
<1> DEFINE f == firstid(sleepq)
<1>1. f \in Pid /\ f \in Node
  BY FirstAndLast, Layout DEF TableInv, ClockTick
<1>2. /\ qkey[f] > 0 /\ qkey' = [qkey EXCEPT ![f] = qkey[f] - 1]
      /\ pc' = IF qkey'[f] = 0 THEN "wakeup" ELSE "idle"
      /\ qnext' = qnext
  BY <1>1 DEF ClockTick, NoneDue, links
<1>3. qkey[f] \in Int /\ qkey'[f] = qkey[f] - 1
  BY <1>1, <1>2 DEF TableInv, TypeOK
<1>4. firstid(sleepq)' = f
  BY <1>2 DEF firstid
<1> HIDE DEF f
<1> QED  BY <1>2, <1>3, <1>4 DEF NoneDue

(* No step leaves a due process first, once wakeup() has returned.         *)
LEMMA DueStep == IInv /\ [Next]_vars => NoneDue'
<1> SUFFICES ASSUME TableInv, NoneDue, [Next]_vars
             PROVE  NoneDue'
  BY DEF IInv
<1>1. ASSUME NEW p \in Pid, NEW q \in SemQueue, Enqueue(p, q)
      PROVE  NoneDue'
  <2> DEFINE last == qprev[queuetail(q)]
  <2>1. /\ q \in Queue /\ q # sleepq /\ q # EMPTY
        /\ queuetail(q) \in Node \ Queue /\ Owner[queuetail(q)] = q
    BY Layout, Heads, OwnerOf DEF TableInv, queuetail
  <2>2. last \in Node /\ Owner[last] = q
    BY <2>1 DEF TableInv, LinksConsistent, BackwardLinks
  <2>3. /\ pc = "idle" /\ on[p] = EMPTY /\ qkey' = qkey
        /\ qnext' = [qnext EXCEPT ![p] = queuetail(q), ![last] = p]
    BY <1>1 DEF Enqueue
  <2> HIDE DEF last
  <2> QED  BY <2>1, <2>2, <2>3, DueLink
<1>2. ASSUME NEW p \in Pid, GetitemPid(p)
      PROVE  NoneDue'
  BY <1>2, DueUnlink DEF GetitemPid, Unlink
<1>3. ASSUME NEW q \in Queue \ {sleepq}, NEW p \in Pid, p = firstid(q) \/ p = lastid(q),
             pc = "idle", ~isempty(q), UNCHANGED qkey,
             \/ qnext' = [qnext EXCEPT ![qprev[p]] = qnext[p]]
             \/ qnext' = [qnext EXCEPT ![qprev[p]] = qnext[p], ![p] = EMPTY]
      PROVE  NoneDue'
  <2>1. on[p] = q
    BY <1>3, FirstAndLast DEF TableInv
  <2> QED  BY <2>1, <1>3, DueUnlink
<1>4. ASSUME NEW q \in SemQueue, Getfirst(q) \/ Getlast(q)
      PROVE  NoneDue'
  <2>1. q \in Queue \ {sleepq} /\ ~isempty(q) /\ pc = "idle" /\ UNCHANGED qkey
    BY <1>4, Layout DEF Getfirst, Getlast
  <2>2. firstid(q) \in Pid /\ lastid(q) \in Pid
    BY <2>1, FirstAndLast DEF TableInv
  <2> QED  BY <1>3, <1>4, <2>1, <2>2 DEF Getfirst, Getlast, Unlink
<1>5. ASSUME NEW q \in Queue \ {sleepq}, Dequeue(q)
      PROVE  NoneDue'
  <2>1. firstid(q) \in Pid
    BY <1>5, FirstAndLast DEF TableInv, Dequeue
  <2> QED  BY <1>3, <1>5, <2>1 DEF Dequeue, DequeueFrom
<1>6. ASSUME NEW p \in Pid, UnsleepPid(p)
      PROVE  NoneDue'
  BY <1>6, DueUnsleep
<1>7. CASE InsertLink
  <2> DEFINE b == qprev[curr]
  <2>1. /\ pc = "insert" /\ arg \in Pid /\ on[arg] = EMPTY /\ readylist # EMPTY
        /\ curr \in Node \ Queue /\ Owner[curr] = readylist /\ readylist # sleepq
    BY <1>7, Layout DEF InsertLink, TableInv, InsertPosition, TypeOK
  <2>2. b \in Node /\ Owner[b] = readylist
    BY <2>1 DEF TableInv, LinksConsistent, BackwardLinks
  <2>3. /\ qnext' = [qnext EXCEPT ![arg] = curr, ![b] = arg]
        /\ qkey' = [qkey EXCEPT ![arg] = key]
    BY <1>7 DEF InsertLink, LinkBetween
  <2>4. \A x \in Pid \ {arg} : qkey'[x] = qkey[x]
    BY <2>3, Layout DEF TableInv, TypeOK
  <2> HIDE DEF b
  <2> QED  BY <2>1, <2>2, <2>3, <2>4, DueLink
<1>8. CASE InsertdLink
  BY <1>8, DueInsertd
<1>9. CASE ClockTick
  BY <1>9, DueClockTick
<1>10. CASE WakeupNext
  BY <1>10 DEF WakeupNext, DequeueFrom, regs, NoneDue
<1>11. CASE WakeupEnd
  <2>1. ~Due /\ UNCHANGED <<links, qkey>>
    BY <1>11 DEF WakeupEnd
  <2>2. \A p \in Pid : p = firstid(sleepq) => qkey[p] > 0
    <3>1. \A p \in Pid : p < NPROC /\ p \in Int /\ qkey[p] \in Int
      BY Layout, QueueTabAssumption DEF TableInv, TypeOK, Pid
    <3> QED  BY <2>1, <3>1, QueueTabAssumption DEF Due, isempty, firstkey
  <2> QED  BY <2>1, <2>2 DEF NoneDue, firstid, links
<1>12. ASSUME UNCHANGED <<links, qkey>>, pc # "wakeup"
       PROVE  NoneDue'
  BY <1>12 DEF NoneDue, firstid, links
<1>13. CASE InsertScan \/ InsertdScan
  BY <1>12, <1>13 DEF InsertScan, InsertdScan
<1>14. ASSUME NEW p \in Pid,
              \/ \E k \in Prio : InsertCall(p, k)
              \/ \E delay \in 1 .. MaxDelay : InsertdCall(p, delay)
       PROVE  NoneDue'
  BY <1>12, <1>14 DEF InsertCall, InsertdCall
<1>15. CASE UNCHANGED vars
  BY <1>15 DEF NoneDue, firstid, vars
<1> QED
  BY <1>1, <1>2, <1>4, <1>5, <1>6, <1>7, <1>8, <1>9, <1>10, <1>11, <1>13, <1>14, <1>15
  DEF Next

--------------------------------------------------------------------------------
(* The theorems on links and keys.                                         *)

(* The invariant is inductive.                                             *)
THEOREM Inductive == IInv /\ [Next]_vars => IInv'
BY TableStep, DueStep DEF IInv

(* So queuetab[] satisfies it from sysinit() on, whatever the kernel calls.*)
THEOREM Invariance == Spec => []IInv
<1>1. Init => IInv
  BY InitTable, InitDue DEF IInv
<1>2. IInv /\ [Next]_vars => IInv'
  BY Inductive
<1> QED  BY <1>1, <1>2, PTL DEF Spec

(* The fields keep their types, and no scan ever leaves the table.         *)
THEOREM TypesHold == Spec => []TypeOK
<1>1. IInv => TypeOK
  BY DEF IInv, TableInv
<1> QED  BY <1>1, Invariance, PTL

(* queuetab[] is always a set of doubly linked lists.                      *)
THEOREM LinksStayConsistent == Spec => []LinksConsistent
<1>1. IInv => LinksConsistent
  BY DEF IInv, TableInv
<1> QED  BY <1>1, Invariance, PTL

(* The ready list is always in descending key order.                       *)
THEOREM ReadyStaysSorted == Spec => []ReadySorted
<1>1. IInv => ReadySorted
  BY DEF IInv, TableInv
<1> QED  BY <1>1, Invariance, PTL

(* No process on the sleep list ever has a negative relative delay.        *)
THEOREM DelaysStayNatural == Spec => []SleepKeysNatural
<1>1. IInv => SleepKeysNatural
  BY DEF IInv, TableInv
<1> QED  BY <1>1, Invariance, PTL

(* Outside wakeup() the first sleeper always has to wait: the clock never  *)
(* misses a process whose time has come.                                   *)
THEOREM NoneStaysDue == Spec => []NoneDue
<1>1. IInv => NoneDue
  BY DEF IInv
<1> QED  BY <1>1, Invariance, PTL
--------------------------------------------------------------------------------
(* The lists the table stands for.                                         *)

(* QueueSpec has operators of XinuLists of its own, by way of the instance;*)
(* they are the same operators.                                            *)
LEMMA SameOperators ==
    \A list, x, k :
        /\ Lists!PidsOf(list) = PidsOf(list)
        /\ Lists!Range(list) = Range(list)
        /\ Lists!Front(list) = Front(list)
        /\ Lists!Delay(list, k) = Delay(list, k)
        /\ Lists!PosOf(list, x) = PosOf(list, x)
        /\ Lists!Getitem(list, x) = Getitem(list, x)
        /\ Lists!RemoveFirst(list, x) = RemoveFirst(list, x)
        /\ Lists!Insert(list, x, k) = Insert(list, x, k)
<1>1. \A list : /\ Lists!PidsOf(list) = PidsOf(list)
                /\ Lists!Range(list) = Range(list)
                /\ Lists!Front(list) = Front(list)
  BY Zenon DEF Lists!PidsOf, PidsOf, Lists!Range, Range, Lists!Front, Front
<1>2. \A list, k : Lists!Delay(list, k) = Delay(list, k)
  BY Zenon DEF Lists!Delay, Delay
<1>3. \A list, x : Lists!PosOf(list, x) = PosOf(list, x)
  BY Zenon DEF Lists!PosOf, PosOf
<1> USE DEF Lists!SelectInSeq, SelectInSeq, Lists!Min, Min, Lists!RemoveAt, RemoveAt
<1>4. \A list, x : Lists!Getitem(list, x) = Getitem(list, x)
  BY Zenon DEF Lists!Getitem, Getitem, Lists!RemoveFirstMatch, RemoveFirstMatch
<1>5. \A list, x : Lists!RemoveFirst(list, x) = RemoveFirst(list, x)
  BY Zenon DEF Lists!RemoveFirst, RemoveFirst
<1>6. \A list, x, k : Lists!Insert(list, x, k) = Insert(list, x, k)
  BY Zenon DEF Lists!Insert, Insert, Lists!InsertAt, InsertAt, Lists!Entry, Entry
<1> QED
  BY <1>1, <1>2, <1>3, <1>4, <1>5, <1>6, Zenon

LEMMA SameInsertd ==
    ASSUME NEW list, NEW x, NEW k
    PROVE  Lists!Insertd(list, x, k) = Insertd(list, x, k)
<1> DEFINE at == CHOOSE i \in 1 .. Len(list) + 1 :
                    /\ \A j \in 1 .. i - 1 : Delay(list, j) <= k
                    /\ i <= Len(list) => Delay(list, i) > k
<1>1. at = CHOOSE i \in 1 .. Len(list) + 1 :
              /\ \A j \in 1 .. i - 1 : Lists!Delay(list, j) <= k
              /\ i <= Len(list) => Lists!Delay(list, i) > k
  BY Zenon DEF Lists!Delay, Delay
<1>2. \A n : Lists!Delay(list, n) = Delay(list, n)
  BY SameOperators
<1> DEFINE rest == k - Delay(list, at - 1)
           tail == IF at <= Len(list) THEN [list EXCEPT ![at].key = list[at].key - rest]
                   ELSE list
<1>3. Insertd(list, x, k) = InsertAt(tail, at, Entry(x, rest))
  BY DEF Insertd
<1>4. Lists!Insertd(list, x, k) = Lists!InsertAt(tail, at, Lists!Entry(x, rest))
  <2> DEFINE other == k - Lists!Delay(list, at - 1)
             end == IF at <= Len(list) THEN [list EXCEPT ![at].key = list[at].key - other]
                    ELSE list
  <2> HIDE DEF at
  <2>1. Lists!Insertd(list, x, k) = Lists!InsertAt(end, at, Lists!Entry(x, other))
    BY <1>1 DEF Lists!Insertd
  <2>2. other = rest
    BY <1>2
  <2> QED
    BY <2>1, <2>2
<1> HIDE DEF at
<1> HIDE DEF tail, rest
<1> QED
  BY <1>3, <1>4, Zenon DEF Lists!InsertAt, InsertAt, Lists!Entry, Entry

LEMMA SameUnsleep ==
    ASSUME NEW list, NEW x
    PROVE  Lists!Unsleep(list, x) = Unsleep(list, x)
<1> DEFINE i == PosOf(list, x)
<1>1. i = Lists!PosOf(list, x)
  BY SameOperators
<1> HIDE DEF i
<1> DEFINE credited == IF i < Len(list)
                       THEN [list EXCEPT ![i + 1].key = list[i + 1].key + list[i].key]
                       ELSE list
<1>2. Unsleep(list, x) = Getitem(credited, x)
  BY DEF Unsleep, i
<1>3. Lists!Unsleep(list, x) = Lists!Getitem(credited, x)
  BY <1>1 DEF Lists!Unsleep
<1> HIDE DEF credited
<1> QED
  BY <1>2, <1>3, SameOperators

(* The stops of a walk: the head, the processes, and from then on the tail.*)
LEMMA Stops ==
    ASSUME NEW q \in Queue, NEW s \in Seq(Pid)
    PROVE  /\ Len(s) \in Nat
           /\ Stop(q, s, 0) = q
           /\ \A n \in 1 .. Len(s) : Stop(q, s, n) = s[n] /\ s[n] \in Pid /\ s[n] # q
           /\ \A n \in Nat : n > Len(s) => Stop(q, s, n) = queuetail(q)
           /\ Stop(q, s, Len(s) + 1) = queuetail(q)
           /\ queuetail(q) \in Node /\ queuetail(q) \notin Pid /\ queuetail(q) \notin Queue
           /\ q \in Node /\ q \notin Pid /\ q # queuetail(q)
<1>1. Len(s) \in Nat /\ \A n \in 1 .. Len(s) : s[n] \in Pid
  BY LenProperties, ElementOfSeq
<1>2. /\ q \in Node /\ q \notin Pid
      /\ q + 1 \in Node /\ q + 1 \notin Pid /\ q + 1 \notin Queue
  BY Heads
<1> QED
  BY <1>1, <1>2 DEF Stop, queuetail

(* No list is longer than there are processes.                             *)
LEMMA HeldLength ==
    ASSUME NEW q, NEW s, Holds(q, s)
    PROVE  Len(s) \in 0 .. NPROC
<1> DEFINE D == 1 .. Len(s)
<1>1. s \in Seq(Pid) /\ Len(s) \in Nat /\ s \in [D -> Pid]
  <2>1. s \in Seq(Pid)
    BY DEF Holds
  <2> QED
    BY <2>1, LenProperties
<1>2. s \in Injection(D, Pid)
  BY <1>1 DEF Holds, Injection, IsInjective
<1>3. IsFiniteSet(Pid) /\ Cardinality(Pid) = NPROC
  <2>1. 0 \in Int /\ NPROC - 1 \in Int /\ NPROC >= 1 /\ NPROC \in Nat
    BY QueueTabAssumption
  <2> QED
    BY <2>1, FS_Interval DEF Pid
<1>4. Cardinality(D) <= NPROC
  <2> HIDE DEF D
  <2> QED
    BY <1>2, <1>3, FS_Injection
<1>5. Cardinality(D) = Len(s)
  <2>1. 1 \in Int /\ Len(s) \in Int
    BY <1>1
  <2>2. Cardinality(1 .. Len(s)) = IF 1 > Len(s) THEN 0 ELSE Len(s) - 1 + 1
    BY <2>1, FS_Interval
  <2> QED
    BY <1>1, <2>2
<1> QED
  BY <1>1, <1>4, <1>5, QueueTabAssumption

(* The walk along the links of a list passes its stops.                    *)
LEMMA TrailStops ==
    ASSUME NEW q \in Queue, NEW s, Holds(q, s)
    PROVE  \A n \in 0 .. NPROC + 1 : Trail(q)[n] = Stop(q, s, n)
<1> DEFINE D == 0 .. NPROC + 1
           Body(x) == [i \in D |->
                         IF i = 0 THEN q
                         ELSE IF i = 1 \/ x[i - 1] \in Pid THEN qnext[x[i - 1]] ELSE x[i - 1]]
           g == [i \in D |-> Stop(q, s, i)]
<1>1. s \in Seq(Pid) /\ Len(s) \in 0 .. NPROC /\ NPROC \in Nat
  <2>1. s \in Seq(Pid)
    BY DEF Holds
  <2> QED
    BY <2>1, HeldLength, QueueTabAssumption
<1>2. ASSUME NEW i \in D, i # 0
      PROVE  Stop(q, s, i) = IF i = 1 \/ Stop(q, s, i - 1) \in Pid
                             THEN qnext[Stop(q, s, i - 1)] ELSE Stop(q, s, i - 1)
  <2>1. i - 1 \in Nat /\ i \in Nat /\ i - 1 \in D
    BY <1>1, <1>2
  <2>2. CASE i - 1 <= Len(s)
    <3>1. i - 1 \in 0 .. Len(s) /\ (i - 1) + 1 = i
      BY <2>1, <2>2, <1>1
    <3>2. qnext[Stop(q, s, i - 1)] = Stop(q, s, i)
      <4> DEFINE m == i - 1
      <4>1. qnext[Stop(q, s, m)] = Stop(q, s, m + 1)
        <5> HIDE DEF m
        <5> QED
          BY <3>1 DEF Holds, m
      <4> QED
        BY <3>1, <4>1
    <3>3. i = 1 \/ Stop(q, s, i - 1) \in Pid
      <4>1. CASE i # 1
        <5> DEFINE m == i - 1
        <5>1. m \in 1 .. Len(s)
          BY <3>1, <4>1, <1>1
        <5> HIDE DEF m
        <5>2. Stop(q, s, m) = s[m] /\ s[m] \in Pid
          BY <5>1, <1>1, Stops
        <5> QED
          BY <5>2 DEF m
      <4> QED
        BY <4>1
    <3> QED
      BY <3>2, <3>3
  <2>3. CASE i - 1 > Len(s)
    <3>1. Stop(q, s, i - 1) = queuetail(q) /\ Stop(q, s, i) = queuetail(q)
      BY <2>1, <2>3, <1>1, Stops
    <3> QED
      BY <3>1, <2>3, <1>1, Stops
  <2> QED
    BY <2>1, <2>2, <2>3, <1>1
<1>3. g = Body(g)
  <2>1. ASSUME NEW i \in D PROVE g[i] = Body(g)[i]
    <3>1. CASE i = 0
      BY <3>1, <1>1, Stops
    <3>2. CASE i # 0
      <4>1. i - 1 \in D
        BY <1>1, <3>2
      <4> QED
        BY <4>1, <3>2, <1>2
    <3> QED
      BY <3>1, <3>2
  <2> QED
    BY <2>1
<1>4. Trail(q) = Body(Trail(q))
  <2>1. Trail(q) = CHOOSE x : x = Body(x)
    BY Zenon DEF Trail
  <2> HIDE DEF Body, g
  <2> QED
    BY <1>3, <2>1, Zenon
<1> DEFINE t == Trail(q)
           T == {i \in D : t[i] = g[i]}
<1>5. 0 \in T
  <2>1. t[0] = q
    <3>1. t = Body(t)
      BY <1>4
    <3> HIDE DEF t
    <3> QED
      BY <3>1, <1>1
  <2>2. g[0] = q /\ 0 \in D
    BY <1>1 DEF Stop
  <2> HIDE DEF t, g
  <2> QED
    BY <2>1, <2>2
<1>6. ASSUME NEW i \in 1 .. NPROC + 1, i - 1 \in T PROVE i \in T
  <2>1. i \in D /\ i # 0 /\ i - 1 \in D
    BY <1>1
  <2>2. t[i] = IF i = 1 \/ t[i - 1] \in Pid THEN qnext[t[i - 1]] ELSE t[i - 1]
    <3>1. t = Body(t)
      BY <1>4
    <3> HIDE DEF t
    <3> QED
      BY <3>1, <2>1
  <2>3. t[i - 1] = Stop(q, s, i - 1)
    BY <1>6, <2>1
  <2> QED
    BY <2>1, <2>2, <2>3, <1>2
<1>7. \A i \in 0 .. NPROC + 1 : i \in T
  <2> HIDE DEF T
  <2>1. NPROC + 1 \in Nat
    BY <1>1
  <2> QED
    BY <2>1, <1>5, <1>6, Ascent
<1> QED
  BY <1>7

(* The processes read off the links are the ones the list holds.           *)
LEMMA MembersAre ==
    \A q \in Queue : \A s : Holds(q, s) => Members(q) = s
<1> SUFFICES ASSUME NEW q \in Queue, NEW s, Holds(q, s)
             PROVE  Members(q) = s
  OBVIOUS
<1> DEFINE x == Trail(q)
           Is(n) == x[n + 1] \notin Pid /\ \A i \in 1 .. n : x[i] \in Pid
           len == CHOOSE n \in 0 .. NPROC : Is(n)
<1>1. s \in Seq(Pid)
  BY DEF Holds
<1>2. Len(s) \in 0 .. NPROC /\ NPROC \in Nat
  BY HeldLength, QueueTabAssumption
<1>3. /\ \A i \in 1 .. Len(s) : x[i] = s[i] /\ x[i] \in Pid
      /\ x[Len(s) + 1] \notin Pid
  <2>1. \A n \in 0 .. NPROC + 1 : x[n] = Stop(q, s, n)
    BY TrailStops
  <2> HIDE DEF x
  <2>2. Stop(q, s, Len(s) + 1) \notin Pid
    BY <1>1, <1>2, Stops
  <2>3. \A i \in 1 .. Len(s) : Stop(q, s, i) = s[i] /\ s[i] \in Pid
    BY <1>1, Stops
  <2>4. Len(s) + 1 \in 0 .. NPROC + 1 /\ \A i \in 1 .. Len(s) : i \in 0 .. NPROC + 1
    BY <1>2
  <2> QED
    BY <2>1, <2>2, <2>3, <2>4
<1> HIDE DEF x
<1>4. \A n \in 0 .. NPROC : Is(n) <=> n = Len(s)
  <2> SUFFICES ASSUME NEW n \in 0 .. NPROC, n # Len(s), Is(n) PROVE FALSE
    BY <1>2, <1>3
  <2>1. CASE n < Len(s)
    <3>1. n + 1 \in 1 .. Len(s)
      BY <2>1, <1>2
    <3> QED
      BY <3>1, <1>3
  <2>2. CASE n > Len(s)
    <3>1. Len(s) + 1 \in 1 .. n
      BY <2>2, <1>2
    <3> QED
      BY <3>1, <1>3
  <2> QED
    BY <2>1, <2>2, <1>2
<1>5. len = Len(s)
  <2> HIDE DEF Is
  <2> QED
    BY <1>2, <1>4
<1>6. Members(q) = [i \in 1 .. len |-> x[i]]
  BY Zenon DEF Members, x
<1>7. s = [i \in 1 .. Len(s) |-> s[i]]
  BY <1>1, LenProperties
<1>8. [i \in 1 .. Len(s) |-> x[i]] = [i \in 1 .. Len(s) |-> s[i]]
  BY <1>3
<1> HIDE DEF len
<1> QED
  BY <1>5, <1>6, <1>7, <1>8

LEMMA MembersThen ==
    (\A q \in Queue : \A s : Holds(q, s) => Members(q) = s)'
BY MembersAre, PTL

(* The stops are the entries of the list, each met once ...                *)
LEMMA StopEntries ==
    ASSUME TypeOK, NEW q \in Queue, NEW s, Holds(q, s)
    PROVE  /\ s \in Seq(Pid) /\ Len(s) \in Nat
           /\ \A n \in 0 .. Len(s) + 1 : Stop(q, s, n) \in Node /\ Owner[Stop(q, s, n)] = q
           /\ \A n \in 0 .. Len(s) : Stop(q, s, n) # queuetail(q)
           /\ \A n \in 1 .. Len(s) + 1 : Stop(q, s, n) \notin Queue
           /\ \A m, n \in 0 .. Len(s) + 1 : Stop(q, s, m) = Stop(q, s, n) => m = n
<1>1. s \in Seq(Pid)
  BY DEF Holds
<1>2. Len(s) \in Nat
  BY <1>1, Stops
<1>3. /\ \A n \in 1 .. Len(s) : Owner[s[n]] = q
      /\ \A m, n \in 1 .. Len(s) : s[m] = s[n] => m = n
  <2>1. \A n \in 1 .. Len(s) : s[n] \in Pid
    BY <1>1, Stops
  <2>2. \A n \in 1 .. Len(s) : on[s[n]] = q
    BY <2>1 DEF Holds
  <2>3. \A p \in Pid : Owner[p] = on[p]
    BY Layout, OwnerOf
  <2>4. \A m, n \in 1 .. Len(s) : s[m] = s[n] => m = n
    BY DEF Holds
  <2> QED
    BY <2>1, <2>2, <2>3, <2>4
<1>4. Owner[q] = q /\ Owner[queuetail(q)] = q
  BY OwnerOf, Heads DEF queuetail
<1>5. /\ Stop(q, s, 0) = q
      /\ \A n \in 1 .. Len(s) : Stop(q, s, n) = s[n] /\ s[n] \in Pid
      /\ Stop(q, s, Len(s) + 1) = queuetail(q)
      /\ q \in Node /\ q \notin Pid /\ q # queuetail(q)
      /\ queuetail(q) \in Node /\ queuetail(q) \notin Pid /\ queuetail(q) \notin Queue
  BY <1>1, <1>2, Stops
<1>6. \A n \in 0 .. Len(s) + 1 : n = 0 \/ n \in 1 .. Len(s) \/ n = Len(s) + 1
  BY <1>2
<1>7. \A n \in 1 .. Len(s) : s[n] \in Node /\ s[n] \notin Queue /\ s[n] # queuetail(q) /\ s[n] # q
  BY <1>5, Layout
<1>8. \A n \in 0 .. Len(s) + 1 : Stop(q, s, n) \in Node /\ Owner[Stop(q, s, n)] = q
  BY <1>3, <1>4, <1>5, <1>6, <1>7
<1>9. \A n \in 0 .. Len(s) : Stop(q, s, n) # queuetail(q)
  BY <1>2, <1>5, <1>6, <1>7
<1>10. \A n \in 1 .. Len(s) + 1 : Stop(q, s, n) \notin Queue
  BY <1>2, <1>5, <1>6, <1>7
<1>11. \A m, n \in 0 .. Len(s) + 1 : Stop(q, s, m) = Stop(q, s, n) => m = n
  BY <1>3, <1>5, <1>6, <1>7
<1> QED
  BY <1>1, <1>2, <1>8, <1>9, <1>10, <1>11

(* ... and no others are.                                                  *)
LEMMA EntryStops ==
    ASSUME TypeOK, NEW q \in Queue, NEW s, Holds(q, s),
           NEW b \in Node, Owner[b] = q
    PROVE  \E n \in 0 .. Len(s) + 1 : b = Stop(q, s, n)
<1>1. s \in Seq(Pid)
  BY DEF Holds
<1>2. /\ Len(s) \in Nat /\ Stop(q, s, 0) = q
      /\ \A n \in 1 .. Len(s) : Stop(q, s, n) = s[n]
      /\ Stop(q, s, Len(s) + 1) = queuetail(q)
  BY <1>1, Stops
<1>3. CASE b \in Pid
  <2>1. PICK i \in 1 .. Len(s) : s[i] = b
    BY <1>3, OwnerOf DEF Holds
  <2>2. i \in 0 .. Len(s) + 1
    BY <1>2
  <2>3. Stop(q, s, i) = b
    BY <2>1, <1>2
  <2> QED
    BY <2>2, <2>3
<1>4. CASE b \in Queue
  <2>1. b = q /\ 0 \in 0 .. Len(s) + 1 /\ Stop(q, s, 0) = q
    BY <1>4, <1>2, OwnerOf
  <2> QED
    BY <2>1
<1>5. CASE b \notin Pid /\ b \notin Queue
  <2>1. b = queuetail(q) /\ Len(s) + 1 \in 0 .. Len(s) + 1
    BY <1>5, <1>2, OwnerOf
  <2> QED
    BY <2>1, <1>2
<1> QED
  BY <1>3, <1>4, <1>5

(* The backward links lead through the same stops.                         *)
LEMMA StopsBack ==
    ASSUME TypeOK, LinksConsistent, NEW q \in Queue, NEW s, Holds(q, s)
    PROVE  \A n \in 0 .. Len(s) : qprev[Stop(q, s, n + 1)] = Stop(q, s, n)
<1> SUFFICES ASSUME NEW n \in 0 .. Len(s)
             PROVE  qprev[Stop(q, s, n + 1)] = Stop(q, s, n)
  OBVIOUS
<1>1. Len(s) \in Nat
  BY StopEntries
<1> DEFINE x == Stop(q, s, n)
<1>2. x \in Node /\ Owner[x] = q /\ x # queuetail(q)
  <2>1. n \in 0 .. Len(s) + 1
    BY <1>1
  <2> QED
    BY <2>1, StopEntries
<1>3. qnext[x] = Stop(q, s, n + 1)
  BY DEF Holds
<1>4. qprev[qnext[x]] = x
  <2> HIDE DEF x
  <2> QED
    BY <1>2, Layout DEF LinksConsistent, ForwardLinks
<1> QED
  BY <1>3, <1>4

(* The stops of a list with p linked behind its n-th stop ...              *)
LEMMA StopsIn ==
    ASSUME NEW q \in Queue, NEW s \in Seq(Pid), NEW p \in Pid, NEW n \in 0 .. Len(s)
    PROVE  LET u == InsertAt(s, n + 1, p)
           IN  /\ u \in Seq(Pid) /\ Len(u) = Len(s) + 1
               /\ \A i \in 1 .. Len(s) + 1 :
                     u[i] = IF i < n + 1 THEN s[i] ELSE IF i = n + 1 THEN p ELSE s[i - 1]
               /\ \A i \in 0 .. Len(s) + 2 :
                     Stop(q, u, i) = IF i <= n THEN Stop(q, s, i)
                                     ELSE IF i = n + 1 THEN p ELSE Stop(q, s, i - 1)
<1> DEFINE at == n + 1
           u == InsertAt(s, at, p)
<1>1. Len(s) \in Nat /\ at \in 1 .. Len(s) + 1
  BY LenProperties
<1>2. /\ u \in Seq(Pid) /\ Len(u) = Len(s) + 1
      /\ \A i \in 1 .. Len(s) + 1 :
            u[i] = IF i < at THEN s[i] ELSE IF i = at THEN p ELSE s[i - 1]
  <2> DEFINE S == Pid
  <2>1. s \in Seq(S) /\ p \in S /\ at \in 1 .. Len(s) + 1
    BY <1>1
  <2> HIDE DEF S, at
  <2>2. u \in Seq(S) /\ Placed(s, at, p, u)
    BY <2>1, InsertAtPlaces
  <2> QED
    BY <2>2 DEF S, Placed
<1> HIDE DEF u
<1>3. ASSUME NEW i \in 0 .. Len(s) + 2
      PROVE  Stop(q, u, i) = IF i <= n THEN Stop(q, s, i)
                             ELSE IF i = n + 1 THEN p ELSE Stop(q, s, i - 1)
  <2>1. CASE i = 0 \/ i = Len(s) + 2
    BY <2>1, <1>1, <1>2 DEF Stop
  <2>2. CASE i \in 1 .. n
    BY <2>2, <1>1, <1>2 DEF Stop
  <2>3. CASE i = n + 1
    BY <2>3, <1>1, <1>2 DEF Stop
  <2>4. CASE i \in n + 2 .. Len(s) + 1
    BY <2>4, <1>1, <1>2 DEF Stop
  <2> QED
    BY <2>1, <2>2, <2>3, <2>4, <1>1
<1> QED
  BY <1>2, <1>3 DEF u

(* ... and without its n-th.                                               *)
LEMMA StopsOut ==
    ASSUME NEW q \in Queue, NEW s \in Seq(Pid), NEW n \in 1 .. Len(s)
    PROVE  LET u == RemoveAt(s, n)
           IN  /\ u \in Seq(Pid) /\ Len(u) = Len(s) - 1
               /\ \A i \in 1 .. Len(s) - 1 : u[i] = IF i < n THEN s[i] ELSE s[i + 1]
               /\ \A i \in 0 .. Len(s) :
                     Stop(q, u, i) = IF i < n THEN Stop(q, s, i) ELSE Stop(q, s, i + 1)
<1> DEFINE u == RemoveAt(s, n)
<1>1. Len(s) \in Nat
  BY LenProperties
<1>2. /\ u \in Seq(Pid) /\ Len(u) = Len(s) - 1
      /\ \A i \in 1 .. Len(s) - 1 : u[i] = IF i < n THEN s[i] ELSE s[i + 1]
  BY RemoveAtProps
<1> HIDE DEF u
<1>3. ASSUME NEW i \in 0 .. Len(s)
      PROVE  Stop(q, u, i) = IF i < n THEN Stop(q, s, i) ELSE Stop(q, s, i + 1)
  <2>1. CASE i = 0 \/ i = Len(s)
    BY <2>1, <1>1, <1>2 DEF Stop
  <2>2. CASE i \in 1 .. n - 1
    BY <2>2, <1>1, <1>2 DEF Stop
  <2>3. CASE i \in n .. Len(s) - 1
    BY <2>3, <1>1, <1>2 DEF Stop
  <2> QED
    BY <2>1, <2>2, <2>3, <1>1
<1> QED
  BY <1>2, <1>3 DEF u

(* Linking a process that is on no list behind the n-th stop of list q     *)
(* puts it there, and leaves the other lists as they are.                  *)
LEMMA HeldIn ==
    ASSUME TypeOK,
           NEW p \in Pid, on[p] = EMPTY,
           NEW q \in Queue, NEW s, Holds(q, s), NEW n \in 0 .. Len(s),
           LinkedBehind(p, Stop(q, s, n)),
           on' = [on EXCEPT ![p] = q]
    PROVE  Holds(q, InsertAt(s, n + 1, p))'
<1> DEFINE u == InsertAt(s, n + 1, p)
           b == Stop(q, s, n)
<1>1. s \in Seq(Pid) /\ Len(s) \in Nat
  BY StopEntries
<1>2. /\ u \in Seq(Pid) /\ Len(u) = Len(s) + 1
      /\ \A i \in 1 .. Len(s) + 1 :
            u[i] = IF i < n + 1 THEN s[i] ELSE IF i = n + 1 THEN p ELSE s[i - 1]
      /\ \A i \in 0 .. Len(s) + 2 :
            Stop(q, u, i) = IF i <= n THEN Stop(q, s, i)
                            ELSE IF i = n + 1 THEN p ELSE Stop(q, s, i - 1)
  BY <1>1, StopsIn
<1> HIDE DEF u
<1>3. /\ \A i \in 0 .. Len(s) + 1 : Stop(q, s, i) \in Node /\ Stop(q, s, i) # p
      /\ \A i \in 0 .. Len(s) : Stop(q, s, i) = b => i = n
      /\ p \in Node
  <2>1. p \in Node /\ Owner[p] = EMPTY /\ q # EMPTY
    BY Layout, OwnerOf
  <2>2. \A i \in 0 .. Len(s) + 1 : Stop(q, s, i) \in Node /\ Owner[Stop(q, s, i)] = q
    BY StopEntries
  <2>3. \A i, j \in 0 .. Len(s) + 1 : Stop(q, s, i) = Stop(q, s, j) => i = j
    BY StopEntries
  <2>4. n \in 0 .. Len(s) + 1 /\ \A i \in 0 .. Len(s) : i \in 0 .. Len(s) + 1
    BY <1>1
  <2> QED
    BY <2>1, <2>2, <2>3, <2>4
<1>4. \A i \in 0 .. Len(s) : qnext[Stop(q, s, i)] = Stop(q, s, i + 1)
  BY DEF Holds
<1>5. \A x \in Node : qnext'[x] = IF x = b THEN p ELSE IF x = p THEN qnext[b] ELSE qnext[x]
  BY DEF LinkedBehind
<1>6. ASSUME NEW i \in 0 .. Len(u) PROVE qnext'[Stop(q, u, i)] = Stop(q, u, i + 1)
  <2>0. i \in 0 .. Len(s) + 2 /\ i + 1 \in 0 .. Len(s) + 2
    BY <1>1, <1>2
  <2>1. CASE i < n
    <3>1. i \in 0 .. Len(s) /\ i # n /\ i + 1 <= n
      BY <2>1, <1>1
    <3>2. /\ qnext'[Stop(q, s, i)] = qnext[Stop(q, s, i)]
          /\ qnext[Stop(q, s, i)] = Stop(q, s, i + 1)
      <4>1. i \in 0 .. Len(s) + 1
        BY <3>1, <1>1
      <4> QED
        BY <4>1, <3>1, <1>3, <1>4, <1>5
    <3> QED
      BY <2>0, <2>1, <3>1, <3>2, <1>2
  <2>2. CASE i = n
    <3>1. qnext'[b] = p
      <4>1. n \in 0 .. Len(s) + 1
        BY <1>1
      <4> QED
        BY <4>1, <1>3, <1>5
    <3>2. Stop(q, u, n) = b /\ Stop(q, u, n + 1) = p
      BY <2>0, <2>2, <1>2
    <3> QED
      BY <2>2, <3>1, <3>2
  <2>3. CASE i = n + 1
    <3>1. qnext'[p] = qnext[b] /\ qnext[b] = Stop(q, s, n + 1)
      <4>1. n \in 0 .. Len(s) + 1
        BY <1>1
      <4> QED
        BY <4>1, <1>3, <1>4, <1>5
    <3>2. Stop(q, u, i) = p
      BY <2>0, <2>3, <1>2
    <3>3. Stop(q, u, i + 1) = Stop(q, s, n + 1)
      <4>1. ~(i + 1 <= n) /\ i + 1 # n + 1 /\ (i + 1) - 1 = n + 1
        BY <2>3
      <4> QED
        BY <2>0, <4>1, <1>2
    <3> QED
      BY <3>1, <3>2, <3>3
  <2>4. CASE i > n + 1
    <3> DEFINE m == i - 1
    <3>1. m \in 0 .. Len(s) /\ m \in 0 .. Len(s) + 1 /\ m # n
      BY <2>4, <1>1, <1>2
    <3>2. Stop(q, u, i) = Stop(q, s, m)
      BY <2>0, <2>4, <1>2
    <3>3. Stop(q, u, i + 1) = Stop(q, s, m + 1)
      <4>1. ~(i + 1 <= n) /\ i + 1 # n + 1 /\ (i + 1) - 1 = m + 1
        BY <2>4
      <4> QED
        BY <2>0, <4>1, <1>2
    <3> HIDE DEF m
    <3>4. qnext'[Stop(q, s, m)] = qnext[Stop(q, s, m)]
      BY <3>1, <1>3, <1>5
    <3> QED
      BY <3>1, <3>2, <3>3, <3>4, <1>4
  <2> QED
    BY <2>1, <2>2, <2>3, <2>4, <1>1, <1>2
<1>7. \A i, j \in 1 .. Len(s) : s[i] = s[j] => i = j
  BY DEF Holds
<1>8. \A i \in 1 .. Len(s) : s[i] # p
  <2>1. \A i \in 1 .. Len(s) : on[s[i]] = q
    <3>1. \A i \in 1 .. Len(s) : s[i] \in Pid
      BY <1>1, ElementOfSeq
    <3> QED
      BY <3>1 DEF Holds
  <2> QED
    BY <2>1, Layout
<1>9. ASSUME NEW i \in 1 .. Len(u), NEW j \in 1 .. Len(u), u[i] = u[j] PROVE i = j
  <2>1. \A k \in 1 .. Len(u) :
           \/ k < n + 1 /\ k \in 1 .. Len(s) /\ u[k] = s[k]
           \/ k = n + 1 /\ u[k] = p
           \/ k > n + 1 /\ k - 1 \in 1 .. Len(s) /\ u[k] = s[k - 1]
    <3> SUFFICES ASSUME NEW k \in 1 .. Len(u)
                 PROVE  \/ k < n + 1 /\ k \in 1 .. Len(s) /\ u[k] = s[k]
                        \/ k = n + 1 /\ u[k] = p
                        \/ k > n + 1 /\ k - 1 \in 1 .. Len(s) /\ u[k] = s[k - 1]
      OBVIOUS
    <3>1. CASE k < n + 1
      <4>1. k \in 1 .. Len(s)
        BY <3>1, <1>1
      <4> QED
        BY <3>1, <4>1, <1>1, <1>2
    <3>2. CASE k = n + 1
      BY <3>2, <1>1, <1>2
    <3>3. CASE k > n + 1
      <4>1. k - 1 \in 1 .. Len(s)
        BY <3>3, <1>1, <1>2
      <4> QED
        BY <3>3, <4>1, <1>1, <1>2
    <3> QED
      BY <3>1, <3>2, <3>3, <1>1
  <2>2. \/ i < n + 1 /\ i \in 1 .. Len(s) /\ u[i] = s[i]
        \/ i = n + 1 /\ u[i] = p
        \/ i > n + 1 /\ i - 1 \in 1 .. Len(s) /\ u[i] = s[i - 1]
    BY <2>1
  <2>3. \/ j < n + 1 /\ j \in 1 .. Len(s) /\ u[j] = s[j]
        \/ j = n + 1 /\ u[j] = p
        \/ j > n + 1 /\ j - 1 \in 1 .. Len(s) /\ u[j] = s[j - 1]
    BY <2>1
  <2>4. i \in Int /\ j \in Int /\ n \in Int
    OBVIOUS
  <2>5. i > n + 1 /\ j < n + 1 => i - 1 # j
    BY <2>4
  <2>6. j > n + 1 /\ i < n + 1 => j - 1 # i
    BY <2>4
  <2>7. i - 1 = j - 1 => i = j
    BY <2>4
  <2> QED
    BY <2>2, <2>3, <2>5, <2>6, <2>7, <1>7, <1>8, <1>9
<1>10. ASSUME NEW x \in Pid
       PROVE  on'[x] = q <=> \E i \in 1 .. Len(u) : u[i] = x
  <2>1. on[x] = q <=> \E i \in 1 .. Len(s) : s[i] = x
    BY DEF Holds
  <2>2. on'[x] = IF x = p THEN q ELSE on[x]
    BY DEF TypeOK
  <2>3. n + 1 \in 1 .. Len(u) /\ u[n + 1] = p
    BY <1>1, <1>2
  <2>4. ASSUME NEW i \in 1 .. Len(u), u[i] # p PROVE \E j \in 1 .. Len(s) : s[j] = u[i]
    <3>1. CASE i < n + 1
      BY <3>1, <1>1, <1>2
    <3>2. CASE i > n + 1
      <4>1. i - 1 \in 1 .. Len(s) /\ u[i] = s[i - 1]
        BY <3>2, <1>1, <1>2
      <4> QED
        BY <4>1
    <3> QED
      BY <3>1, <3>2, <2>3, <2>4
  <2>5. ASSUME NEW j \in 1 .. Len(s) PROVE \E i \in 1 .. Len(u) : u[i] = s[j]
    <3>1. CASE j < n + 1
      BY <3>1, <1>1, <1>2
    <3>2. CASE j >= n + 1
      <4>1. j + 1 \in 1 .. Len(u) /\ u[j + 1] = s[(j + 1) - 1] /\ (j + 1) - 1 = j
        BY <3>2, <1>1, <1>2
      <4> QED
        BY <4>1
    <3> QED
      BY <3>1, <3>2
  <2> QED
    BY <2>1, <2>2, <2>3, <2>4, <2>5
<1> QED
  BY <1>2, <1>6, <1>9, <1>10 DEF Holds, u

(* Unlinking its n-th process takes that one off list q.                   *)
LEMMA HeldOut ==
    ASSUME TypeOK, LinksConsistent,
           NEW q \in Queue, NEW s, Holds(q, s), NEW n \in 1 .. Len(s),
           \A x \in Node \ {s[n]} :
               qnext'[x] = IF x = qprev[s[n]] THEN qnext[s[n]] ELSE qnext[x],
           on' = [on EXCEPT ![s[n]] = EMPTY]
    PROVE  Holds(q, RemoveAt(s, n))'
<1> DEFINE u == RemoveAt(s, n)
           p == s[n]
<1>1. s \in Seq(Pid) /\ Len(s) \in Nat /\ p \in Pid
  <2>1. s \in Seq(Pid) /\ Len(s) \in Nat
    BY StopEntries
  <2> QED
    BY <2>1, ElementOfSeq
<1>2. /\ u \in Seq(Pid) /\ Len(u) = Len(s) - 1
      /\ \A i \in 1 .. Len(s) - 1 : u[i] = IF i < n THEN s[i] ELSE s[i + 1]
      /\ \A i \in 0 .. Len(s) :
            Stop(q, u, i) = IF i < n THEN Stop(q, s, i) ELSE Stop(q, s, i + 1)
  BY <1>1, StopsOut
<1> HIDE DEF u
<1>3. /\ \A i \in 0 .. Len(s) + 1 : Stop(q, s, i) \in Node
      /\ \A i, j \in 0 .. Len(s) + 1 : Stop(q, s, i) = Stop(q, s, j) => i = j
  BY StopEntries
<1>4. Stop(q, s, n) = p
  <2>1. \A i \in 1 .. Len(s) : Stop(q, s, i) = s[i]
    BY <1>1 DEF Stop
  <2> QED
    BY <2>1
<1>5. \A i \in 0 .. Len(s) : qnext[Stop(q, s, i)] = Stop(q, s, i + 1)
  BY DEF Holds
<1>6. qprev[p] = Stop(q, s, n - 1) /\ qnext[p] = Stop(q, s, n + 1)
  <2> DEFINE m == n - 1
  <2>1. m \in 0 .. Len(s) /\ m + 1 = n /\ n \in 0 .. Len(s)
    BY <1>1
  <2> HIDE DEF m
  <2>2. qprev[Stop(q, s, m + 1)] = Stop(q, s, m)
    BY <2>1, StopsBack
  <2> QED
    BY <2>1, <2>2, <1>4, <1>5 DEF m
<1>7. ASSUME NEW i \in 0 .. Len(u) PROVE qnext'[Stop(q, u, i)] = Stop(q, u, i + 1)
  <2>0. i \in 0 .. Len(s) /\ i + 1 \in 0 .. Len(s) /\ n - 1 \in 0 .. Len(s) + 1
        /\ i \in 0 .. Len(s) + 1 /\ i + 1 \in 0 .. Len(s) + 1 /\ n \in 0 .. Len(s) + 1
    BY <1>1, <1>2
  <2>1. CASE i < n - 1
    <3>1. /\ Stop(q, s, i) \in Node /\ Stop(q, s, i) # p /\ Stop(q, s, i) # qprev[p]
      BY <2>0, <2>1, <1>3, <1>4, <1>6
    <3>2. i < n /\ i + 1 < n
      BY <2>1
    <3> QED
      BY <2>0, <3>1, <3>2, <1>2, <1>5
  <2>2. CASE i = n - 1
    <3>1. /\ Stop(q, s, i) \in Node /\ Stop(q, s, i) # p /\ Stop(q, s, i) = qprev[p]
      BY <2>0, <2>2, <1>3, <1>4, <1>6
    <3>2. qnext'[Stop(q, s, i)] = Stop(q, s, n + 1)
      BY <3>1, <1>6
    <3>3. Stop(q, u, i) = Stop(q, s, i)
      BY <2>0, <2>2, <1>2
    <3>4. Stop(q, u, i + 1) = Stop(q, s, n + 1)
      <4>1. i + 1 = n
        BY <2>2
      <4> QED
        BY <2>0, <4>1, <1>2
    <3> QED
      BY <3>2, <3>3, <3>4
  <2>3. CASE i > n - 1
    <3> DEFINE m == i + 1
    <3>1. m \in 0 .. Len(s) /\ m \in 0 .. Len(s) + 1 /\ m # n /\ m # n - 1
      BY <2>0, <2>3
    <3>2. Stop(q, u, i) = Stop(q, s, m)
      BY <2>0, <2>3, <1>2
    <3>3. Stop(q, u, i + 1) = Stop(q, s, m + 1)
      <4>1. ~(m < n)
        BY <2>3
      <4> QED
        BY <3>1, <4>1, <1>2
    <3> HIDE DEF m
    <3>4. /\ Stop(q, s, m) \in Node /\ Stop(q, s, m) # p /\ Stop(q, s, m) # qprev[p]
      BY <2>0, <3>1, <1>3, <1>4, <1>6
    <3> QED
      BY <3>1, <3>2, <3>3, <3>4, <1>5
  <2> QED
    BY <2>1, <2>2, <2>3, <2>0
<1>8. \A i, j \in 1 .. Len(s) : s[i] = s[j] => i = j
  BY DEF Holds
<1>9. \A k \in 1 .. Len(u) :
         \/ k < n /\ k \in 1 .. Len(s) /\ u[k] = s[k]
         \/ k >= n /\ k + 1 \in 1 .. Len(s) /\ u[k] = s[k + 1]
  BY <1>1, <1>2
<1>10. ASSUME NEW i \in 1 .. Len(u), NEW j \in 1 .. Len(u), u[i] = u[j] PROVE i = j
  <2>1. \/ i < n /\ i \in 1 .. Len(s) /\ u[i] = s[i]
        \/ i >= n /\ i + 1 \in 1 .. Len(s) /\ u[i] = s[i + 1]
    BY <1>9
  <2>2. \/ j < n /\ j \in 1 .. Len(s) /\ u[j] = s[j]
        \/ j >= n /\ j + 1 \in 1 .. Len(s) /\ u[j] = s[j + 1]
    BY <1>9
  <2>3. /\ i >= n /\ j < n => i + 1 # j
        /\ j >= n /\ i < n => j + 1 # i
        /\ i + 1 = j + 1 => i = j
    OBVIOUS
  <2> QED
    BY <2>1, <2>2, <2>3, <1>8, <1>10
<1>11. ASSUME NEW x \in Pid
       PROVE  on'[x] = q <=> \E i \in 1 .. Len(u) : u[i] = x
  <2>1. on[x] = q <=> \E i \in 1 .. Len(s) : s[i] = x
    BY DEF Holds
  <2>2. on'[x] = IF x = p THEN EMPTY ELSE on[x]
    BY <1>1 DEF TypeOK
  <2>3. EMPTY # q
    BY Layout
  <2>4. ASSUME NEW i \in 1 .. Len(u)
        PROVE  u[i] # p /\ \E j \in 1 .. Len(s) : s[j] = u[i]
    <3>1. \/ i < n /\ i \in 1 .. Len(s) /\ u[i] = s[i]
          \/ i >= n /\ i + 1 \in 1 .. Len(s) /\ u[i] = s[i + 1]
      BY <1>9
    <3>2. i + 1 = n => i < n
      OBVIOUS
    <3> QED
      BY <3>1, <3>2, <1>8
  <2>5. ASSUME NEW j \in 1 .. Len(s), j # n PROVE \E i \in 1 .. Len(u) : u[i] = s[j]
    <3>1. CASE j < n
      <4>1. j \in 1 .. Len(u) /\ j \in 1 .. Len(s) - 1
        BY <3>1, <1>1, <1>2
      <4>2. u[j] = s[j]
        BY <3>1, <4>1, <1>2
      <4> QED
        BY <4>1, <4>2
    <3>2. CASE j > n
      <4> DEFINE i == j - 1
      <4>1. i \in 1 .. Len(u) /\ i \in 1 .. Len(s) - 1 /\ ~(i < n) /\ i + 1 = j
        BY <3>2, <1>1, <1>2
      <4> HIDE DEF i
      <4>2. u[i] = s[j]
        BY <4>1, <1>2
      <4> QED
        BY <4>1, <4>2
    <3> QED
      BY <3>1, <3>2, <2>5
  <2>6. CASE x = p
    <3>1. ~ \E i \in 1 .. Len(u) : u[i] = x
      BY <2>4, <2>6
    <3> QED
      BY <2>2, <2>3, <2>6, <3>1
  <2>7. CASE x # p
    <3>1. (\E i \in 1 .. Len(u) : u[i] = x) => \E j \in 1 .. Len(s) : s[j] = x
      BY <2>4
    <3>2. ASSUME NEW j \in 1 .. Len(s), s[j] = x PROVE \E i \in 1 .. Len(u) : u[i] = x
      <4>1. j # n
        BY <2>7, <3>2
      <4> QED
        BY <2>5, <3>2, <4>1
    <3> QED
      BY <2>1, <2>2, <2>7, <3>1, <3>2
  <2> QED
    BY <2>6, <2>7
<1> QED
  BY <1>2, <1>7, <1>10, <1>11 DEF Holds, u

(* A list keeps its processes when neither they nor their links change.    *)
LEMMA HeldElse ==
    ASSUME TypeOK, NEW r \in Queue, NEW t, Holds(r, t),
           \A x \in Node : Owner[x] = r => qnext'[x] = qnext[x],
           \A x \in Pid : on'[x] = r <=> on[x] = r
    PROVE  Holds(r, t)'
<1>1. t \in Seq(Pid) /\ Len(t) \in Nat
  BY StopEntries
<1>2. \A i \in 0 .. Len(t) : Stop(r, t, i) \in Node /\ Owner[Stop(r, t, i)] = r
  <2>1. \A i \in 0 .. Len(t) : i \in 0 .. Len(t) + 1
    BY <1>1
  <2> QED
    BY <2>1, StopEntries
<1>3. \A i \in 0 .. Len(t) : qnext'[Stop(r, t, i)] = Stop(r, t, i + 1)
  BY <1>2 DEF Holds
<1> QED
  BY <1>3 DEF Holds

(* The same of the processes read off the links.                           *)
LEMMA HeldThen ==
    ASSUME NEW q \in Queue, NEW s, Holds(q, s)'
    PROVE  Members(q)' = s /\ Holds(q, Members(q))'
<1>1. Members(q)' = s
  BY MembersThen
<1> QED
  BY <1>1 DEF Holds

LEMMA MembersElse ==
    ASSUME TypeOK, AllHeld, NEW r \in Queue,
           \A x \in Node : Owner[x] = r => qnext'[x] = qnext[x],
           \A x \in Pid : on'[x] = r <=> on[x] = r
    PROVE  Members(r)' = Members(r) /\ Holds(r, Members(r))'
<1>1. PICK t : t = Members(r)
  OBVIOUS
<1>2. Holds(r, t)
  BY <1>1 DEF AllHeld
<1>3. Holds(r, t)'
  BY <1>2, HeldElse
<1> QED
  BY <1>1, <1>3, HeldThen

LEMMA MembersIn ==
    ASSUME TypeOK, AllHeld,
           NEW p \in Pid, on[p] = EMPTY,
           NEW q \in Queue, NEW n \in 0 .. Len(Members(q)),
           LinkedBehind(p, Stop(q, Members(q), n)),
           on' = [on EXCEPT ![p] = q]
    PROVE  /\ AllHeld'
           /\ Members(q)' = InsertAt(Members(q), n + 1, p)
           /\ \A r \in Queue \ {q} : Members(r)' = Members(r)
<1>1. PICK s : s = Members(q)
  OBVIOUS
<1>2. Holds(q, s) /\ n \in 0 .. Len(s)
  BY <1>1 DEF AllHeld
<1>3. PICK u : u = InsertAt(s, n + 1, p)
  OBVIOUS
<1>4. Holds(q, InsertAt(s, n + 1, p))'
  <2>1. LinkedBehind(p, Stop(q, s, n))
    BY <1>1
  <2> QED
    BY <2>1, <1>2, HeldIn
<1>5. Members(q)' = u /\ Holds(q, Members(q))'
  <2>1. Holds(q, u)'
    BY <1>3, <1>4
  <2> QED
    BY <2>1, HeldThen
<1>6. ASSUME NEW r \in Queue \ {q}
      PROVE  Members(r)' = Members(r) /\ Holds(r, Members(r))'
  <2> DEFINE b == Stop(q, s, n)
  <2>1. Owner[b] = q /\ Owner[p] = EMPTY /\ r # EMPTY
    <3>1. n \in 0 .. Len(s) + 1
      <4>1. Len(s) \in Nat
        BY <1>2, StopEntries
      <4> QED
        BY <4>1, <1>2
    <3> QED
      BY <3>1, <1>2, StopEntries, OwnerOf, Layout
  <2>2. \A x \in Node : qnext'[x] = IF x = b THEN p ELSE IF x = p THEN qnext[b] ELSE qnext[x]
    BY <1>1 DEF LinkedBehind
  <2>3. \A x \in Node : Owner[x] = r => qnext'[x] = qnext[x]
    <3> HIDE DEF b
    <3> QED
      BY <2>1, <2>2
  <2>4. \A x \in Pid : on'[x] = r <=> on[x] = r
    BY <2>1 DEF TypeOK
  <2> QED
    BY <2>3, <2>4, MembersElse
<1>7. AllHeld'
  <2>1. \A r \in Queue : Holds(r, Members(r))'
    BY <1>5, <1>6
  <2> QED
    BY <2>1 DEF AllHeld
<1> QED
  BY <1>1, <1>3, <1>5, <1>6, <1>7

LEMMA MembersOut ==
    ASSUME TypeOK, LinksConsistent, AllHeld,
           NEW q \in Queue, NEW n \in 1 .. Len(Members(q)), NEW p, p = Members(q)[n],
           \A x \in Node \ {p} : qnext'[x] = IF x = qprev[p] THEN qnext[p] ELSE qnext[x],
           on' = [on EXCEPT ![p] = EMPTY]
    PROVE  /\ AllHeld'
           /\ Members(q)' = RemoveAt(Members(q), n)
           /\ \A r \in Queue \ {q} : Members(r)' = Members(r)
<1>1. PICK s : s = Members(q)
  OBVIOUS
<1>2. Holds(q, s) /\ n \in 1 .. Len(s) /\ p = s[n]
  BY <1>1 DEF AllHeld
<1>3. PICK u : u = RemoveAt(s, n)
  OBVIOUS
<1>4. Holds(q, RemoveAt(s, n))'
  BY <1>2, HeldOut
<1>5. Members(q)' = u /\ Holds(q, Members(q))'
  <2>1. Holds(q, u)'
    BY <1>3, <1>4
  <2> QED
    BY <2>1, HeldThen
<1>6. s \in Seq(Pid) /\ p \in Pid /\ on[p] = q
  <2>1. s \in Seq(Pid)
    BY <1>2, StopEntries
  <2>2. p \in Pid
    BY <2>1, <1>2, ElementOfSeq
  <2>3. \A x \in Pid : on[x] = q <=> \E i \in 1 .. Len(s) : s[i] = x
    BY <1>2 DEF Holds
  <2> QED
    BY <2>1, <2>2, <2>3, <1>2
<1>7. ASSUME NEW r \in Queue \ {q}
      PROVE  Members(r)' = Members(r) /\ Holds(r, Members(r))'
  <2>1. Owner[p] = q /\ p \in Node /\ r # EMPTY /\ q # EMPTY
    BY <1>6, OwnerOf, Layout
  <2>2. Owner[qprev[p]] = q
    BY <1>6, <2>1, Layout DEF LinksConsistent, BackwardLinks
  <2>3. \A x \in Node : Owner[x] = r => qnext'[x] = qnext[x]
    BY <2>1, <2>2
  <2>4. \A x \in Pid : on'[x] = r <=> on[x] = r
    BY <2>1, <1>6 DEF TypeOK
  <2> QED
    BY <2>3, <2>4, MembersElse
<1>8. AllHeld'
  <2>1. \A r \in Queue : Holds(r, Members(r))'
    BY <1>5, <1>7
  <2> QED
    BY <2>1 DEF AllHeld
<1> QED
  BY <1>1, <1>3, <1>5, <1>7, <1>8

LEMMA MembersStay ==
    ASSUME TypeOK, AllHeld, UNCHANGED <<qnext, on>>
    PROVE  AllHeld' /\ \A r \in Queue : Members(r)' = Members(r)
<1>1. \A r \in Queue : Members(r)' = Members(r) /\ Holds(r, Members(r))'
  BY MembersElse
<1> QED
  BY <1>1 DEF AllHeld

--------------------------------------------------------------------------------
(* The entries of the lists with their keys.                               *)

LEMMA KeyedTypes ==
    ASSUME TypeOK, AllHeld, NEW q \in Queue
    PROVE  LET s    == Members(q)
               list == Keyed(q)
           IN  /\ Holds(q, s) /\ s \in Seq(Pid)
               /\ list \in Seq(Entries(Pid)) /\ Len(s) \in Nat /\ Len(list) = Len(s)
               /\ \A i \in 1 .. Len(s) :
                     /\ s[i] \in Pid /\ on[s[i]] = q
                     /\ list[i] = Entry(s[i], qkey[s[i]])
                     /\ list[i].pid = s[i] /\ list[i].key = qkey[s[i]]
               /\ \A i, j \in 1 .. Len(s) : s[i] = s[j] => i = j
               /\ Once(list)
               /\ PidsOf(list) = {p \in Pid : on[p] = q}
               /\ Range(s) = {p \in Pid : on[p] = q}
<1> DEFINE s == Members(q)
           list == Keyed(q)
<1>1. Holds(q, s) /\ s \in Seq(Pid)
  BY DEF AllHeld, Holds
<1>2. list = [i \in DOMAIN s |-> Entry(s[i], qkey[s[i]])]
  BY DEF Keyed, Entry
<1> HIDE DEF s, list
<1>3. Len(s) \in Nat /\ DOMAIN s = 1 .. Len(s) /\ \A i \in 1 .. Len(s) : s[i] \in Pid
  BY <1>1, LenProperties, ElementOfSeq
<1>4. \A i \in 1 .. Len(s) :
         /\ list[i] = Entry(s[i], qkey[s[i]])
         /\ list[i].pid = s[i] /\ list[i].key = qkey[s[i]]
  BY <1>2, <1>3 DEF Entry
<1>5. \A i \in 1 .. Len(s) : qkey[s[i]] \in Int
  BY <1>3, Layout DEF TypeOK
<1>6. list \in Seq(Entries(Pid)) /\ Len(list) = Len(s)
  <2>1. \A i \in 1 .. Len(s) : Entry(s[i], qkey[s[i]]) \in Entries(Pid)
    BY <1>3, <1>5 DEF Entry, Entries
  <2>2. list = [i \in 1 .. Len(s) |-> Entry(s[i], qkey[s[i]])]
    BY <1>2, <1>3
  <2>3. list \in [1 .. Len(s) -> Entries(Pid)]
    BY <2>1, <2>2
  <2>4. list \in Seq(Entries(Pid))
    BY <2>3, <1>3
  <2> QED
    BY <2>3, <2>4, <1>3, LenProperties
<1>7. /\ \A i, j \in 1 .. Len(s) : s[i] = s[j] => i = j
      /\ \A p \in Pid : on[p] = q <=> \E i \in 1 .. Len(s) : s[i] = p
  BY <1>1 DEF Holds
<1>8. DOMAIN list = 1 .. Len(s)
  BY <1>2, <1>3
<1>9. Once(list)
  BY <1>4, <1>7, <1>8 DEF Once
<1>10. PidsOf(list) = {p \in Pid : on[p] = q}
  BY <1>3, <1>4, <1>7, <1>8 DEF PidsOf
<1>11. Range(s) = {p \in Pid : on[p] = q}
  BY <1>3, <1>7 DEF Range
<1>12. \A i \in 1 .. Len(s) : on[s[i]] = q
  BY <1>3, <1>7
<1> QED
  BY <1>1, <1>3, <1>4, <1>6, <1>7, <1>9, <1>10, <1>11, <1>12 DEF s, list

(* A list is known by its processes and their keys.                        *)
LEMMA KeyedIs ==
    TypeOK /\ AllHeld =>
        \A q \in Queue : \A new \in Seq(Entries(Pid)) :
            (/\ Len(new) = Len(Members(q))
             /\ \A i \in 1 .. Len(new) : /\ new[i].pid = Members(q)[i]
                                         /\ new[i].key = qkey[Members(q)[i]])
                => Keyed(q) = new
<1> SUFFICES ASSUME TypeOK, AllHeld, NEW q \in Queue, NEW new \in Seq(Entries(Pid)),
                    Len(new) = Len(Members(q)),
                    \A i \in 1 .. Len(new) : /\ new[i].pid = Members(q)[i]
                                             /\ new[i].key = qkey[Members(q)[i]]
             PROVE  Keyed(q) = new
  OBVIOUS
<1> DEFINE s == Members(q)
           list == Keyed(q)
<1>1. /\ list \in Seq(Entries(Pid)) /\ Len(list) = Len(s) /\ Len(s) \in Nat
      /\ \A i \in 1 .. Len(s) : list[i].pid = s[i] /\ list[i].key = qkey[s[i]]
  BY KeyedTypes
<1> HIDE DEF list
<1>2. \A i \in 1 .. Len(s) : list[i] \in Entries(Pid) /\ new[i] \in Entries(Pid)
  BY <1>1, ListTypes
<1>3. ASSUME NEW i \in 1 .. Len(s) PROVE list[i] = new[i]
  <2>1. list[i] \in Entries(Pid) /\ new[i] \in Entries(Pid)
    BY <1>2
  <2>2. list[i].pid = new[i].pid /\ list[i].key = new[i].key
    BY <1>1
  <2>3. \A e \in Entries(Pid) : e = [pid |-> e.pid, key |-> e.key]
    BY DEF Entries
  <2> QED
    BY <2>1, <2>2, <2>3
<1> QED
  BY <1>1, <1>3, SeqEqual DEF list

LEMMA KeyedThen ==
    (TypeOK /\ AllHeld =>
        \A q \in Queue : \A new \in Seq(Entries(Pid)) :
            (/\ Len(new) = Len(Members(q))
             /\ \A i \in 1 .. Len(new) : /\ new[i].pid = Members(q)[i]
                                         /\ new[i].key = qkey[Members(q)[i]])
                => Keyed(q) = new)'
BY KeyedIs, PTL

(* It stays when its processes and their keys do.                          *)
LEMMA KeyedStays ==
    ASSUME TypeOK, AllHeld, NEW q \in Queue, Members(q)' = Members(q),
           \A p \in Pid : on[p] = q => qkey'[p] = qkey[p]
    PROVE  Keyed(q)' = Keyed(q)
<1>1. PICK s : s = Members(q)
  OBVIOUS
<1>2. s \in Seq(Pid) /\ DOMAIN s = 1 .. Len(s)
      /\ \A i \in 1 .. Len(s) : s[i] \in Pid /\ on[s[i]] = q
  BY <1>1, KeyedTypes, LenProperties
<1>3. \A i \in DOMAIN s : qkey'[s[i]] = qkey[s[i]]
  BY <1>2
<1>4. Keyed(q) = [i \in DOMAIN s |-> [pid |-> s[i], key |-> qkey[s[i]]]]
  BY <1>1 DEF Keyed
<1>5. Keyed(q)' = [i \in DOMAIN s |-> [pid |-> s[i], key |-> qkey'[s[i]]]]
  BY <1>1 DEF Keyed
<1> QED
  BY <1>3, <1>4, <1>5

(* Where the sorted list and the delta list want a new entry.              *)
LEMMA InsertIs ==
    ASSUME NEW P, NEW list \in Seq(Entries(P)), NEW pid \in P, NEW k \in Int,
           NEW at \in 1 .. Len(list) + 1,
           \A j \in 1 .. at - 1 : list[j].key >= k,
           at <= Len(list) => list[at].key < k
    PROVE  Insert(list, pid, k) = InsertAt(list, at, Entry(pid, k))
<1> DEFINE Place(i) == /\ \A j \in 1 .. i - 1 : list[j].key >= k
                       /\ i <= Len(list) => list[i].key < k
           m == CHOOSE i \in 1 .. Len(list) + 1 : Place(i)
<1>1. Len(list) \in Nat /\ \A i \in 1 .. Len(list) : list[i].key \in Int
  BY ListTypes
<1>2. ASSUME NEW i \in 1 .. Len(list) + 1, Place(i) PROVE i = at
  <2>1. CASE i < at
    <3>1. i \in 1 .. at - 1 /\ i \in 1 .. Len(list) /\ i <= Len(list)
      BY <2>1, <1>1
    <3> QED
      BY <3>1, <1>1, <1>2
  <2>2. CASE i > at
    <3>1. at \in 1 .. i - 1 /\ at \in 1 .. Len(list) /\ at <= Len(list)
      BY <2>2, <1>1
    <3> QED
      BY <3>1, <1>1, <1>2
  <2> QED
    BY <2>1, <2>2, <1>1
<1>3. Place(at)
  OBVIOUS
<1>4. m = at
  <2> HIDE DEF Place
  <2> QED
    BY <1>2, <1>3
<1>5. Insert(list, pid, k) = InsertAt(list, m, Entry(pid, k))
  BY Zenon DEF Insert
<1> HIDE DEF m
<1> QED
  BY <1>4, <1>5

LEMMA InsertdIs ==
    ASSUME NEW P, NEW list \in Seq(Entries(P)), NEW pid \in P, NEW k \in Int,
           NEW at \in 1 .. Len(list) + 1,
           \A j \in 1 .. at - 1 : Delay(list, j) <= k,
           at <= Len(list) => Delay(list, at) > k
    PROVE  /\ Insertd(list, pid, k) \in Seq(Entries(P))
           /\ InsertedAt(list, pid, k, at, Insertd(list, pid, k))
<1>1. PICK i \in 1 .. Len(list) + 1 : InsertedAt(list, pid, k, i, Insertd(list, pid, k))
  BY InsertdEntries
<1>2. /\ \A j \in 1 .. i - 1 : Delay(list, j) <= k
      /\ i <= Len(list) => Delay(list, i) > k
  BY <1>1 DEF InsertedAt
<1>3. Len(list) \in Nat /\ \A j \in 0 .. Len(list) : Delay(list, j) \in Int
  BY ListTypes, DelayInt
<1>4. CASE i < at
  <2>1. i \in 1 .. at - 1 /\ i <= Len(list) /\ i \in 0 .. Len(list)
    BY <1>4, <1>3
  <2> QED
    BY <2>1, <1>2, <1>3
<1>5. CASE i > at
  <2>1. at \in 1 .. i - 1 /\ at <= Len(list) /\ at \in 0 .. Len(list)
    BY <1>5, <1>3
  <2> QED
    BY <2>1, <1>2, <1>3
<1> QED
  BY <1>1, <1>3, <1>4, <1>5, InsertdEntries

LEMMA RemoveFirstAt ==
    ASSUME NEW P, NEW list \in Seq(P), NEW at \in 1 .. Len(list),
           \A i, j \in 1 .. Len(list) : list[i] = list[j] => i = j
    PROVE  RemoveFirst(list, list[at]) = RemoveAt(list, at)
<1> DEFINE I == {i \in 1 .. Len(list) : list[i] = list[at]}
<1>1. Len(list) \in Nat
  BY LenProperties
<1>2. I = {at}
  OBVIOUS
<1>3. SelectInSeq(list, LAMBDA e : e = list[at]) = IF I # {} THEN Min(I) ELSE 0
  BY DEF SelectInSeq
<1>4. Min(I) = at
  BY <1>2 DEF Min
<1> HIDE DEF I
<1>5. SelectInSeq(list, LAMBDA e : e = list[at]) = at
  BY <1>2, <1>3, <1>4
<1> QED
  BY <1>5 DEF RemoveFirst

LEMMA AppendAt ==
    ASSUME NEW P, NEW list \in Seq(P), NEW x \in P
    PROVE  InsertAt(list, Len(list) + 1, x) = Append(list, x)
<1>1. Len(list) \in Nat /\ Len(list) + 1 \in 1 .. Len(list) + 1
  BY LenProperties
<1> DEFINE at == Len(list) + 1
           new == InsertAt(list, at, x)
<1>2. /\ new \in Seq(P) /\ Len(new) = Len(list) + 1
      /\ \A i \in 1 .. Len(list) + 1 :
            new[i] = IF i < at THEN list[i] ELSE IF i = at THEN x ELSE list[i - 1]
  <2>1. at \in 1 .. Len(list) + 1 /\ list \in Seq(P) /\ x \in P
    BY <1>1
  <2> HIDE DEF at
  <2>2. new \in Seq(P) /\ Placed(list, at, x, new)
    BY <2>1, InsertAtPlaces
  <2> QED
    BY <2>2 DEF Placed
<1> HIDE DEF new
<1>3. /\ Append(list, x) \in Seq(P) /\ Len(Append(list, x)) = Len(list) + 1
      /\ \A i \in 1 .. Len(list) + 1 :
            Append(list, x)[i] = IF i = Len(list) + 1 THEN x ELSE list[i]
  BY <1>1
<1>4. \A i \in 1 .. Len(list) + 1 : new[i] = Append(list, x)[i]
  BY <1>1, <1>2, <1>3
<1> QED
  BY <1>1, <1>2, <1>3, <1>4, SeqEqual DEF new

LEMMA TailFront ==
    ASSUME NEW P, NEW list \in Seq(P), Len(list) # 0
    PROVE  RemoveAt(list, 1) = Tail(list) /\ RemoveAt(list, Len(list)) = Front(list)
<1>1. Len(list) \in Nat /\ Len(list) >= 1
  BY LenProperties
<1>2. RemoveAt(list, 1) = Tail(list)
  <2> DEFINE new == RemoveAt(list, 1)
  <2>1. /\ new \in Seq(P) /\ Len(new) = Len(list) - 1
        /\ \A i \in 1 .. Len(list) - 1 : new[i] = list[i + 1]
    <3>1. 1 \in 1 .. Len(list)
      BY <1>1
    <3> QED
      BY <3>1, RemoveAtProps
  <2> HIDE DEF new
  <2>2. /\ Tail(list) \in Seq(P) /\ Len(Tail(list)) = Len(list) - 1
        /\ \A i \in 1 .. Len(list) - 1 : Tail(list)[i] = list[i + 1]
    BY <1>1
  <2>3. \A i \in 1 .. Len(list) - 1 : new[i] = Tail(list)[i]
    BY <2>1, <2>2
  <2> QED
    BY <2>1, <2>2, <2>3, SeqEqual DEF new
<1>3. RemoveAt(list, Len(list)) = Front(list)
  <2> DEFINE n == Len(list)
             new == RemoveAt(list, n)
             front == SubSeq(list, 1, n - 1)
  <2>1. /\ new \in Seq(P) /\ Len(new) = Len(list) - 1
        /\ \A i \in 1 .. Len(list) - 1 : new[i] = IF i < n THEN list[i] ELSE list[i + 1]
    <3>1. n \in 1 .. Len(list)
      BY <1>1
    <3> HIDE DEF n
    <3> QED
      BY <3>1, RemoveAtProps
  <2>2. /\ front \in Seq(P) /\ Len(front) = n - 1
        /\ \A i \in 1 .. n - 1 : front[i] = list[i]
    <3> DEFINE m == n - 1
    <3>1. m \in Int /\ m >= 0 /\ 1 \in Int /\ m - 1 + 1 = m
      BY <1>1
    <3>2. \A i \in 1 .. m : list[i] \in P
      BY <1>1, ElementOfSeq
    <3> HIDE DEF m
    <3>3. /\ SubSeq(list, 1, m) \in Seq(P)
          /\ Len(SubSeq(list, 1, m)) = IF 1 <= m THEN m - 1 + 1 ELSE 0
          /\ \A i \in 1 .. m - 1 + 1 : SubSeq(list, 1, m)[i] = list[1 + i - 1]
      BY <3>1, <3>2, SubSeqProperties
    <3>4. \A i \in 1 .. m : 1 + i - 1 = i
      OBVIOUS
    <3>5. /\ Len(SubSeq(list, 1, m)) = m
          /\ \A i \in 1 .. m : SubSeq(list, 1, m)[i] = list[i]
      BY <3>1, <3>3, <3>4
    <3> QED
      BY <3>3, <3>5 DEF m
  <2> HIDE DEF new, front
  <2>3. \A i \in 1 .. Len(list) - 1 : new[i] = front[i]
    BY <1>1, <2>1, <2>2
  <2>4. new = front
    BY <2>1, <2>2, <2>3, SeqEqual
  <2> QED
    BY <2>4 DEF new, front, Front
<1> QED
  BY <1>2, <1>3

--------------------------------------------------------------------------------
(* Steps of the table as steps of the lists.                               *)

Waits == [s \in 0 .. NSEM - 1 |-> Members(squeue(s))]

(* Every semaphore has a queue of its own.                                 *)
LEMMA WaitLists ==
    /\ \A s \in 0 .. NSEM - 1 : squeue(s) \in SemQueue /\ Waits[s] = Members(squeue(s))
    /\ \A s, t \in 0 .. NSEM - 1 : squeue(s) = squeue(t) => s = t
    /\ \A q \in SemQueue : \E s \in 0 .. NSEM - 1 : q = squeue(s)
<1>1. \A s, t \in 0 .. NSEM - 1 : squeue(s) = squeue(t) => s = t
  BY QueueTabAssumption DEF squeue
<1> QED
  BY <1>1 DEF Waits, SemQueue

LEMMA WaitsKept ==
    ASSUME \A r \in SemQueue : Members(r)' = Members(r)
    PROVE  Waits' = Waits
<1>1. \A s \in 0 .. NSEM - 1 : Members(squeue(s))' = Members(squeue(s))
  BY WaitLists
<1>2. Waits' = [s \in 0 .. NSEM - 1 |-> Members(squeue(s))']
  BY DEF Waits
<1>3. Waits = [s \in 0 .. NSEM - 1 |-> Members(squeue(s))]
  BY DEF Waits
<1> QED
  BY <1>1, <1>2, <1>3, Zenon

LEMMA WaitsChanged ==
    ASSUME NEW s \in 0 .. NSEM - 1, NEW v, Members(squeue(s))' = v,
           \A r \in SemQueue \ {squeue(s)} : Members(r)' = Members(r)
    PROVE  Waits' = [Waits EXCEPT ![s] = v]
<1> DEFINE D == 0 .. NSEM - 1
<1>1. ASSUME NEW t \in D
      PROVE  Waits'[t] = IF t = s THEN v ELSE Waits[t]
  <2>1. Waits'[t] = Members(squeue(t))' /\ Waits[t] = Members(squeue(t))
    BY DEF Waits
  <2>2. CASE t = s
    BY <2>1, <2>2
  <2>3. CASE t # s
    <3>1. squeue(t) \in SemQueue \ {squeue(s)}
      BY <2>3, WaitLists
    <3>2. Members(squeue(t))' = Members(squeue(t))
      BY <3>1
    <3> QED
      BY <2>1, <2>3, <3>2
  <2> QED
    BY <2>2, <2>3
<1>2. Waits' = [t \in D |-> Waits'[t]] /\ Waits = [t \in D |-> Waits[t]]
  BY DEF Waits
<1>3. [Waits EXCEPT ![s] = v] = [t \in D |-> IF t = s THEN v ELSE Waits[t]]
  BY <1>2
<1> HIDE DEF D
<1> QED
  BY <1>1, <1>2, <1>3

(* A process that has been put on no list is on none.                      *)
LEMMA OnNone ==
    ASSUME TypeOK, AllHeld, NEW p \in Pid, on[p] = EMPTY
    PROVE  ~Lists!OnSomeList(p)
<1>1. EMPTY \notin Queue /\ readylist \in Queue /\ sleepq \in Queue /\ SemQueue \subseteq Queue
  BY Layout
<1>2. \A q \in Queue : p \notin PidsOf(Keyed(q)) /\ p \notin Range(Members(q))
  <2> SUFFICES ASSUME NEW q \in Queue
               PROVE  p \notin PidsOf(Keyed(q)) /\ p \notin Range(Members(q))
    OBVIOUS
  <2>1. /\ PidsOf(Keyed(q)) = {x \in Pid : on[x] = q}
        /\ Range(Members(q)) = {x \in Pid : on[x] = q}
    BY KeyedTypes
  <2> QED
    BY <2>1, <1>1
<1>3. \A s \in 0 .. NSEM - 1 : p \notin Range(Waits[s])
  BY <1>1, <1>2, WaitLists
<1> QED
  BY <1>1, <1>2, <1>3, SameOperators DEF Lists!OnSomeList, Waits

(* The ends of a list.                                                     *)
LEMMA ListEnds ==
    ASSUME TypeOK, LinksConsistent, AllHeld, NEW q \in Queue
    PROVE  LET s == Members(q)
           IN  /\ s \in Seq(Pid) /\ Len(s) \in Nat
               /\ isempty(q) <=> Len(s) = 0
               /\ Len(s) # 0 => firstid(q) = s[1] /\ lastid(q) = s[Len(s)]
               /\ firstid(q) = Stop(q, s, 1)
               /\ lastid(q) = Stop(q, s, Len(s))
<1>1. PICK s : s = Members(q)
  OBVIOUS
<1>2. Holds(q, s) /\ s \in Seq(Pid)
  BY <1>1 DEF AllHeld, Holds
<1>3. /\ Len(s) \in Nat /\ Stop(q, s, 0) = q
      /\ \A n \in 1 .. Len(s) : Stop(q, s, n) = s[n] /\ s[n] \in Pid
      /\ Stop(q, s, Len(s) + 1) = queuetail(q)
      /\ queuetail(q) \in Node /\ queuetail(q) \notin Pid
  BY <1>2, Stops
<1>4. firstid(q) = Stop(q, s, 1)
  <2>1. \A n \in 0 .. Len(s) : qnext[Stop(q, s, n)] = Stop(q, s, n + 1)
    BY <1>2 DEF Holds
  <2>2. qnext[Stop(q, s, 0)] = Stop(q, s, 0 + 1)
    BY <2>1, <1>3
  <2> QED
    BY <2>2, <1>3 DEF firstid
<1>5. lastid(q) = Stop(q, s, Len(s))
  <2>1. \A n \in 0 .. Len(s) : qprev[Stop(q, s, n + 1)] = Stop(q, s, n)
    BY <1>2, StopsBack
  <2>2. qprev[Stop(q, s, Len(s) + 1)] = Stop(q, s, Len(s))
    BY <2>1, <1>3
  <2> QED
    BY <2>2, <1>3 DEF lastid
<1>6. CASE Len(s) = 0
  <2>1. firstid(q) = queuetail(q)
    BY <1>3, <1>4, <1>6
  <2>2. isempty(q)
    BY <2>1, <1>3, Layout, QueueTabAssumption DEF isempty
  <2> QED
    BY <2>2, <1>1, <1>2, <1>3, <1>4, <1>5, <1>6
<1>7. CASE Len(s) # 0
  <2>1. 1 \in 1 .. Len(s) /\ Len(s) \in 1 .. Len(s)
    BY <1>3, <1>7
  <2>2. firstid(q) = s[1] /\ lastid(q) = s[Len(s)] /\ s[1] \in Pid
    BY <2>1, <1>3, <1>4, <1>5
  <2>3. ~isempty(q)
    BY <2>2, Layout, QueueTabAssumption DEF isempty
  <2> QED
    BY <2>2, <2>3, <1>1, <1>2, <1>3, <1>4, <1>5, <1>7
<1> QED
  BY <1>6, <1>7

(* A process is taken off list q: from the list of entries it disappears   *)
(* with its key.                                                           *)
LEMMA TakenOff ==
    ASSUME TypeOK, TypeOK', LinksConsistent, AllHeld,
           NEW q \in Queue, NEW n \in 1 .. Len(Members(q)), NEW p, p = Members(q)[n],
           \A x \in Node \ {p} : qnext'[x] = IF x = qprev[p] THEN qnext[p] ELSE qnext[x],
           on' = [on EXCEPT ![p] = EMPTY],
           qkey' = qkey
    PROVE  /\ AllHeld'
           /\ Members(q)' = RemoveAt(Members(q), n)
           /\ Keyed(q)' = RemoveAt(Keyed(q), n)
           /\ \A r \in Queue \ {q} : Members(r)' = Members(r) /\ Keyed(r)' = Keyed(r)
<1>1. /\ AllHeld'
      /\ Members(q)' = RemoveAt(Members(q), n)
      /\ \A r \in Queue \ {q} : Members(r)' = Members(r)
  BY MembersOut
<1>2. \A r \in Queue \ {q} : Keyed(r)' = Keyed(r)
  BY <1>1, KeyedStays
<1>3. PICK s : s = Members(q)
  OBVIOUS
<1>4. PICK list : list = Keyed(q)
  OBVIOUS
<1>5. /\ s \in Seq(Pid) /\ list \in Seq(Entries(Pid)) /\ Len(s) \in Nat /\ Len(list) = Len(s)
      /\ \A i \in 1 .. Len(s) : list[i].pid = s[i] /\ list[i].key = qkey[s[i]]
      /\ n \in 1 .. Len(s)
  BY <1>3, <1>4, KeyedTypes
<1>6. PICK new : new = RemoveAt(list, n)
  OBVIOUS
<1>7. PICK rest : rest = RemoveAt(s, n)
  OBVIOUS
<1>8. /\ new \in Seq(Entries(Pid)) /\ Len(new) = Len(list) - 1
      /\ \A i \in 1 .. Len(list) - 1 : new[i] = IF i < n THEN list[i] ELSE list[i + 1]
  <2> DEFINE S == Entries(Pid)
  <2>1. list \in Seq(S) /\ n \in 1 .. Len(list)
    BY <1>5
  <2> HIDE DEF S
  <2>2. /\ new \in Seq(S) /\ Len(new) = Len(list) - 1
        /\ \A i \in 1 .. Len(list) - 1 : new[i] = IF i < n THEN list[i] ELSE list[i + 1]
    BY <2>1, <1>6, RemoveAtProps
  <2> QED
    BY <2>2 DEF S
<1>9. /\ Len(rest) = Len(s) - 1
      /\ \A i \in 1 .. Len(s) - 1 : rest[i] = IF i < n THEN s[i] ELSE s[i + 1]
  BY <1>5, <1>7, RemoveAtProps
<1>10. Len(new) = Len(rest)
       /\ \A i \in 1 .. Len(new) : new[i].pid = rest[i] /\ new[i].key = qkey[rest[i]]
  <2>1. Len(new) = Len(rest) /\ Len(new) = Len(s) - 1
    BY <1>5, <1>8, <1>9
  <2>2. ASSUME NEW i \in 1 .. Len(s) - 1
        PROVE  new[i].pid = rest[i] /\ new[i].key = qkey[rest[i]]
    <3>1. i \in 1 .. Len(s) /\ i + 1 \in 1 .. Len(s)
      BY <1>5
    <3>2. CASE i < n
      <4>1. new[i] = list[i] /\ rest[i] = s[i]
        BY <3>2, <1>5, <1>8, <1>9
      <4> QED
        BY <4>1, <3>1, <1>5
    <3>3. CASE ~(i < n)
      <4>1. new[i] = list[i + 1] /\ rest[i] = s[i + 1]
        BY <3>3, <1>5, <1>8, <1>9
      <4> QED
        BY <4>1, <3>1, <1>5
    <3> QED
      BY <3>2, <3>3
  <2> QED
    BY <2>1, <2>2
<1>11. Members(q)' = rest
  BY <1>1, <1>3, <1>7
<1>12. Keyed(q)' = new
  BY <1>1, <1>8, <1>10, <1>11, KeyedThen
<1> QED
  BY <1>1, <1>2, <1>4, <1>6, <1>12

(* The two ways the code takes it off.                                     *)
LEMMA UnlinkedAt ==
    ASSUME TypeOK, LinksConsistent, NEW p \in Pid, on[p] \in Queue, Unlink(p)
    PROVE  \A x \in Node \ {p} : qnext'[x] = IF x = qprev[p] THEN qnext[p] ELSE qnext[x]
<1>1. qnext[p] \in Node /\ qprev[p] \in Node /\ qnext \in [Node -> Node \cup {EMPTY}]
  BY Neighbours DEF TypeOK
<1> QED
  BY <1>1 DEF Unlink

LEMMA DequeuedAt ==
    ASSUME TypeOK, LinksConsistent, NEW q \in Queue, ~isempty(q), DequeueFrom(q)
    PROVE  /\ firstid(q) \in Pid /\ on[firstid(q)] = q
           /\ \A x \in Node \ {firstid(q)} :
                 qnext'[x] = IF x = qprev[firstid(q)] THEN qnext[firstid(q)] ELSE qnext[x]
           /\ on' = [on EXCEPT ![firstid(q)] = EMPTY]
           /\ qkey' = qkey
<1> DEFINE p == firstid(q)
<1>1. p \in Pid /\ on[p] = q
  BY FirstAndLast
<1>2. qnext[p] \in Node /\ qprev[p] \in Node /\ qnext \in [Node -> Node \cup {EMPTY}]
  BY <1>1, Neighbours DEF TypeOK
<1>3. /\ qnext' = [qnext EXCEPT ![qprev[p]] = qnext[p], ![p] = EMPTY]
      /\ on' = [on EXCEPT ![p] = EMPTY] /\ qkey' = qkey
  BY DEF DequeueFrom
<1> HIDE DEF p
<1>4. \A x \in Node \ {p} : qnext'[x] = IF x = qprev[p] THEN qnext[p] ELSE qnext[x]
  BY <1>2, <1>3
<1> QED
  BY <1>1, <1>3, <1>4 DEF p

(* Where a process stands on its list.                                     *)
LEMMA StandsAt ==
    ASSUME AllHeld, NEW q \in Queue, NEW p \in Pid, on[p] = q
    PROVE  \E n \in 1 .. Len(Members(q)) : p = Members(q)[n]
<1>1. Holds(q, Members(q))
  BY DEF AllHeld
<1> QED
  BY <1>1 DEF Holds

(* getitem(): kill() and suspend() take a process off the ready list or a  *)
(* semaphore's queue.                                                      *)
LEMMA GetitemIsUnready ==
    ASSUME ListInv, TypeOK', NEW p \in Pid, GetitemPid(p), on[p] = readylist
    PROVE  AllHeld' /\ Lists!Unready(p)
<1>1. TypeOK /\ LinksConsistent /\ AllHeld
  BY DEF ListInv, IInv, TableInv
<1>2. /\ readylist \in Queue /\ sleepq \in Queue \ {readylist}
      /\ SemQueue \subseteq Queue \ {readylist}
  BY Layout
<1>3. /\ \A x \in Node \ {p} : qnext'[x] = IF x = qprev[p] THEN qnext[p] ELSE qnext[x]
      /\ on' = [on EXCEPT ![p] = EMPTY] /\ qkey' = qkey
  BY <1>1, <1>2, UnlinkedAt DEF GetitemPid
<1>4. PICK n \in 1 .. Len(Members(readylist)) : p = Members(readylist)[n]
  BY <1>1, <1>2, StandsAt
<1>5. /\ AllHeld' /\ Keyed(readylist)' = RemoveAt(Keyed(readylist), n)
      /\ \A r \in Queue \ {readylist} : Members(r)' = Members(r) /\ Keyed(r)' = Keyed(r)
  BY <1>1, <1>2, <1>3, <1>4, TakenOff
<1>6. PICK list : list = Keyed(readylist)
  OBVIOUS
<1>7. /\ list \in Seq(Entries(Pid)) /\ Once(list) /\ n \in 1 .. Len(list) /\ list[n].pid = p
      /\ PidsOf(list) = {x \in Pid : on[x] = readylist}
  BY <1>1, <1>2, <1>4, <1>6, KeyedTypes
<1>8. Getitem(list, p) = RemoveAt(list, n)
  BY <1>7, GetitemAt
<1>9. Keyed(readylist)' = Lists!Getitem(Keyed(readylist), p)
  BY <1>5, <1>6, <1>8, SameOperators
<1>10. p \in Lists!PidsOf(Keyed(readylist))
  BY <1>6, <1>7, SameOperators
<1>11. Keyed(sleepq)' = Keyed(sleepq) /\ Waits' = Waits
  BY <1>2, <1>5, WaitsKept
<1> QED
  BY <1>5, <1>9, <1>10, <1>11 DEF Lists!Unready, Waits

(* A process is taken off the queue of a semaphore.                        *)
LEMMA WaitTaken ==
    ASSUME ListInv, TypeOK',
           NEW s \in 0 .. NSEM - 1, NEW n \in 1 .. Len(Waits[s]), NEW p, p = Waits[s][n],
           \A x \in Node \ {p} : qnext'[x] = IF x = qprev[p] THEN qnext[p] ELSE qnext[x],
           on' = [on EXCEPT ![p] = EMPTY],
           qkey' = qkey
    PROVE  /\ AllHeld'
           /\ Waits' = [Waits EXCEPT ![s] = RemoveAt(Waits[s], n)]
           /\ UNCHANGED <<Keyed(readylist), Keyed(sleepq)>>
<1>1. TypeOK /\ LinksConsistent /\ AllHeld
  BY DEF ListInv, IInv, TableInv
<1>2. PICK q : q = squeue(s)
  OBVIOUS
<1>3. /\ q \in Queue /\ Waits[s] = Members(q)
      /\ readylist \in Queue \ {q} /\ sleepq \in Queue \ {q} /\ SemQueue \subseteq Queue
  BY <1>2, WaitLists, Layout
<1>4. n \in 1 .. Len(Members(q)) /\ p = Members(q)[n]
  BY <1>3
<1>5. /\ AllHeld' /\ Members(q)' = RemoveAt(Members(q), n)
      /\ \A r \in Queue \ {q} : Members(r)' = Members(r) /\ Keyed(r)' = Keyed(r)
  BY <1>1, <1>3, <1>4, TakenOff
<1>6. Members(squeue(s))' = RemoveAt(Waits[s], n)
  BY <1>2, <1>3, <1>5
<1>7. \A r \in SemQueue \ {squeue(s)} : Members(r)' = Members(r)
  BY <1>2, <1>3, <1>5
<1>8. Waits' = [Waits EXCEPT ![s] = RemoveAt(Waits[s], n)]
  BY <1>6, <1>7, WaitsChanged
<1> QED
  BY <1>3, <1>5, <1>8

(* What a semaphore's queue holds.                                         *)
LEMMA WaitTypes ==
    ASSUME TypeOK, LinksConsistent, AllHeld, NEW s \in 0 .. NSEM - 1
    PROVE  LET list == Waits[s]
               q    == squeue(s)
           IN  /\ list \in Seq(Pid) /\ Len(list) \in Nat
               /\ \A i, j \in 1 .. Len(list) : list[i] = list[j] => i = j
               /\ Range(list) = {p \in Pid : on[p] = q}
               /\ \A p \in Pid : on[p] = q => \E i \in 1 .. Len(list) : p = list[i]
               /\ ~isempty(q) => /\ Len(list) # 0 /\ list # <<>>
                                 /\ firstid(q) = list[1] /\ lastid(q) = list[Len(list)]
<1>1. PICK q : q = squeue(s)
  OBVIOUS
<1>2. q \in Queue /\ Waits[s] = Members(q)
  BY <1>1, WaitLists, Layout
<1>3. PICK list : list = Waits[s]
  OBVIOUS
<1>4. /\ list \in Seq(Pid) /\ Len(list) \in Nat
      /\ \A i, j \in 1 .. Len(list) : list[i] = list[j] => i = j
      /\ Range(list) = {p \in Pid : on[p] = q}
  BY <1>2, <1>3, KeyedTypes
<1>5. \A p \in Pid : on[p] = q => \E i \in 1 .. Len(list) : p = list[i]
  BY <1>2, <1>3, StandsAt
<1>6. ~isempty(q) => /\ Len(list) # 0
                     /\ firstid(q) = list[1] /\ lastid(q) = list[Len(list)]
  BY <1>2, <1>3, ListEnds
<1>7. Len(list) # 0 => list # <<>>
  OBVIOUS
<1> QED
  BY <1>1, <1>3, <1>4, <1>5, <1>6, <1>7

LEMMA GetitemIsAbandon ==
    ASSUME ListInv, TypeOK', NEW p \in Pid, GetitemPid(p),
           NEW s \in 0 .. NSEM - 1, on[p] = squeue(s)
    PROVE  AllHeld' /\ Lists!Abandon(p, s)
<1>1. TypeOK /\ LinksConsistent /\ AllHeld
  BY DEF ListInv, IInv, TableInv
<1>2. /\ \A x \in Node \ {p} : qnext'[x] = IF x = qprev[p] THEN qnext[p] ELSE qnext[x]
      /\ on' = [on EXCEPT ![p] = EMPTY] /\ qkey' = qkey
  <2>1. on[p] \in Queue
    BY WaitLists, Layout
  <2> QED
    BY <1>1, <2>1, UnlinkedAt DEF GetitemPid
<1>3. PICK list : list = Waits[s]
  OBVIOUS
<1>4. /\ list \in Seq(Pid) /\ \A i, j \in 1 .. Len(list) : list[i] = list[j] => i = j
      /\ p \in Range(list) /\ \E i \in 1 .. Len(list) : p = list[i]
  BY <1>1, <1>3, WaitTypes
<1>5. PICK n \in 1 .. Len(list) : p = list[n]
  BY <1>4
<1>6. /\ AllHeld' /\ Waits' = [Waits EXCEPT ![s] = RemoveAt(list, n)]
      /\ UNCHANGED <<Keyed(readylist), Keyed(sleepq)>>
  BY <1>2, <1>3, <1>5, WaitTaken
<1>7. RemoveFirst(list, p) = RemoveAt(list, n)
  BY <1>4, <1>5, RemoveFirstAt
<1>8. Waits' = [Waits EXCEPT ![s] = Lists!RemoveFirst(Waits[s], p)]
  BY <1>3, <1>6, <1>7, SameOperators
<1>9. p \in Lists!Range(Waits[s])
  BY <1>3, <1>4, SameOperators
<1> QED
  BY <1>6, <1>8, <1>9 DEF Lists!Abandon, Waits

(* getfirst() and dequeue() serve who came first, getlast() who came last. *)
LEMMA FirstServed ==
    ASSUME ListInv, TypeOK', NEW s \in 0 .. NSEM - 1, NEW q, q = squeue(s), ~isempty(q),
           NEW p, p = firstid(q),
           \A x \in Node \ {p} : qnext'[x] = IF x = qprev[p] THEN qnext[p] ELSE qnext[x],
           on' = [on EXCEPT ![p] = EMPTY],
           qkey' = qkey
    PROVE  AllHeld' /\ Lists!ServeFirst(s)
<1>1. TypeOK /\ LinksConsistent /\ AllHeld
  BY DEF ListInv, IInv, TableInv
<1>3. PICK list : list = Waits[s]
  OBVIOUS
<1>4. list \in Seq(Pid) /\ Len(list) \in Nat /\ Len(list) # 0 /\ list # <<>> /\ p = list[1]
  BY <1>1, <1>3, WaitTypes
<1>5. /\ AllHeld' /\ Waits' = [Waits EXCEPT ![s] = RemoveAt(list, 1)]
      /\ UNCHANGED <<Keyed(readylist), Keyed(sleepq)>>
  <2>1. 1 \in 1 .. Len(Waits[s]) /\ p = Waits[s][1]
    BY <1>3, <1>4
  <2>2. PICK n : n = 1
    OBVIOUS
  <2>3. n \in 1 .. Len(Waits[s]) /\ p = Waits[s][n]
    BY <2>1, <2>2
  <2>4. /\ AllHeld' /\ Waits' = [Waits EXCEPT ![s] = RemoveAt(list, n)]
        /\ UNCHANGED <<Keyed(readylist), Keyed(sleepq)>>
    BY <1>3, <2>3, WaitTaken
  <2> QED
    BY <2>2, <2>4
<1>6. RemoveAt(list, 1) = Tail(list)
  BY <1>4, TailFront
<1> QED
  BY <1>3, <1>4, <1>5, <1>6 DEF Lists!ServeFirst, Waits

LEMMA GetfirstIsServeFirst ==
    ASSUME ListInv, TypeOK', NEW s \in 0 .. NSEM - 1, Getfirst(squeue(s))
    PROVE  AllHeld' /\ Lists!ServeFirst(s)
<1>1. TypeOK /\ LinksConsistent
  BY DEF ListInv, IInv, TableInv
<1>2. PICK q : q = squeue(s)
  OBVIOUS
<1>3. q \in Queue /\ ~isempty(q) /\ Unlink(firstid(q))
      /\ on' = [on EXCEPT ![firstid(q)] = EMPTY] /\ qkey' = qkey
  BY <1>2, WaitLists, Layout DEF Getfirst
<1>4. firstid(q) \in Pid /\ on[firstid(q)] \in Queue
  BY <1>1, <1>3, FirstAndLast
<1>5. \A x \in Node \ {firstid(q)} :
         qnext'[x] = IF x = qprev[firstid(q)] THEN qnext[firstid(q)] ELSE qnext[x]
  BY <1>1, <1>3, <1>4, UnlinkedAt
<1> QED
  <2>1. PICK p : p = firstid(q)
    OBVIOUS
  <2>2. /\ \A x \in Node \ {p} : qnext'[x] = IF x = qprev[p] THEN qnext[p] ELSE qnext[x]
        /\ on' = [on EXCEPT ![p] = EMPTY] /\ qkey' = qkey
    BY <1>3, <1>5, <2>1
  <2> QED
    BY <1>2, <1>3, <2>1, <2>2, FirstServed

LEMMA DequeueIsServeFirst ==
    ASSUME ListInv, TypeOK', NEW s \in 0 .. NSEM - 1, Dequeue(squeue(s))
    PROVE  AllHeld' /\ Lists!ServeFirst(s)
<1>1. TypeOK /\ LinksConsistent
  BY DEF ListInv, IInv, TableInv
<1>2. PICK q : q = squeue(s)
  OBVIOUS
<1>3. q \in Queue /\ ~isempty(q) /\ DequeueFrom(q)
  BY <1>2, WaitLists, Layout DEF Dequeue
<1>4. /\ \A x \in Node \ {firstid(q)} :
            qnext'[x] = IF x = qprev[firstid(q)] THEN qnext[firstid(q)] ELSE qnext[x]
      /\ on' = [on EXCEPT ![firstid(q)] = EMPTY] /\ qkey' = qkey
  BY <1>1, <1>3, DequeuedAt
<1> QED
  <2>1. PICK p : p = firstid(q)
    OBVIOUS
  <2>2. /\ \A x \in Node \ {p} : qnext'[x] = IF x = qprev[p] THEN qnext[p] ELSE qnext[x]
        /\ on' = [on EXCEPT ![p] = EMPTY] /\ qkey' = qkey
    BY <1>4, <2>1
  <2> QED
    BY <1>2, <1>3, <2>1, <2>2, FirstServed

LEMMA GetlastIsServeLast ==
    ASSUME ListInv, TypeOK', NEW s \in 0 .. NSEM - 1, Getlast(squeue(s))
    PROVE  AllHeld' /\ Lists!ServeLast(s)
<1>1. TypeOK /\ LinksConsistent /\ AllHeld
  BY DEF ListInv, IInv, TableInv
<1>2. PICK q : q = squeue(s)
  OBVIOUS
<1>3. q \in Queue /\ ~isempty(q) /\ Unlink(lastid(q))
      /\ on' = [on EXCEPT ![lastid(q)] = EMPTY] /\ qkey' = qkey
  BY <1>2, WaitLists, Layout DEF Getlast
<1>4. lastid(q) \in Pid /\ on[lastid(q)] \in Queue
  BY <1>1, <1>3, FirstAndLast
<1>5. PICK p : p = lastid(q)
  OBVIOUS
<1>6. \A x \in Node \ {p} : qnext'[x] = IF x = qprev[p] THEN qnext[p] ELSE qnext[x]
  BY <1>1, <1>3, <1>4, <1>5, UnlinkedAt
<1>7. PICK list : list = Waits[s]
  OBVIOUS
<1>8. /\ list \in Seq(Pid) /\ Len(list) \in Nat /\ Len(list) # 0 /\ list # <<>>
      /\ p = list[Len(list)]
  BY <1>1, <1>2, <1>3, <1>5, <1>7, WaitTypes
<1>9. PICK n : n = Len(list)
  OBVIOUS
<1>10. /\ AllHeld' /\ Waits' = [Waits EXCEPT ![s] = RemoveAt(list, n)]
       /\ UNCHANGED <<Keyed(readylist), Keyed(sleepq)>>
  <2>1. n \in 1 .. Len(Waits[s]) /\ p = Waits[s][n]
    BY <1>7, <1>8, <1>9
  <2>2. on' = [on EXCEPT ![p] = EMPTY] /\ qkey' = qkey
    BY <1>3, <1>5
  <2> QED
    BY <1>6, <1>7, <2>1, <2>2, WaitTaken
<1>11. RemoveAt(list, Len(list)) = Front(list)
  BY <1>8, TailFront
<1>12. Waits' = [Waits EXCEPT ![s] = Lists!Front(Waits[s])]
  BY <1>7, <1>9, <1>10, <1>11, SameOperators
<1> QED
  BY <1>7, <1>8, <1>10, <1>12 DEF Lists!ServeLast, Waits

(* The first of the entries of a list that is not empty.                   *)
LEMMA FirstEntry ==
    ASSUME TypeOK, LinksConsistent, AllHeld, NEW q \in Queue, ~isempty(q)
    PROVE  LET list == Keyed(q)
           IN  /\ list \in Seq(Entries(Pid)) /\ Len(list) # 0 /\ list # <<>>
               /\ 1 \in 1 .. Len(Members(q)) /\ Members(q)[1] = firstid(q)
               /\ Head(list).pid = firstid(q) /\ Head(list).key = firstkey(q)
<1>1. PICK s : s = Members(q)
  OBVIOUS
<1>2. PICK list : list = Keyed(q)
  OBVIOUS
<1>3. /\ list \in Seq(Entries(Pid)) /\ Len(list) = Len(s) /\ Len(s) \in Nat
      /\ \A i \in 1 .. Len(s) : list[i].pid = s[i] /\ list[i].key = qkey[s[i]]
  BY <1>1, <1>2, KeyedTypes
<1>4. Len(s) # 0 /\ firstid(q) = s[1]
  BY <1>1, ListEnds
<1>5. 1 \in 1 .. Len(s) /\ list[1].pid = firstid(q) /\ list[1].key = firstkey(q)
  BY <1>3, <1>4 DEF firstkey
<1>6. list # <<>> /\ Head(list) = list[1]
  BY <1>3, <1>4
<1> QED
  BY <1>1, <1>2, <1>3, <1>4, <1>5, <1>6

(* dequeue() takes the head off the ready list and off the sleep list.     *)
LEMMA HeadTaken ==
    ASSUME ListInv, TypeOK', NEW q \in {readylist, sleepq}, ~isempty(q), DequeueFrom(q)
    PROVE  /\ AllHeld' /\ Keyed(q)' = Tail(Keyed(q)) /\ Waits' = Waits
           /\ \A r \in {readylist, sleepq} : r # q => Keyed(r)' = Keyed(r)
<1>1. TypeOK /\ LinksConsistent /\ AllHeld
  BY DEF ListInv, IInv, TableInv
<1>2. /\ q \in Queue /\ readylist \in Queue /\ sleepq \in Queue
      /\ SemQueue \subseteq Queue \ {q}
  BY Layout
<1>3. PICK p : p = firstid(q)
  OBVIOUS
<1>4. /\ \A x \in Node \ {p} : qnext'[x] = IF x = qprev[p] THEN qnext[p] ELSE qnext[x]
      /\ on' = [on EXCEPT ![p] = EMPTY] /\ qkey' = qkey
  BY <1>1, <1>2, <1>3, DequeuedAt
<1>5. PICK list : list = Keyed(q)
  OBVIOUS
<1>6. /\ list \in Seq(Entries(Pid)) /\ Len(list) # 0
      /\ 1 \in 1 .. Len(Members(q)) /\ Members(q)[1] = p
  BY <1>1, <1>2, <1>3, <1>5, FirstEntry
<1>7. /\ AllHeld' /\ Keyed(q)' = RemoveAt(Keyed(q), 1)
      /\ \A r \in Queue \ {q} : Members(r)' = Members(r) /\ Keyed(r)' = Keyed(r)
  BY <1>1, <1>2, <1>4, <1>6, TakenOff
<1>8. RemoveAt(list, 1) = Tail(list)
  BY <1>6, TailFront
<1>9. Waits' = Waits
  BY <1>2, <1>7, WaitsKept
<1> QED
  BY <1>2, <1>5, <1>7, <1>8, <1>9

LEMMA DequeueIsDispatch ==
    ASSUME ListInv, TypeOK', Dequeue(readylist)
    PROVE  AllHeld' /\ Lists!Dispatch
<1>1. TypeOK /\ LinksConsistent /\ AllHeld /\ readylist \in Queue /\ sleepq # readylist
  BY Layout DEF ListInv, IInv, TableInv
<1>2. ~isempty(readylist) /\ DequeueFrom(readylist)
  BY DEF Dequeue
<1>3. Keyed(readylist) # <<>>
  BY <1>1, <1>2, FirstEntry
<1>4. /\ AllHeld' /\ Keyed(readylist)' = Tail(Keyed(readylist)) /\ Waits' = Waits
      /\ Keyed(sleepq)' = Keyed(sleepq)
  BY <1>1, <1>2, HeadTaken
<1> QED
  BY <1>3, <1>4 DEF Lists!Dispatch, Waits

LEMMA WakeupNextIsWake ==
    ASSUME ListInv, TypeOK', WakeupNext
    PROVE  AllHeld' /\ Lists!Wake
<1>1. TypeOK /\ LinksConsistent /\ AllHeld /\ sleepq \in Queue /\ sleepq # readylist
  BY Layout DEF ListInv, IInv, TableInv
<1>2. ~isempty(sleepq) /\ DequeueFrom(sleepq) /\ firstkey(sleepq) <= 0
  BY DEF WakeupNext, Due
<1>3. Keyed(sleepq) # <<>> /\ Head(Keyed(sleepq)).key <= 0
  BY <1>1, <1>2, FirstEntry
<1>4. /\ AllHeld' /\ Keyed(sleepq)' = Tail(Keyed(sleepq)) /\ Waits' = Waits
      /\ Keyed(readylist)' = Keyed(readylist)
  BY <1>1, <1>2, HeadTaken
<1> QED
  BY <1>3, <1>4 DEF Lists!Wake, Waits

(* clkhandler() counts down the first entry of the sleep list.             *)
LEMMA ClockTickIsElapse ==
    ASSUME ListInv, TypeOK', ClockTick
    PROVE  AllHeld' /\ Lists!Elapse
<1>1. /\ TypeOK /\ LinksConsistent /\ AllHeld /\ NoneDue
      /\ sleepq \in Queue /\ readylist \in Queue /\ sleepq # readylist
      /\ sleepq \notin SemQueue /\ SemQueue \subseteq Queue
  BY Layout DEF ListInv, IInv, TableInv
<1>2. PICK f : f = firstid(sleepq)
  OBVIOUS
<1>3. /\ ~isempty(sleepq) /\ UNCHANGED <<qnext, on>> /\ qkey' = [qkey EXCEPT ![f] = @ - 1]
      /\ pc = "idle"
  BY <1>2 DEF ClockTick, links
<1>4. f \in Pid /\ on[f] = sleepq /\ f \in Node /\ qkey[f] > 0
  BY <1>1, <1>2, <1>3, FirstAndLast, Layout DEF NoneDue
<1>5. /\ AllHeld' /\ \A r \in Queue : Members(r)' = Members(r)
  BY <1>1, <1>3, MembersStay
<1>6. \A x \in Pid : qkey'[x] = IF x = f THEN qkey[x] - 1 ELSE qkey[x]
  BY <1>1, <1>3, <1>4, Layout DEF TypeOK
<1>7. Keyed(readylist)' = Keyed(readylist)
  BY <1>1, <1>4, <1>5, <1>6, KeyedStays
<1>8. Waits' = Waits
  BY <1>1, <1>5, WaitsKept
<1>9. PICK list : list = Keyed(sleepq)
  OBVIOUS
<1>10. PICK s : s = Members(sleepq)
  OBVIOUS
<1>11. /\ list \in Seq(Entries(Pid)) /\ Len(list) = Len(s) /\ Len(s) \in Nat
       /\ \A i \in 1 .. Len(s) : /\ s[i] \in Pid /\ list[i].pid = s[i]
                                 /\ list[i].key = qkey[s[i]] /\ list[i].key \in Int
       /\ \A i, j \in 1 .. Len(s) : s[i] = s[j] => i = j
  <2>1. /\ list \in Seq(Entries(Pid)) /\ Len(list) = Len(s) /\ Len(s) \in Nat
        /\ \A i \in 1 .. Len(s) : /\ s[i] \in Pid /\ list[i].pid = s[i]
                                  /\ list[i].key = qkey[s[i]]
        /\ \A i, j \in 1 .. Len(s) : s[i] = s[j] => i = j
    BY <1>1, <1>9, <1>10, KeyedTypes
  <2>2. \A i \in 1 .. Len(list) : list[i].key \in Int
    BY <2>1, ListTypes
  <2> QED
    BY <2>1, <2>2
<1>12. /\ list # <<>> /\ 1 \in 1 .. Len(s) /\ s[1] = f
       /\ Head(list).key = qkey[f] /\ list[1].key = qkey[f]
  <2>1. list # <<>> /\ 1 \in 1 .. Len(s) /\ s[1] = f /\ Head(list).key = qkey[f]
    BY <1>1, <1>2, <1>3, <1>9, <1>10, FirstEntry DEF firstkey
  <2> QED
    BY <2>1, <1>11
<1>13. PICK new : new = [list EXCEPT ![1].key = list[1].key - 1]
  OBVIOUS
<1>14. /\ new \in Seq(Entries(Pid)) /\ Len(new) = Len(list)
       /\ \A j \in 1 .. Len(list) : new[j].pid = list[j].pid
       /\ \A j \in 1 .. Len(list) : j # 1 => new[j] = list[j]
       /\ new[1].key = list[1].key - 1
  <2>1. 1 \in 1 .. Len(list) /\ list[1].key - 1 \in Int
    BY <1>11, <1>12
  <2> QED
    BY <2>1, <1>11, <1>13, ChangedKeys
<1>15. \A i \in 1 .. Len(new) : new[i].pid = s[i] /\ new[i].key = qkey'[s[i]]
  <2> SUFFICES ASSUME NEW i \in 1 .. Len(s)
               PROVE  new[i].pid = s[i] /\ new[i].key = qkey'[s[i]]
    BY <1>11, <1>14
  <2>1. CASE i = 1
    BY <2>1, <1>6, <1>11, <1>12, <1>14
  <2>2. CASE i # 1
    <3>1. s[i] # f /\ s[i] \in Pid /\ new[i] = list[i]
      BY <2>2, <1>11, <1>12, <1>14
    <3> QED
      BY <3>1, <1>6, <1>11
  <2> QED
    BY <2>1, <2>2
<1>16. Members(sleepq)' = s
  BY <1>1, <1>5, <1>10
<1>17. Keyed(sleepq)' = new
  BY <1>1, <1>5, <1>11, <1>14, <1>15, <1>16, KeyedThen
<1>18. Keyed(sleepq)' = [Keyed(sleepq) EXCEPT ![1].key = @ - 1]
  BY <1>9, <1>13, <1>17
<1> QED
  BY <1>4, <1>5, <1>7, <1>8, <1>9, <1>12, <1>18 DEF Lists!Elapse, Waits

(* unsleep() credits the process behind with the delay of the one it takes *)
(* off.                                                                    *)
LEMMA UnsleepIsCancel ==
    ASSUME ListInv, TypeOK', NEW p \in Pid, UnsleepPid(p)
    PROVE  AllHeld' /\ Lists!Cancel(p)
<1>1. /\ TypeOK /\ LinksConsistent /\ AllHeld
      /\ sleepq \in Queue /\ readylist \in Queue /\ sleepq # readylist
      /\ readylist \in Queue \ {sleepq} /\ SemQueue \subseteq Queue \ {sleepq}
  BY Layout DEF ListInv, IInv, TableInv
<1>2. /\ on[p] = sleepq /\ Unlink(p) /\ on' = [on EXCEPT ![p] = EMPTY]
      /\ qkey' = IF qnext[p] < NPROC
                 THEN [qkey EXCEPT ![qnext[p]] = @ + qkey[p]] ELSE qkey
  BY DEF UnsleepPid
<1>3. \A x \in Node \ {p} : qnext'[x] = IF x = qprev[p] THEN qnext[p] ELSE qnext[x]
  BY <1>1, <1>2, UnlinkedAt
<1>4. PICK s : s = Members(sleepq)
  OBVIOUS
<1>5. PICK list : list = Keyed(sleepq)
  OBVIOUS
<1>6. /\ Holds(sleepq, s) /\ s \in Seq(Pid) /\ list \in Seq(Entries(Pid)) /\ Once(list)
      /\ Len(list) = Len(s) /\ Len(s) \in Nat
      /\ \A i \in 1 .. Len(s) : /\ s[i] \in Pid /\ on[s[i]] = sleepq
                                /\ list[i].pid = s[i] /\ list[i].key = qkey[s[i]]
      /\ \A i, j \in 1 .. Len(s) : s[i] = s[j] => i = j
      /\ PidsOf(list) = {x \in Pid : on[x] = sleepq}
  BY <1>1, <1>4, <1>5, KeyedTypes
<1>7. PICK n \in 1 .. Len(s) : p = s[n]
  BY <1>1, <1>2, <1>4, StandsAt
<1>8. /\ \A m \in 1 .. Len(s) : Stop(sleepq, s, m) = s[m]
      /\ Stop(sleepq, s, Len(s) + 1) = queuetail(sleepq)
      /\ queuetail(sleepq) \in Node /\ queuetail(sleepq) \notin Pid
  <2>1. sleepq \in Queue /\ s \in Seq(Pid)
    BY <1>1, <1>6
  <2> QED
    BY <2>1, Stops
<1>9. /\ AllHeld' /\ Members(sleepq)' = RemoveAt(s, n)
      /\ \A r \in Queue \ {sleepq} : Members(r)' = Members(r)
  BY <1>1, <1>2, <1>3, <1>4, <1>7, MembersOut
<1>10. qnext[p] = Stop(sleepq, s, n + 1)
  <2>1. n \in 0 .. Len(s) /\ Stop(sleepq, s, n) = p
    BY <1>6, <1>7, <1>8
  <2> QED
    BY <2>1, <1>6 DEF Holds
<1>11. \A x \in Pid : qkey'[x] = IF n < Len(s) /\ x = s[n + 1] THEN qkey[x] + qkey[p] ELSE qkey[x]
  <2>1. CASE n < Len(s)
    <3>1. n + 1 \in 1 .. Len(s)
      BY <2>1, <1>6
    <3>2. qnext[p] = s[n + 1] /\ s[n + 1] \in Pid
      BY <3>1, <1>8, <1>6, <1>10
    <3>3. qnext[p] < NPROC /\ qnext[p] \in Node
      BY <3>2, Layout
    <3>4. qkey' = [qkey EXCEPT ![qnext[p]] = @ + qkey[p]]
      BY <1>2, <3>3
    <3> QED
      BY <2>1, <3>2, <3>3, <3>4, <1>1, Layout DEF TypeOK
  <2>2. CASE ~(n < Len(s))
    <3>1. n = Len(s)
      BY <2>2, <1>6
    <3>2. qnext[p] \in Node /\ qnext[p] \notin Pid
      BY <3>1, <1>8, <1>6, <1>10
    <3>3. ~(qnext[p] < NPROC)
      BY <3>2, Layout
    <3> QED
      BY <2>2, <3>3, <1>2
  <2> QED
    BY <2>1, <2>2
<1>12. \A x \in Pid : on[x] # sleepq => qkey'[x] = qkey[x]
  <2>1. n < Len(s) => n + 1 \in 1 .. Len(s) /\ on[s[n + 1]] = sleepq
    BY <1>6
  <2> QED
    BY <2>1, <1>11
<1>13. Keyed(readylist)' = Keyed(readylist)
  BY <1>1, <1>9, <1>12, KeyedStays
<1>14. Waits' = Waits
  BY <1>1, <1>9, WaitsKept
<1>15. PICK new : new = Unsleep(list, p)
  OBVIOUS
<1>16. PICK rest : rest = RemoveAt(s, n)
  OBVIOUS
<1>17. /\ new \in Seq(Entries(Pid)) /\ Len(new) = Len(list) - 1
       /\ \A i \in 1 .. n - 1 : new[i] = list[i]
       /\ \A i \in n .. Len(list) - 1 :
             /\ new[i].pid = list[i + 1].pid
             /\ new[i].key = IF i = n THEN list[i + 1].key + list[i].key ELSE list[i + 1].key
  <2>1. n \in 1 .. Len(list) /\ new = Unsleep(list, list[n].pid)
    BY <1>6, <1>7, <1>15
  <2>2. list \in Seq(Entries(Pid)) /\ Once(list)
    BY <1>6
  <2> DEFINE P == Pid
  <2> HIDE DEF P
  <2>3. list \in Seq(Entries(P))
    BY <2>2 DEF P
  <2>4. /\ new \in Seq(Entries(P)) /\ Len(new) = Len(list) - 1
        /\ \A i \in 1 .. n - 1 : new[i] = list[i]
        /\ \A i \in n .. Len(list) - 1 :
              /\ new[i].pid = list[i + 1].pid
              /\ new[i].key = IF i = n THEN list[i + 1].key + list[i].key
                              ELSE list[i + 1].key
    <3>1. LET x == Unsleep(list, list[n].pid)
          IN  /\ x \in Seq(Entries(P)) /\ Len(x) = Len(list) - 1
              /\ \A i \in 1 .. n - 1 : x[i] = list[i]
              /\ \A i \in n .. Len(list) - 1 :
                    /\ x[i].pid = list[i + 1].pid
                    /\ x[i].key = IF i = n THEN list[i + 1].key + list[i].key
                                  ELSE list[i + 1].key
      BY <2>1, <2>2, <2>3, UnsleepEntries
    <3> QED
      BY <2>1, <3>1
  <2> QED
    BY <2>4 DEF P
<1>18. /\ Len(rest) = Len(s) - 1
       /\ \A i \in 1 .. Len(s) - 1 : rest[i] = IF i < n THEN s[i] ELSE s[i + 1]
  <2>1. s \in Seq(Pid) /\ n \in 1 .. Len(s)
    BY <1>6, <1>7
  <2> QED
    BY <2>1, <1>16, RemoveAtProps
<1>19. \A i \in 1 .. Len(new) : new[i].pid = rest[i] /\ new[i].key = qkey'[rest[i]]
  <2> SUFFICES ASSUME NEW i \in 1 .. Len(s) - 1
               PROVE  new[i].pid = rest[i] /\ new[i].key = qkey'[rest[i]]
    BY <1>6, <1>17
  <2>1. i \in 1 .. Len(s) /\ i + 1 \in 1 .. Len(s)
    BY <1>6
  <2>2. CASE i < n
    <3>1. rest[i] = s[i] /\ new[i] = list[i]
      BY <2>2, <1>17, <1>18
    <3>2. ~(n < Len(s) /\ s[i] = s[n + 1])
      BY <2>1, <2>2, <1>6
    <3>3. qkey'[s[i]] = qkey[s[i]]
      BY <2>1, <3>2, <1>6, <1>11
    <3> QED
      BY <3>1, <3>3, <2>1, <1>6
  <2>3. CASE i = n
    <3>1. rest[i] = s[n + 1] /\ new[i].pid = s[n + 1] /\ new[i].key = list[n + 1].key + list[n].key
      BY <2>1, <2>3, <1>6, <1>17, <1>18
    <3>2. n < Len(s)
      BY <2>3, <1>6
    <3>3. qkey'[s[n + 1]] = qkey[s[n + 1]] + qkey[p]
      BY <2>1, <2>3, <3>2, <1>6, <1>11
    <3> QED
      BY <3>1, <3>3, <2>1, <2>3, <1>6, <1>7
  <2>4. CASE i > n
    <3>1. rest[i] = s[i + 1] /\ new[i].pid = s[i + 1] /\ new[i].key = list[i + 1].key
      BY <2>1, <2>4, <1>6, <1>17, <1>18
    <3>2. ~(n < Len(s) /\ s[i + 1] = s[n + 1])
      BY <2>1, <2>4, <1>6
    <3>3. qkey'[s[i + 1]] = qkey[s[i + 1]]
      BY <2>1, <3>2, <1>6, <1>11
    <3> QED
      BY <3>1, <3>3, <2>1, <1>6
  <2> QED
    BY <2>2, <2>3, <2>4
<1>20. Members(sleepq)' = rest /\ Len(new) = Len(rest)
  BY <1>6, <1>9, <1>16, <1>17, <1>18
<1>21. Keyed(sleepq)' = new
  BY <1>1, <1>9, <1>17, <1>19, <1>20, KeyedThen
<1>22. Keyed(sleepq)' = Lists!Unsleep(Keyed(sleepq), p)
  BY <1>5, <1>15, <1>21, SameUnsleep
<1>23. p \in Lists!PidsOf(Keyed(sleepq))
  BY <1>2, <1>5, <1>6, SameOperators
<1> QED
  BY <1>9, <1>13, <1>14, <1>22, <1>23 DEF Lists!Cancel, Waits

(* A step that only moves a scan, or nothing at all.                       *)
LEMMA ListsStay ==
    ASSUME TypeOK, AllHeld, UNCHANGED <<qnext, qkey, on>>
    PROVE  /\ AllHeld' /\ UNCHANGED Lists!vars
           /\ \A q \in Queue : Members(q)' = Members(q) /\ Keyed(q)' = Keyed(q)
<1>1. AllHeld' /\ \A q \in Queue : Members(q)' = Members(q)
  BY MembersStay
<1>2. \A q \in Queue : Keyed(q)' = Keyed(q)
  BY <1>1, KeyedStays
<1>3. Waits' = Waits
  BY <1>1, Layout, WaitsKept
<1>4. Keyed(readylist)' = Keyed(readylist) /\ Keyed(sleepq)' = Keyed(sleepq)
  BY <1>2, Layout
<1> QED
  BY <1>1, <1>2, <1>3, <1>4 DEF Lists!vars, Waits

(* A process is linked in behind the n-th stop of list q.                  *)
LEMMA PutOn ==
    ASSUME TypeOK, LinksConsistent, AllHeld,
           NEW p \in Pid, on[p] = EMPTY,
           NEW q \in Queue, NEW n \in 0 .. Len(Members(q)),
           NEW b, b = Stop(q, Members(q), n),
           LinkBehind(p, b),
           on' = [on EXCEPT ![p] = q]
    PROVE  /\ AllHeld'
           /\ Members(q)' = InsertAt(Members(q), n + 1, p)
           /\ \A r \in Queue \ {q} : Members(r)' = Members(r)
<1>1. PICK s : s = Members(q)
  OBVIOUS
<1>2. Holds(q, s) /\ n \in 0 .. Len(s) /\ b = Stop(q, s, n)
  BY <1>1 DEF AllHeld
<1>3. b \in Node /\ Owner[b] = q /\ b # queuetail(q)
  <2>1. /\ Len(s) \in Nat
        /\ \A i \in 0 .. Len(s) + 1 : Stop(q, s, i) \in Node /\ Owner[Stop(q, s, i)] = q
        /\ \A i \in 0 .. Len(s) : Stop(q, s, i) # queuetail(q)
    BY <1>2, StopEntries
  <2>2. n \in 0 .. Len(s) + 1
    BY <1>2, <2>1
  <2> QED
    BY <1>2, <2>1, <2>2
<1>4. PICK a : a = qnext[b]
  OBVIOUS
<1>5. p \in Node /\ Owner[p] = EMPTY /\ EMPTY \notin Queue
  BY Layout, OwnerOf
<1>6. a \in Node /\ Owner[a] = q /\ qprev[a] = b /\ p # a /\ p # b
  BY <1>3, <1>4, <1>5 DEF LinksConsistent, ForwardLinks
<1>7. /\ qnext' = [qnext EXCEPT ![p] = a, ![b] = p]
      /\ qprev' = [qprev EXCEPT ![p] = b, ![a] = p]
      /\ qnext \in [Node -> Node \cup {EMPTY}] /\ qprev \in [Node -> Node \cup {EMPTY}]
  BY <1>4 DEF LinkBehind, TypeOK
<1>8. \A x \in Node :
         /\ qnext'[x] = IF x = b THEN p ELSE IF x = p THEN a ELSE qnext[x]
         /\ qprev'[x] = IF x = a THEN p ELSE IF x = p THEN b ELSE qprev[x]
  BY <1>3, <1>5, <1>6, <1>7
<1>9. LinkedBehind(p, Stop(q, Members(q), n))
  BY <1>4, <1>8 DEF LinkedBehind
<1> QED
  BY <1>9, MembersIn

(* enqueue() links in behind the last process of a semaphore's queue.      *)
LEMMA EnqueueIsJoin ==
    ASSUME ListInv, TypeOK', NEW p \in Pid, NEW s \in 0 .. NSEM - 1, Enqueue(p, squeue(s))
    PROVE  AllHeld' /\ Lists!Join(p, s)
<1>1. TypeOK /\ LinksConsistent /\ AllHeld
  BY DEF ListInv, IInv, TableInv
<1>2. PICK q : q = squeue(s)
  OBVIOUS
<1>3. /\ q \in Queue /\ Waits[s] = Members(q)
      /\ readylist \in Queue \ {q} /\ sleepq \in Queue \ {q} /\ SemQueue \subseteq Queue
  BY <1>2, WaitLists, Layout
<1>4. PICK list : list = Members(q)
  OBVIOUS
<1>5. PICK last : last = lastid(q)
  OBVIOUS
<1>6. /\ on[p] = EMPTY /\ on' = [on EXCEPT ![p] = q] /\ qkey' = qkey
      /\ qnext' = [qnext EXCEPT ![p] = queuetail(q), ![last] = p]
      /\ qprev' = [qprev EXCEPT ![p] = last, ![queuetail(q)] = p]
  BY <1>2, <1>5 DEF Enqueue, lastid
<1>7. /\ list \in Seq(Pid) /\ Len(list) \in Nat /\ last = Stop(q, list, Len(list))
      /\ Holds(q, list)
  BY <1>1, <1>3, <1>4, <1>5, ListEnds DEF AllHeld
<1>8. qnext[last] = queuetail(q)
  <2>1. qnext[Stop(q, list, Len(list))] = Stop(q, list, Len(list) + 1)
    BY <1>7 DEF Holds
  <2>2. Stop(q, list, Len(list) + 1) = queuetail(q)
    BY <1>7 DEF Stop
  <2> QED
    BY <1>7, <2>1, <2>2
<1>9. LinkBehind(p, last)
  BY <1>6, <1>8 DEF LinkBehind
<1>10. PICK n : n = Len(list)
  OBVIOUS
<1>11. /\ AllHeld' /\ Members(q)' = InsertAt(Members(q), n + 1, p)
       /\ \A r \in Queue \ {q} : Members(r)' = Members(r)
  <2>1. n \in 0 .. Len(Members(q)) /\ last = Stop(q, Members(q), n)
    BY <1>4, <1>7, <1>10
  <2> QED
    BY <2>1, <1>1, <1>3, <1>6, <1>9, PutOn
<1>12. InsertAt(list, Len(list) + 1, p) = Append(list, p)
  BY <1>7, AppendAt
<1>13. Members(squeue(s))' = Append(list, p)
  BY <1>2, <1>4, <1>10, <1>11, <1>12
<1>14. \A r \in SemQueue \ {squeue(s)} : Members(r)' = Members(r)
  BY <1>2, <1>3, <1>11
<1>15. Waits' = [Waits EXCEPT ![s] = Append(list, p)]
  BY <1>13, <1>14, WaitsChanged
<1>16. Keyed(readylist)' = Keyed(readylist) /\ Keyed(sleepq)' = Keyed(sleepq)
  <2>1. \A r \in Queue \ {q} : Keyed(r)' = Keyed(r)
    BY <1>1, <1>6, <1>11, KeyedStays
  <2> QED
    BY <1>3, <2>1
<1>17. ~Lists!OnSomeList(p)
  BY <1>1, <1>6, OnNone
<1> QED
  BY <1>3, <1>4, <1>11, <1>15, <1>16, <1>17 DEF Lists!Join, Waits

(* The keys before a stop of the ready list are no smaller than its own.   *)
LEMMA ReadyKeys ==
    ASSUME TypeOK, LinksConsistent, ReadySorted, AllHeld,
           NEW n \in 0 .. Len(Members(readylist)), NEW k \in Int,
           qkey[Stop(readylist, Members(readylist), n)] >= k
    PROVE  \A j \in 1 .. n : qkey[Members(readylist)[j]] >= k
<1>1. PICK q : q = readylist
  OBVIOUS
<1>2. PICK s : s = Members(q)
  OBVIOUS
<1>3. q \in Queue /\ Holds(q, s) /\ n \in 0 .. Len(s) /\ qkey[Stop(q, s, n)] >= k
  BY <1>1, <1>2, Layout DEF AllHeld
<1>4. /\ Len(s) \in Nat /\ s \in Seq(Pid)
      /\ \A i \in 0 .. Len(s) + 1 : Stop(q, s, i) \in Node /\ Owner[Stop(q, s, i)] = q
      /\ \A i \in 0 .. Len(s) : Stop(q, s, i) # queuetail(q)
  BY <1>3, StopEntries
<1>5. \A i \in 0 .. Len(s) : qkey[Stop(q, s, i)] >= qkey[Stop(q, s, i + 1)]
  <2> SUFFICES ASSUME NEW i \in 0 .. Len(s)
               PROVE  qkey[Stop(q, s, i)] >= qkey[Stop(q, s, i + 1)]
    OBVIOUS
  <2>1. PICK x : x = Stop(q, s, i)
    OBVIOUS
  <2>2. x \in Node /\ Owner[x] = q /\ x # queuetail(q)
    <3>1. i \in 0 .. Len(s) + 1
      BY <1>4
    <3> QED
      BY <2>1, <3>1, <1>4
  <2>3. qnext[x] = Stop(q, s, i + 1)
    BY <2>1, <1>3 DEF Holds
  <2> QED
    BY <2>1, <2>2, <2>3, <1>1 DEF ReadySorted
<1>6. \A j \in 0 .. n : qkey[Stop(q, s, j)] >= k
  <2> DEFINE T == {d \in Nat : d <= n /\ ~(qkey[Stop(q, s, n - d)] >= k)}
  <2>1. T = {}
    <3> SUFFICES ASSUME T # {} PROVE FALSE
      OBVIOUS
    <3>1. T \subseteq Nat
      OBVIOUS
    <3> HIDE DEF T
    <3>2. PICK m \in T : \A x \in T : m <= x
      BY <3>1, Least
    <3>3. m \in Nat /\ m <= n /\ ~(qkey[Stop(q, s, n - m)] >= k)
      BY <3>2 DEF T
    <3>4. m # 0
      BY <3>3, <1>3
    <3>5. m - 1 \in Nat /\ m - 1 <= n /\ ~(m <= m - 1)
      BY <3>3, <3>4, <1>3
    <3>6. m - 1 \notin T
      BY <3>2, <3>5
    <3>7. qkey[Stop(q, s, n - (m - 1))] >= k
      BY <3>5, <3>6 DEF T
    <3>8. PICK i : i = n - m
      OBVIOUS
    <3>9. i \in 0 .. Len(s) /\ n - (m - 1) = i + 1
      BY <3>3, <3>8, <1>3
    <3>10. qkey[Stop(q, s, i)] >= qkey[Stop(q, s, i + 1)]
      BY <3>9, <1>5
    <3>11. qkey[Stop(q, s, i)] \in Int /\ qkey[Stop(q, s, i + 1)] \in Int
      <4>1. i \in 0 .. Len(s) + 1 /\ i + 1 \in 0 .. Len(s) + 1
        BY <3>9, <1>4
      <4> QED
        BY <4>1, <1>4 DEF TypeOK
    <3> QED
      BY <3>3, <3>7, <3>8, <3>9, <3>10, <3>11
  <2> QED
    <3> SUFFICES ASSUME NEW j \in 0 .. n PROVE qkey[Stop(q, s, j)] >= k
      OBVIOUS
    <3>1. n - j \in Nat /\ n - j <= n /\ n - (n - j) = j
      BY <1>3
    <3> QED
      BY <2>1, <3>1
<1>7. \A j \in 1 .. n : Stop(q, s, j) = s[j]
  BY <1>3, <1>4 DEF Stop
<1> QED
  BY <1>1, <1>2, <1>3, <1>6, <1>7

(* A list of entries and the list of its processes grow alike.             *)
LEMMA EntryPlaced ==
    ASSUME NEW list \in Seq(Entries(Pid)), NEW s \in Seq(Pid), Len(list) = Len(s),
           NEW at \in 1 .. Len(s) + 1, NEW p \in Pid, NEW k \in Int
    PROVE  LET new  == InsertAt(list, at, Entry(p, k))
               more == InsertAt(s, at, p)
           IN  /\ new \in Seq(Entries(Pid)) /\ Len(new) = Len(more) /\ Len(more) = Len(s) + 1
               /\ more[at] = p /\ new[at].pid = p /\ new[at].key = k
               /\ \A i \in 1 .. at - 1 : more[i] = s[i] /\ new[i] = list[i]
               /\ \A i \in at .. Len(s) : more[i + 1] = s[i] /\ new[i + 1] = list[i]
<1> DEFINE E == Entries(Pid)
           e == Entry(p, k)
<1>1. PICK new : new = InsertAt(list, at, e)
  OBVIOUS
<1>2. PICK more : more = InsertAt(s, at, p)
  OBVIOUS
<1>3. Len(s) \in Nat /\ at \in Nat /\ 1 <= at /\ at <= Len(s) + 1
  BY LenProperties
<1>4. e \in E /\ e.pid = p /\ e.key = k
  BY DEF Entry, Entries
<1>5. /\ Len(more) = Len(s) + 1
      /\ \A i \in 1 .. Len(s) + 1 :
            more[i] = IF i < at THEN s[i] ELSE IF i = at THEN p ELSE s[i - 1]
  <2>1. Placed(s, at, p, more)
    BY <1>2, InsertAtPlaces
  <2> QED
    BY <2>1 DEF Placed
<1>6. /\ new \in Seq(E) /\ Len(new) = Len(list) + 1
      /\ \A i \in 1 .. Len(list) + 1 :
            new[i] = IF i < at THEN list[i] ELSE IF i = at THEN e ELSE list[i - 1]
  <2>1. list \in Seq(E) /\ at \in 1 .. Len(list) + 1
    OBVIOUS
  <2>2. e \in E
    BY <1>4
  <2> HIDE DEF E, e
  <2>3. new \in Seq(E) /\ Placed(list, at, e, new)
    BY <1>1, <2>1, <2>2, InsertAtPlaces
  <2> QED
    BY <2>3 DEF Placed
<1> HIDE DEF e
<1>7. more[at] = p /\ new[at] = e
  BY <1>3, <1>5, <1>6
<1>8. \A i \in 1 .. at - 1 : more[i] = s[i] /\ new[i] = list[i]
  BY <1>3, <1>5, <1>6
<1>9. ASSUME NEW i \in at .. Len(s)
      PROVE  more[i + 1] = s[i] /\ new[i + 1] = list[i]
  <2>1. i + 1 \in 1 .. Len(s) + 1 /\ ~(i + 1 < at) /\ i + 1 # at /\ i + 1 - 1 = i
    BY <1>3
  <2> QED
    BY <2>1, <1>5, <1>6
<1> QED
  BY <1>1, <1>2, <1>3, <1>4, <1>5, <1>6, <1>7, <1>8, <1>9 DEF e

(* insert() links in where the sorted list wants the process.              *)
LEMMA InsertLinkIsMakeReady ==
    ASSUME ListInv, TypeOK', InsertLink
    PROVE  AllHeld' /\ Lists!MakeReady(arg, key)
<1>1. /\ TypeOK /\ LinksConsistent /\ ReadySorted /\ AllHeld
      /\ readylist \in Queue /\ sleepq \in Queue \ {readylist}
      /\ SemQueue \subseteq Queue \ {readylist} /\ EMPTY \notin Queue
  BY Layout DEF ListInv, IInv, TableInv
<1>2. PICK p : p = arg
  OBVIOUS
<1>3. PICK b : b = qprev[curr]
  OBVIOUS
<1>4. /\ p \in Pid /\ p \in Node /\ on[p] = EMPTY
      /\ curr \in Node /\ Owner[curr] = readylist /\ curr \notin Queue
      /\ key \in Prio /\ key \in Int /\ qkey[curr] < key /\ qkey[b] >= key
  BY <1>2, <1>3, Layout DEF InsertLink, ListInv, IInv, TableInv, InsertPosition, TypeOK
<1>5. /\ qnext' = [qnext EXCEPT ![p] = curr, ![b] = p]
      /\ qprev' = [qprev EXCEPT ![p] = b, ![curr] = p]
      /\ on' = [on EXCEPT ![p] = readylist] /\ qkey' = [qkey EXCEPT ![p] = key]
  BY <1>2, <1>3 DEF InsertLink, LinkBetween
<1>6. PICK s : s = Members(readylist)
  OBVIOUS
<1>7. PICK list : list = Keyed(readylist)
  OBVIOUS
<1>8. /\ Holds(readylist, s) /\ s \in Seq(Pid) /\ list \in Seq(Entries(Pid))
      /\ Len(list) = Len(s) /\ Len(s) \in Nat
      /\ \A i \in 1 .. Len(s) : /\ s[i] \in Pid /\ on[s[i]] = readylist
                                /\ list[i].pid = s[i] /\ list[i].key = qkey[s[i]]
  BY <1>1, <1>6, <1>7, KeyedTypes
<1>9. PICK n \in 0 .. Len(s) : curr = Stop(readylist, s, n + 1) /\ b = Stop(readylist, s, n)
  <2>1. PICK m \in 0 .. Len(s) + 1 : curr = Stop(readylist, s, m)
    BY <1>1, <1>4, <1>8, EntryStops
  <2>2. m # 0
    BY <2>1, <1>1, <1>4 DEF Stop
  <2>3. PICK n \in 0 .. Len(s) : n + 1 = m
    <3>1. m - 1 \in 0 .. Len(s) /\ m - 1 + 1 = m
      BY <2>2, <1>8
    <3> QED
      BY <3>1
  <2>4. qprev[Stop(readylist, s, n + 1)] = Stop(readylist, s, n)
    BY <1>1, <1>8, StopsBack
  <2> QED
    BY <2>1, <2>3, <2>4, <1>3
<1>10. qnext[b] = curr
  BY <1>8, <1>9 DEF Holds
<1>11. LinkBehind(p, b)
  BY <1>5, <1>10 DEF LinkBehind
<1>12. /\ AllHeld' /\ Members(readylist)' = InsertAt(s, n + 1, p)
       /\ \A r \in Queue \ {readylist} : Members(r)' = Members(r)
  BY <1>1, <1>4, <1>5, <1>6, <1>9, <1>11, PutOn
<1>13. \A x \in Pid : qkey'[x] = IF x = p THEN key ELSE qkey[x]
  BY <1>1, <1>4, <1>5, Layout DEF TypeOK
<1>14. \A r \in Queue \ {readylist} : Keyed(r)' = Keyed(r)
  <2>1. \A r \in Queue : \A x \in Pid : on[x] = r => qkey'[x] = qkey[x]
    BY <1>1, <1>4, <1>13
  <2> QED
    BY <2>1, <1>1, <1>12, KeyedStays
<1>15. Keyed(sleepq)' = Keyed(sleepq) /\ Waits' = Waits
  BY <1>1, <1>12, <1>14, WaitsKept
<1>16. Insert(list, p, key) = InsertAt(list, n + 1, Entry(p, key))
  <2>1. \A j \in 1 .. n : list[j].key >= key
    <3>1. \A j \in 1 .. n : qkey[s[j]] >= key
      BY <1>1, <1>4, <1>6, <1>9, ReadyKeys
    <3> QED
      BY <3>1, <1>8, <1>9
  <2>2. n + 1 <= Len(list) => list[n + 1].key < key
    <3> SUFFICES ASSUME n + 1 <= Len(s) PROVE list[n + 1].key < key
      BY <1>8
    <3>1. n + 1 \in 1 .. Len(s)
      BY <1>8
    <3>2. curr = s[n + 1]
      BY <3>1, <1>8, <1>9 DEF Stop
    <3> QED
      BY <3>1, <3>2, <1>4, <1>8
  <2>3. n + 1 \in 1 .. Len(list) + 1 /\ n + 1 - 1 = n
    BY <1>8
  <2> DEFINE at == n + 1
             P == Pid
  <2>4. /\ at \in 1 .. Len(list) + 1 /\ list \in Seq(Entries(P)) /\ p \in P /\ key \in Int
        /\ \A j \in 1 .. at - 1 : list[j].key >= key
        /\ at <= Len(list) => list[at].key < key
    BY <2>1, <2>2, <2>3, <1>4, <1>8
  <2> HIDE DEF at, P
  <2>5. Insert(list, p, key) = InsertAt(list, at, Entry(p, key))
    BY <2>4, InsertIs
  <2> QED
    BY <2>5 DEF at
<1>17. PICK at : at = n + 1
  OBVIOUS
<1>18. PICK new : new = InsertAt(list, at, Entry(p, key))
  OBVIOUS
<1>19. PICK more : more = InsertAt(s, at, p)
  OBVIOUS
<1>20. /\ new \in Seq(Entries(Pid)) /\ Len(new) = Len(more) /\ Len(more) = Len(s) + 1
       /\ more[at] = p /\ new[at].pid = p /\ new[at].key = key
       /\ \A i \in 1 .. at - 1 : more[i] = s[i] /\ new[i] = list[i]
       /\ \A i \in at .. Len(s) : more[i + 1] = s[i] /\ new[i + 1] = list[i]
  <2>1. /\ list \in Seq(Entries(Pid)) /\ s \in Seq(Pid) /\ Len(list) = Len(s)
        /\ at \in 1 .. Len(s) + 1 /\ p \in Pid /\ key \in Int
    BY <1>4, <1>8, <1>17
  <2> QED
    BY <2>1, <1>18, <1>19, EntryPlaced
<1>21. \A i \in 1 .. Len(s) : qkey'[s[i]] = qkey[s[i]]
  BY <1>1, <1>4, <1>8, <1>13
<1>22. \A i \in 1 .. Len(new) : new[i].pid = more[i] /\ new[i].key = qkey'[more[i]]
  <2> SUFFICES ASSUME NEW i \in 1 .. Len(s) + 1
               PROVE  new[i].pid = more[i] /\ new[i].key = qkey'[more[i]]
    BY <1>20
  <2>1. CASE i < at
    <3>1. i \in 1 .. at - 1 /\ i \in 1 .. Len(s)
      BY <2>1, <1>8, <1>17
    <3> QED
      BY <3>1, <1>8, <1>20, <1>21
  <2>2. CASE i = at
    BY <2>2, <1>4, <1>13, <1>20
  <2>3. CASE i > at
    <3>1. PICK j \in at .. Len(s) : j + 1 = i
      <4>1. i - 1 \in at .. Len(s) /\ i - 1 + 1 = i
        BY <2>3, <1>8, <1>17
      <4> QED
        BY <4>1
    <3>2. j \in 1 .. Len(s)
      BY <1>8, <1>17
    <3>3. more[j + 1] = s[j] /\ new[j + 1] = list[j]
      BY <1>20
    <3> QED
      BY <3>1, <3>2, <3>3, <1>8, <1>21
  <2> QED
    BY <2>1, <2>2, <2>3, <1>8, <1>17
<1>23. Members(readylist)' = more
  BY <1>12, <1>17, <1>19
<1>24. Keyed(readylist)' = new
  BY <1>1, <1>12, <1>20, <1>22, <1>23, KeyedThen
<1>25. Keyed(readylist)' = Lists!Insert(Keyed(readylist), arg, key)
  BY <1>2, <1>7, <1>16, <1>17, <1>18, <1>24, SameOperators
<1>26. ~Lists!OnSomeList(arg)
  BY <1>1, <1>2, <1>4, OnNone
<1> QED
  BY <1>12, <1>15, <1>25, <1>26 DEF Lists!MakeReady, Waits

(* No sleeper waits less than one before it.                               *)
LEMMA DelaysAscend ==
    ASSUME NEW P, NEW list \in Seq(Entries(P)),
           \A i \in 1 .. Len(list) : list[i].key >= 0,
           NEW n \in 0 .. Len(list)
    PROVE  \A j \in 0 .. n : Delay(list, j) <= Delay(list, n)
<1>1. Len(list) \in Nat /\ n \in Nat
  BY ListTypes
<1>2. \A i \in 0 .. Len(list) : Delay(list, i) \in Int
  BY DelayInt
<1>3. \A i \in 1 .. Len(list) :
         Delay(list, i) = Delay(list, i - 1) + list[i].key /\ list[i].key \in Int
  BY DelaySums, ListTypes
<1> DEFINE T == {j \in Nat : j <= n /\ ~(Delay(list, n - j) <= Delay(list, n))}
<1>4. T = {}
  <2> SUFFICES ASSUME T # {} PROVE FALSE
    OBVIOUS
  <2>1. T \subseteq Nat
    OBVIOUS
  <2> HIDE DEF T
  <2>2. PICK m \in T : \A x \in T : m <= x
    BY <2>1, Least
  <2>3. m \in Nat /\ m <= n /\ ~(Delay(list, n - m) <= Delay(list, n))
    BY <2>2 DEF T
  <2>4. m # 0
    BY <2>3, <1>1, <1>2
  <2>5. m - 1 \in Nat /\ m - 1 <= n /\ ~(m <= m - 1)
    BY <2>3, <2>4, <1>1
  <2>6. m - 1 \notin T
    BY <2>2, <2>5
  <2>7. Delay(list, n - (m - 1)) <= Delay(list, n)
    BY <2>5, <2>6 DEF T
  <2>8. PICK i : i = n - (m - 1)
    OBVIOUS
  <2>9. i \in 1 .. Len(list) /\ n - m = i - 1 /\ i \in 0 .. Len(list) /\ i - 1 \in 0 .. Len(list)
    BY <2>3, <2>4, <2>8, <1>1
  <2>10. /\ Delay(list, i) = Delay(list, i - 1) + list[i].key /\ list[i].key \in Int
         /\ list[i].key >= 0 /\ Delay(list, i) \in Int /\ Delay(list, i - 1) \in Int
    BY <2>9, <1>2, <1>3
  <2> QED
    BY <2>3, <2>7, <2>8, <2>9, <2>10, <1>1, <1>2
<1>5. ASSUME NEW j \in 0 .. n PROVE Delay(list, j) <= Delay(list, n)
  <2>1. n - j \in Nat /\ n - j <= n /\ n - (n - j) = j
    BY <1>1
  <2>2. n - j \notin T
    BY <1>4
  <2> QED
    BY <2>1, <2>2
<1> QED
  BY <1>5

(* insertd() links in where the delta list wants the process, with what    *)
(* the list leaves of its delay.                                           *)
LEMMA InsertdLinkIsGoToSleep ==
    ASSUME ListInv, TypeOK', InsertdLink
    PROVE  AllHeld' /\ \E delay \in 1 .. MaxDelay : Lists!GoToSleep(arg, delay)
<1>1. /\ TypeOK /\ LinksConsistent /\ SleepKeysNatural /\ AllHeld /\ DelayDivided
      /\ sleepq \in Queue /\ readylist \in Queue \ {sleepq}
      /\ SemQueue \subseteq Queue \ {sleepq} /\ EMPTY \notin Queue
  BY Layout DEF ListInv, IInv, TableInv
<1>2. PICK p : p = arg
  OBVIOUS
<1>3. PICK b : b = prev
  OBVIOUS
<1>4. /\ p \in Pid /\ p \in Node /\ on[p] = EMPTY /\ pc = "insertd"
      /\ key \in Int /\ key >= 0 /\ curr = qnext[b] /\ ~InsertdGoesOn
  BY <1>2, <1>3, Layout DEF InsertdLink, ListInv, IInv, TableInv, InsertdPosition, TypeOK
<1>5. /\ qnext' = [qnext EXCEPT ![p] = curr, ![b] = p]
      /\ qprev' = [qprev EXCEPT ![p] = b, ![curr] = p]
      /\ on' = [on EXCEPT ![p] = sleepq]
      /\ qkey' = IF curr # queuetail(sleepq)
                 THEN [qkey EXCEPT ![p] = key, ![curr] = @ - key]
                 ELSE [qkey EXCEPT ![p] = key]
  BY <1>2, <1>3 DEF InsertdLink, LinkBetween
<1>6. PICK s : s = Members(sleepq)
  OBVIOUS
<1>7. PICK list : list = Keyed(sleepq)
  OBVIOUS
<1>8. /\ Holds(sleepq, s) /\ s \in Seq(Pid) /\ list \in Seq(Entries(Pid))
      /\ Len(list) = Len(s) /\ Len(s) \in Nat
      /\ \A i \in 1 .. Len(s) : /\ s[i] \in Pid /\ on[s[i]] = sleepq
                                /\ list[i].pid = s[i] /\ list[i].key = qkey[s[i]]
      /\ \A i, j \in 1 .. Len(s) : s[i] = s[j] => i = j
  <2>1. TypeOK /\ AllHeld /\ sleepq \in Queue
    BY <1>1
  <2> QED
    BY <2>1, <1>6, <1>7, KeyedTypes
<1>9. PICK n \in 0 .. Len(s) : b = Stop(sleepq, s, n) /\ key + Delay(list, n) \in 1 .. MaxDelay
  BY <1>1, <1>3, <1>4, <1>6, <1>7, SameOperators DEF DelayDivided
<1>10. curr = Stop(sleepq, s, n + 1)
  BY <1>4, <1>8, <1>9 DEF Holds
<1>11. PICK at : at = n + 1
  OBVIOUS
<1>12. /\ at \in 1 .. Len(s) + 1 /\ at \in 1 .. Len(list) + 1 /\ at - 1 = n
       /\ at <= Len(s) => curr = s[at] /\ curr \in Pid /\ curr # queuetail(sleepq)
       /\ at > Len(s) => curr = queuetail(sleepq)
  <2>1. at \in 1 .. Len(s) + 1 /\ at \in 1 .. Len(list) + 1 /\ at - 1 = n
    BY <1>8, <1>11
  <2>2. queuetail(sleepq) \notin Pid
    BY <1>1, Heads DEF queuetail
  <2> QED
    BY <2>1, <2>2, <1>8, <1>10, <1>11 DEF Stop
<1>13. LinkBehind(p, b)
  BY <1>4, <1>5 DEF LinkBehind
<1>14. /\ AllHeld' /\ Members(sleepq)' = InsertAt(s, at, p)
       /\ \A r \in Queue \ {sleepq} : Members(r)' = Members(r)
  BY <1>1, <1>4, <1>5, <1>6, <1>9, <1>11, <1>13, PutOn
<1>15. at <= Len(s) => p # curr
  BY <1>1, <1>4, <1>8, <1>12
<1>16. \A x \in Pid : qkey'[x] = IF x = p THEN key
                                ELSE IF at <= Len(s) /\ x = s[at] THEN qkey[x] - key
                                ELSE qkey[x]
  <2>1. CASE at <= Len(s)
    <3>1. qkey' = [qkey EXCEPT ![p] = key, ![curr] = qkey[curr] - key]
      BY <2>1, <1>5, <1>12, <1>15
    <3> QED
      BY <3>1, <2>1, <1>1, <1>4, <1>12, <1>15, Layout DEF TypeOK
  <2>2. CASE ~(at <= Len(s))
    <3>1. qkey' = [qkey EXCEPT ![p] = key]
      BY <2>2, <1>5, <1>8, <1>12
    <3> QED
      BY <3>1, <2>2, <1>1, <1>4, Layout DEF TypeOK
  <2> QED
    BY <2>1, <2>2
<1>17. \A r \in Queue \ {sleepq} : Keyed(r)' = Keyed(r)
  <2>1. at <= Len(s) => on[s[at]] = sleepq
    BY <1>8, <1>12
  <2>2. \A r \in Queue \ {sleepq} : \A x \in Pid : on[x] = r => qkey'[x] = qkey[x]
    BY <2>1, <1>1, <1>4, <1>16
  <2> QED
    BY <2>2, <1>1, <1>14, KeyedStays
<1>18. Keyed(readylist)' = Keyed(readylist) /\ Waits' = Waits
  BY <1>1, <1>14, <1>17, WaitsKept
<1>19. PICK k : k = key + Delay(list, n)
  OBVIOUS
<1>20. \A j \in 0 .. Len(list) : Delay(list, j) \in Int
  BY <1>8, DelayInt
<1>21. k \in 1 .. MaxDelay /\ k \in Int /\ k - Delay(list, n) = key
  <2>1. Delay(list, n) \in Int
    BY <1>8, <1>9, <1>20
  <2> QED
    BY <2>1, <1>4, <1>9, <1>19
<1>22. \A j \in 1 .. at - 1 : Delay(list, j) <= k
  <2>1. \A i \in 1 .. Len(list) : list[i].key >= 0
    BY <1>1, <1>8 DEF SleepKeysNatural
  <2>2. \A j \in 0 .. n : Delay(list, j) <= Delay(list, n)
    <3>1. list \in Seq(Entries(Pid)) /\ n \in 0 .. Len(list)
      BY <1>8, <1>9
    <3> QED
      BY <2>1, <3>1, DelaysAscend
  <2> SUFFICES ASSUME NEW j \in 1 .. n PROVE Delay(list, j) <= k
    BY <1>12
  <2>3. j \in 0 .. Len(list) /\ n \in 0 .. Len(list) /\ j \in 0 .. n
    BY <1>8, <1>9
  <2> QED
    BY <2>2, <2>3, <1>4, <1>19, <1>20
<1>23. at <= Len(list) => Delay(list, at) > k
  <2> SUFFICES ASSUME at <= Len(s) PROVE Delay(list, at) > k
    BY <1>8
  <2>1. at \in 1 .. Len(list) /\ at \in 1 .. Len(s)
    BY <1>8, <1>12
  <2>2. Delay(list, at) = Delay(list, n) + list[at].key
    <3>1. Delay(list, at) = Delay(list, at - 1) + list[at].key
      BY <2>1, <1>8, DelaySums
    <3> QED
      BY <3>1, <1>12
  <2>3. list[at].key = qkey[curr] /\ list[at].key \in Int
    BY <2>1, <1>8, <1>12, ListTypes
  <2>4. qkey[curr] > key
    BY <2>3, <1>4, <1>12 DEF InsertdGoesOn
  <2> QED
    BY <2>2, <2>3, <2>4, <1>4, <1>8, <1>9, <1>19, <1>20
<1>24. PICK new : new = Insertd(list, p, k)
  OBVIOUS
<1>25. new \in Seq(Entries(Pid)) /\ InsertedAt(list, p, k, at, new)
  <2> DEFINE P == Pid
  <2>1. list \in Seq(Entries(P)) /\ p \in P
    BY <1>4, <1>8
  <2> HIDE DEF P
  <2>2. new \in Seq(Entries(P)) /\ InsertedAt(list, p, k, at, new)
    BY <2>1, <1>12, <1>21, <1>22, <1>23, <1>24, InsertdIs
  <2> QED
    BY <2>2 DEF P
<1>26. /\ Len(new) = Len(s) + 1
       /\ \A i \in 1 .. at - 1 : new[i] = list[i]
       /\ new[at].pid = p /\ new[at].key = key
       /\ \A i \in at .. Len(s) :
             /\ new[i + 1].pid = list[i].pid
             /\ new[i + 1].key = IF i = at THEN list[i].key - key ELSE list[i].key
  <2>1. k - Delay(list, at - 1) = key
    BY <1>12, <1>21
  <2> QED
    BY <2>1, <1>8, <1>25 DEF InsertedAt
<1>27. PICK more : more = InsertAt(s, at, p)
  OBVIOUS
<1>28. /\ Len(more) = Len(s) + 1 /\ more[at] = p
       /\ \A i \in 1 .. at - 1 : more[i] = s[i]
       /\ \A i \in at .. Len(s) : more[i + 1] = s[i]
  <2>1. /\ Len(more) = Len(s) + 1
        /\ \A i \in 1 .. Len(s) + 1 :
              more[i] = IF i < at THEN s[i] ELSE IF i = at THEN p ELSE s[i - 1]
    <3>1. s \in Seq(Pid) /\ at \in 1 .. Len(s) + 1 /\ p \in Pid
      BY <1>4, <1>8, <1>12
    <3> DEFINE P == Pid
    <3>2. s \in Seq(P) /\ p \in P /\ at \in 1 .. Len(s) + 1
      BY <3>1
    <3> HIDE DEF P
    <3>3. Placed(s, at, p, more)
      BY <3>2, <1>27, InsertAtPlaces
    <3> QED
      BY <3>3 DEF Placed
  <2>2. ASSUME NEW i \in at .. Len(s) PROVE more[i + 1] = s[i]
    <3>1. i + 1 \in 1 .. Len(s) + 1 /\ ~(i + 1 < at) /\ i + 1 # at /\ i + 1 - 1 = i
      BY <1>8, <1>12
    <3> QED
      BY <3>1, <2>1
  <2> QED
    BY <2>1, <2>2, <1>8, <1>12
<1>29. \A i \in 1 .. Len(s) : s[i] # p /\ (i # at => qkey'[s[i]] = qkey[s[i]])
                              /\ (i = at => qkey'[s[i]] = qkey[s[i]] - key)
  <2> SUFFICES ASSUME NEW i \in 1 .. Len(s)
               PROVE  s[i] # p /\ (i # at => qkey'[s[i]] = qkey[s[i]])
                               /\ (i = at => qkey'[s[i]] = qkey[s[i]] - key)
    OBVIOUS
  <2>1. s[i] \in Pid /\ s[i] # p
    BY <1>1, <1>4, <1>8
  <2>2. at <= Len(s) => at \in 1 .. Len(s)
    BY <1>12
  <2>3. i # at => ~(at <= Len(s) /\ s[i] = s[at])
    BY <2>2, <1>8
  <2>4. i = at => at <= Len(s)
    BY <1>8
  <2> QED
    BY <2>1, <2>3, <2>4, <1>16
<1>30. \A i \in 1 .. Len(new) : new[i].pid = more[i] /\ new[i].key = qkey'[more[i]]
  <2> SUFFICES ASSUME NEW i \in 1 .. Len(s) + 1
               PROVE  new[i].pid = more[i] /\ new[i].key = qkey'[more[i]]
    BY <1>26
  <2>1. CASE i < at
    <3>1. i \in 1 .. at - 1 /\ i \in 1 .. Len(s)
      BY <2>1, <1>8, <1>12
    <3>2. new[i] = list[i] /\ more[i] = s[i] /\ i # at
      BY <3>1, <2>1, <1>26, <1>28
    <3> QED
      BY <3>1, <3>2, <1>8, <1>29
  <2>2. CASE i = at
    BY <2>2, <1>4, <1>16, <1>26, <1>28
  <2>3. CASE i > at
    <3>1. PICK j \in at .. Len(s) : j + 1 = i
      <4>1. i - 1 \in at .. Len(s) /\ i - 1 + 1 = i
        BY <2>3, <1>8, <1>12
      <4> QED
        BY <4>1
    <3>2. j \in 1 .. Len(s)
      BY <1>8, <1>12
    <3>3. /\ more[j + 1] = s[j] /\ new[j + 1].pid = list[j].pid
          /\ new[j + 1].key = IF j = at THEN list[j].key - key ELSE list[j].key
      BY <1>26, <1>28
    <3> QED
      BY <3>1, <3>2, <3>3, <1>8, <1>29
  <2> QED
    BY <2>1, <2>2, <2>3, <1>8, <1>12
<1>31. Members(sleepq)' = more /\ Len(new) = Len(more)
  BY <1>14, <1>26, <1>27, <1>28
<1>32. Keyed(sleepq)' = new
  BY <1>1, <1>14, <1>25, <1>30, <1>31, KeyedThen
<1>33. Keyed(sleepq)' = Lists!Insertd(Keyed(sleepq), arg, k)
  BY <1>2, <1>7, <1>24, <1>32, SameInsertd
<1>34. ~Lists!OnSomeList(arg)
  BY <1>1, <1>2, <1>4, OnNone
<1>35. Lists!GoToSleep(arg, k)
  BY <1>18, <1>33, <1>34 DEF Lists!GoToSleep, Waits
<1> QED
  BY <1>14, <1>21, <1>35

--------------------------------------------------------------------------------
(* The scan of the sleep list.                                             *)

(* insertd() starts with the whole delay and nobody passed.                *)
LEMMA InsertdCallDivides ==
    ASSUME ListInv, NEW p \in Pid, NEW delay \in 1 .. MaxDelay, InsertdCall(p, delay)
    PROVE  DelayDivided'
<1>1. TypeOK /\ AllHeld /\ sleepq \in Queue
  BY Layout DEF ListInv, IInv, TableInv
<1>2. UNCHANGED <<qnext, qkey, on>> /\ key' = delay /\ prev' = sleepq
  BY DEF InsertdCall, links
<1>3. Members(sleepq)' = Members(sleepq) /\ Keyed(sleepq)' = Keyed(sleepq)
  BY <1>1, <1>2, ListsStay
<1>4. PICK s : s = Members(sleepq)
  OBVIOUS
<1>5. PICK list : list = Keyed(sleepq)
  OBVIOUS
<1>6. list \in Seq(Entries(Pid)) /\ Len(s) \in Nat
  BY <1>1, <1>4, <1>5, KeyedTypes
<1>7. Delay(list, 0) = 0
  BY <1>6, DelaySums
<1>8. /\ 0 \in 0 .. Len(s) /\ prev' = Stop(sleepq, s, 0)
      /\ key' + Lists!Delay(list, 0) \in 1 .. MaxDelay
  BY <1>2, <1>6, <1>7, SameOperators, QueueTabAssumption DEF Stop
<1>9. \E n \in 0 .. Len(s) : /\ prev' = Stop(sleepq, s, n)
                             /\ key' + Lists!Delay(list, n) \in 1 .. MaxDelay
  BY <1>8
<1>10. Members(sleepq)' = s /\ Keyed(sleepq)' = list
  BY <1>3, <1>4, <1>5
<1> QED
  BY <1>9, <1>10 DEF DelayDivided

(* Each turn takes off the delay what the sleeper it passes adds to it.    *)
LEMMA InsertdScanDivides ==
    ASSUME ListInv, InsertdScan
    PROVE  DelayDivided'
<1>1. TypeOK /\ LinksConsistent /\ AllHeld /\ DelayDivided /\ sleepq \in Queue
  BY Layout DEF ListInv, IInv, TableInv
<1>2. /\ UNCHANGED <<qnext, qkey, on>> /\ pc = "insertd"
      /\ key' = key - qkey[curr] /\ prev' = curr /\ curr # queuetail(sleepq)
  BY DEF InsertdScan, InsertdGoesOn, links
<1>3. curr = qnext[prev] /\ key \in Int
  BY <1>2 DEF ListInv, IInv, TableInv, InsertdPosition, TypeOK
<1>4. Members(sleepq)' = Members(sleepq) /\ Keyed(sleepq)' = Keyed(sleepq)
  BY <1>1, <1>2, ListsStay
<1>5. PICK s : s = Members(sleepq)
  OBVIOUS
<1>6. PICK list : list = Keyed(sleepq)
  OBVIOUS
<1>7. /\ Holds(sleepq, s) /\ list \in Seq(Entries(Pid)) /\ Len(list) = Len(s) /\ Len(s) \in Nat
      /\ \A i \in 1 .. Len(s) : list[i].key = qkey[s[i]]
  BY <1>1, <1>5, <1>6, KeyedTypes
<1>8. PICK n \in 0 .. Len(s) : /\ prev = Stop(sleepq, s, n)
                               /\ key + Delay(list, n) \in 1 .. MaxDelay
  BY <1>1, <1>2, <1>5, <1>6, SameOperators DEF DelayDivided
<1>9. curr = Stop(sleepq, s, n + 1)
  BY <1>3, <1>7, <1>8 DEF Holds
<1>10. PICK m : m = n + 1
  OBVIOUS
<1>11. m \in 1 .. Len(s) /\ m \in 0 .. Len(s) /\ m - 1 = n /\ curr = s[m]
  BY <1>2, <1>7, <1>9, <1>10 DEF Stop
<1>12. Delay(list, m) = Delay(list, n) + qkey[curr]
  <2>1. m \in 1 .. Len(list)
    BY <1>7, <1>11
  <2>2. Delay(list, m) = Delay(list, m - 1) + list[m].key
    BY <2>1, <1>7, DelaySums
  <2> QED
    BY <2>2, <1>7, <1>11
<1>13. Delay(list, n) \in Int /\ qkey[curr] \in Int
  <2>1. n \in 0 .. Len(list) /\ m \in 1 .. Len(list)
    BY <1>7, <1>8, <1>11
  <2> QED
    BY <2>1, <1>7, <1>11, DelayInt, ListTypes
<1>14. key' + Lists!Delay(list, m) \in 1 .. MaxDelay /\ prev' = Stop(sleepq, s, m)
  <2>1. key' + Delay(list, m) = key + Delay(list, n)
    BY <1>2, <1>3, <1>12, <1>13
  <2> QED
    BY <2>1, <1>2, <1>8, <1>9, <1>10, SameOperators
<1>15. \E i \in 0 .. Len(s) : /\ prev' = Stop(sleepq, s, i)
                              /\ key' + Lists!Delay(list, i) \in 1 .. MaxDelay
  BY <1>11, <1>14
<1>16. Members(sleepq)' = s /\ Keyed(sleepq)' = list
  BY <1>4, <1>5, <1>6
<1> QED
  BY <1>15, <1>16 DEF DelayDivided

LEMMA StutterDivides ==
    ASSUME ListInv, UNCHANGED vars
    PROVE  DelayDivided'
<1>1. TypeOK /\ AllHeld /\ DelayDivided /\ sleepq \in Queue
  BY Layout DEF ListInv, IInv, TableInv
<1>2. UNCHANGED <<qnext, qkey, on>> /\ pc' = pc /\ key' = key /\ prev' = prev
  BY DEF vars
<1>3. Members(sleepq)' = Members(sleepq) /\ Keyed(sleepq)' = Keyed(sleepq)
  BY <1>1, <1>2, ListsStay
<1> QED
  BY <1>1, <1>2, <1>3 DEF DelayDivided

--------------------------------------------------------------------------------
(* The refinement.                                                         *)

(* After sysinit() every list is empty.                                    *)
LEMMA InitLists == Init => ListInv /\ Lists!Init
<1> SUFFICES ASSUME Init PROVE ListInv /\ Lists!Init
  OBVIOUS
<1>1. IInv /\ TypeOK
  BY InitTable, InitDue DEF IInv, TableInv
<1>2. ASSUME NEW q \in Queue
      PROVE  Holds(q, <<>>) /\ Members(q) = <<>>
  <2>1. PICK s : s = <<>>
    OBVIOUS
  <2>2. s \in Seq(Pid) /\ Len(s) = 0
    BY <2>1
  <2>3. \A n \in 0 .. Len(s) : qnext[Stop(q, s, n)] = Stop(q, s, n + 1)
    <3>1. Stop(q, s, 0) = q /\ Stop(q, s, 1) = queuetail(q)
      BY <2>2 DEF Stop
    <3>2. qnext[q] = queuetail(q)
      BY Heads DEF Init
    <3>3. \A n \in 0 .. Len(s) : n = 0
      BY <2>2
    <3> QED
      BY <3>1, <3>2, <3>3
  <2>4. \A p \in Pid : on[p] # q
    BY Layout DEF Init
  <2>5. Holds(q, s)
    BY <2>2, <2>3, <2>4 DEF Holds
  <2>6. Members(q) = s
    BY <2>5, MembersAre
  <2> QED
    BY <2>1, <2>5, <2>6
<1>3. AllHeld
  BY <1>2 DEF AllHeld
<1>4. \A q \in Queue : Keyed(q) = <<>>
  <2> SUFFICES ASSUME NEW q \in Queue PROVE Keyed(q) = <<>>
    OBVIOUS
  <2>1. Keyed(q) \in Seq(Entries(Pid)) /\ Len(Keyed(q)) = Len(Members(q))
    BY <1>1, <1>3, KeyedTypes
  <2>2. Len(Keyed(q)) = 0
    BY <2>1, <1>2
  <2> QED
    BY <2>1, <2>2, EmptySeq
<1>5. Waits = [s \in 0 .. NSEM - 1 |-> <<>>]
  <2>1. \A s \in 0 .. NSEM - 1 : Members(squeue(s)) = <<>>
    BY <1>2, WaitLists, Layout
  <2> QED
    BY <2>1 DEF Waits
<1>6. DelayDivided
  BY DEF Init, DelayDivided
<1> QED
  BY <1>1, <1>3, <1>4, <1>5, <1>6, Layout DEF ListInv, Lists!Init, Waits

(* Every step of the table is a step of the lists or leaves them alone.    *)
LEMMA ListStep == ListInv /\ [Next]_vars => ListInv' /\ [Lists!Next]_(Lists!vars)
<1> SUFFICES ASSUME ListInv, [Next]_vars
             PROVE  ListInv' /\ [Lists!Next]_(Lists!vars)
  OBVIOUS
<1>1. IInv' /\ TypeOK'
  <2>1. IInv
    BY DEF ListInv
  <2>2. IInv'
    BY <2>1, Inductive
  <2> QED
    BY <2>2 DEF IInv, TableInv
<1>2. TypeOK /\ LinksConsistent /\ AllHeld
  BY DEF ListInv, IInv, TableInv
<1>3. SUFFICES AllHeld' /\ DelayDivided' /\ (Lists!Next \/ UNCHANGED Lists!vars)
  BY <1>1, <1>3 DEF ListInv
<1>4. pc' # "insertd" => DelayDivided'
  BY DEF DelayDivided
<1>5. ASSUME NEW p \in Pid, NEW q \in SemQueue, Enqueue(p, q)
      PROVE  AllHeld' /\ DelayDivided' /\ Lists!Next
  <2>1. PICK s \in 0 .. NSEM - 1 : q = squeue(s)
    BY WaitLists
  <2>2. AllHeld' /\ Lists!Join(p, s)
    BY <1>1, <1>5, <2>1, EnqueueIsJoin
  <2>3. pc' # "insertd"
    BY <1>5 DEF Enqueue, regs
  <2> QED
    BY <1>4, <2>2, <2>3 DEF Lists!Next
<1>6. ASSUME NEW p \in Pid, GetitemPid(p)
      PROVE  AllHeld' /\ DelayDivided' /\ Lists!Next
  <2>1. pc' # "insertd"
    BY <1>6 DEF GetitemPid, regs
  <2>2. CASE on[p] = readylist
    <3>1. AllHeld' /\ Lists!Unready(p)
      BY <1>1, <1>6, <2>2, GetitemIsUnready
    <3> QED
      BY <1>4, <2>1, <3>1 DEF Lists!Next
  <2>3. CASE on[p] # readylist
    <3>1. on[p] \in SemQueue
      BY <1>6, <2>3 DEF GetitemPid, Queue
    <3>2. PICK s \in 0 .. NSEM - 1 : on[p] = squeue(s)
      BY <3>1, WaitLists
    <3>3. AllHeld' /\ Lists!Abandon(p, s)
      BY <1>1, <1>6, <3>2, GetitemIsAbandon
    <3> QED
      BY <1>4, <2>1, <3>3 DEF Lists!Next
  <2> QED
    BY <2>2, <2>3
<1>7. ASSUME NEW p \in Pid, UnsleepPid(p)
      PROVE  AllHeld' /\ DelayDivided' /\ Lists!Next
  <2>1. pc' # "insertd"
    BY <1>7 DEF UnsleepPid, regs
  <2>2. AllHeld' /\ Lists!Cancel(p)
    BY <1>1, <1>7, UnsleepIsCancel
  <2> QED
    BY <1>4, <2>1, <2>2 DEF Lists!Next
<1>8. ASSUME NEW p \in Pid, NEW k \in Prio, InsertCall(p, k)
      PROVE  AllHeld' /\ DelayDivided' /\ UNCHANGED Lists!vars
  <2>1. UNCHANGED <<qnext, qkey, on>> /\ pc' # "insertd"
    BY <1>8 DEF InsertCall, links
  <2> QED
    BY <1>2, <1>4, <2>1, ListsStay
<1>9. ASSUME NEW p \in Pid, NEW delay \in 1 .. MaxDelay, InsertdCall(p, delay)
      PROVE  AllHeld' /\ DelayDivided' /\ UNCHANGED Lists!vars
  <2>1. UNCHANGED <<qnext, qkey, on>>
    BY <1>9 DEF InsertdCall, links
  <2>2. DelayDivided'
    BY <1>9, InsertdCallDivides
  <2> QED
    BY <1>2, <2>1, <2>2, ListsStay
<1>10. ASSUME NEW q \in SemQueue, Getfirst(q) \/ Getlast(q)
       PROVE  AllHeld' /\ DelayDivided' /\ Lists!Next
  <2>1. PICK s \in 0 .. NSEM - 1 : q = squeue(s)
    BY WaitLists
  <2>2. AllHeld' /\ (Lists!ServeFirst(s) \/ Lists!ServeLast(s))
    BY <1>1, <1>10, <2>1, GetfirstIsServeFirst, GetlastIsServeLast
  <2>3. pc' # "insertd"
    BY <1>10 DEF Getfirst, Getlast, regs
  <2> QED
    BY <1>4, <2>2, <2>3 DEF Lists!Next
<1>11. ASSUME NEW q \in Queue \ {sleepq}, Dequeue(q)
       PROVE  AllHeld' /\ DelayDivided' /\ Lists!Next
  <2>1. pc' # "insertd"
    BY <1>11 DEF Dequeue, DequeueFrom, regs
  <2>2. CASE q = readylist
    <3>1. AllHeld' /\ Lists!Dispatch
      BY <1>1, <1>11, <2>2, DequeueIsDispatch
    <3> QED
      BY <1>4, <2>1, <3>1 DEF Lists!Next
  <2>3. CASE q # readylist
    <3>1. PICK s \in 0 .. NSEM - 1 : q = squeue(s)
      <4>1. q \in SemQueue
        BY <1>11, <2>3 DEF Queue
      <4> QED
        BY <4>1, WaitLists
    <3>2. AllHeld' /\ Lists!ServeFirst(s)
      BY <1>1, <1>11, <3>1, DequeueIsServeFirst
    <3> QED
      BY <1>4, <2>1, <3>2 DEF Lists!Next
  <2> QED
    BY <2>2, <2>3
<1>12. CASE InsertScan
  <2>1. UNCHANGED <<qnext, qkey, on>> /\ pc' # "insertd"
    BY <1>12 DEF InsertScan, links
  <2> QED
    BY <1>2, <1>4, <2>1, ListsStay
<1>13. CASE InsertLink
  <2>1. AllHeld' /\ Lists!MakeReady(arg, key)
    BY <1>1, <1>13, InsertLinkIsMakeReady
  <2>2. pc' # "insertd" /\ arg \in Pid /\ key \in Prio
    BY <1>13
    DEF InsertLink, LinkBetween, ListInv, IInv, TableInv, TypeOK, InsertPosition
  <2> QED
    BY <1>4, <2>1, <2>2 DEF Lists!Next
<1>14. CASE InsertdScan
  <2>1. UNCHANGED <<qnext, qkey, on>>
    BY <1>14 DEF InsertdScan, links
  <2>2. DelayDivided'
    BY <1>14, InsertdScanDivides
  <2> QED
    BY <1>2, <2>1, <2>2, ListsStay
<1>15. CASE InsertdLink
  <2>1. AllHeld' /\ \E delay \in 1 .. MaxDelay : Lists!GoToSleep(arg, delay)
    BY <1>1, <1>15, InsertdLinkIsGoToSleep
  <2>2. pc' # "insertd" /\ arg \in Pid
    BY <1>2, <1>15 DEF InsertdLink, LinkBetween, TypeOK
  <2> QED
    BY <1>4, <2>1, <2>2 DEF Lists!Next
<1>16. CASE ClockTick
  <2>1. AllHeld' /\ Lists!Elapse
    BY <1>1, <1>16, ClockTickIsElapse
  <2>2. pc' # "insertd"
    BY <1>16 DEF ClockTick
  <2> QED
    BY <1>4, <2>1, <2>2 DEF Lists!Next
<1>17. CASE WakeupNext
  <2>1. AllHeld' /\ Lists!Wake
    BY <1>1, <1>17, WakeupNextIsWake
  <2>2. pc' # "insertd"
    BY <1>17 DEF WakeupNext, DequeueFrom, regs
  <2> QED
    BY <1>4, <2>1, <2>2 DEF Lists!Next
<1>18. CASE WakeupEnd
  <2>1. UNCHANGED <<qnext, qkey, on>> /\ pc' # "insertd"
    BY <1>18 DEF WakeupEnd, links
  <2> QED
    BY <1>2, <1>4, <2>1, ListsStay
<1>19. CASE UNCHANGED vars
  <2>1. UNCHANGED <<qnext, qkey, on>>
    BY <1>19 DEF vars
  <2> QED
    BY <1>2, <1>19, <2>1, StutterDivides, ListsStay
<1> QED
  BY <1>5, <1>6, <1>7, <1>8, <1>9, <1>10, <1>11, <1>12, <1>13, <1>14, <1>15, <1>16,
     <1>17, <1>18, <1>19
  DEF Next

(* Whoever is on a list is reached from its head, once, and nobody else    *)
(* is: whatever the kernel does, no process is lost in queuetab[].         *)
THEOREM NobodyLost == Spec => []AllHeld
<1>1. Init => ListInv
  BY InitLists
<1>2. ListInv /\ [Next]_vars => ListInv'
  BY ListStep
<1>3. ListInv => AllHeld
  BY DEF ListInv
<1> QED
  BY <1>1, <1>2, <1>3, PTL DEF Spec

(* The doubly linked table implements the lists in arrival order, in       *)
(* priority order and of relative delays, each operation a single step.    *)
THEOREM ListsImplemented == Spec => ImplementsLists
<1>1. Init => ListInv /\ Lists!Init
  BY InitLists
<1>2. ListInv /\ [Next]_vars => ListInv' /\ [Lists!Next]_(Lists!vars)
  BY ListStep
<1> QED
  BY <1>1, <1>2, PTL DEF Spec, ImplementsLists, Lists!Spec

================================================================================
