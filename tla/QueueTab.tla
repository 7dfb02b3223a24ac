-------------------------------- MODULE QueueTab --------------------------------
(***************************************************************************)
(* kernel.xinu/system/queue.c: queuetab[], the one table that holds every  *)
(* process list of the kernel as a doubly linked list.  Entry p < NPROC    *)
(* belongs to process p; behind them each list has a head and a tail       *)
(* entry.  A list operation is a step, except that every turn of the scan  *)
(* loops of insert() and insertd() is a step of its own; interrupts are    *)
(* off throughout, so one operation runs at a time (pc).  clkhandler()     *)
(* with wakeup() is an operation too.  The ready() of a process that has   *)
(* been taken off a list is the InsertCall that may follow.                *)
(*                                                                         *)
(* on[p] is a history variable: the list the callers have put p on.  The   *)
(* code keeps no such record (it reads prstate instead), and the callers'  *)
(* duty to enqueue only what is on no list and to unlink only what is on   *)
(* one is the guard of the actions here.  So is a positive delay: what     *)
(* becomes of recvtime(0) is shown by XinuKernel.                          *)
(***************************************************************************)
EXTENDS Integers, Sequences

CONSTANTS
    NPROC,     (* number of processes                                    *)
    NSEM,      (* number of semaphores                                   *)
    Prio,      (* priorities in use, values of pri16                     *)
    MaxDelay   (* longest delay in use, in clock ticks                   *)

EMPTY  == -1
MAXKEY == 2147483647
MINKEY == -2147483647 - 1

ASSUME QueueTabAssumption ==
    /\ NPROC \in Nat \ {0}
    /\ NSEM \in Nat
    /\ \A k \in Prio : k \in Int /\ -32768 <= k /\ k <= 32767
    /\ MaxDelay \in Nat /\ MaxDelay <= MAXKEY

Pid   == 0 .. NPROC - 1
NQENT == NPROC + 4 + NSEM + NSEM
Node  == 0 .. NQENT - 1

(* Lists are allocated by newqueue() in this order: clkinit() takes the    *)
(* first, sysinit() one per semaphore and then the ready list.             *)
sleepq    == NPROC
squeue(s) == NPROC + 2 + 2 * s
SemQueue  == {squeue(s) : s \in 0 .. NSEM - 1}
readylist == NPROC + 2 + 2 * NSEM
Queue     == {sleepq, readylist} \cup SemQueue

queuetail(q) == q + 1

VARIABLES
    qnext,     (* queuetab[].qnext                                       *)
    qprev,     (* queuetab[].qprev                                       *)
    qkey,      (* queuetab[].qkey                                        *)
    on,        (* history: the list a process is on, EMPTY for none      *)
    pc,        (* "idle", or the function whose loop is running          *)
    arg,       (* its parameter pid                                      *)
    key,       (* its parameter key; insertd() counts it down            *)
    curr,      (* insert(): curr; insertd(): next                        *)
    prev       (* insertd(): prev                                        *)

links == <<qnext, qprev>>
regs  == <<pc, arg, key, curr, prev>>
vars  == <<qnext, qprev, qkey, on, pc, arg, key, curr, prev>>

firstid(q) == qnext[q]
lastid(q)  == qprev[queuetail(q)]
isempty(q) == firstid(q) >= NPROC
firstkey(q) == qkey[firstid(q)]

--------------------------------------------------------------------------------
(* A bug: the tail entry keeps the 0 of the bss, no sentinel key.          *)
NewqueueKeyNoSentinel(x) == IF x \in Queue THEN MAXKEY ELSE 0

NewqueueKey(x) ==
    IF x \in Queue THEN MAXKEY
    ELSE IF x \in Pid THEN 0 ELSE MINKEY

(* After sysinit(): newqueue() has linked each head with its tail; entries *)
(* of processes are still zero, as the loader left them.                   *)
Init ==
    /\ qnext = [x \in Node |-> IF x \in Queue THEN queuetail(x)
                               ELSE IF x \in Pid THEN 0 ELSE EMPTY]
    /\ qprev = [x \in Node |-> IF x \in Queue THEN EMPTY
                               ELSE IF x \in Pid THEN 0 ELSE x - 1]
    /\ qkey = [x \in Node |-> NewqueueKey(x)]
    /\ on = [p \in Pid |-> EMPTY]
    /\ pc = "idle"
    /\ arg = 0 /\ key = 0 /\ curr = 0 /\ prev = 0

--------------------------------------------------------------------------------
(* Operations without a loop.                                              *)

(* enqueue(): link pid just before the tail entry.                         *)
Enqueue(p, q) ==
    LET tail == queuetail(q)
        last == qprev[tail]
    IN  /\ pc = "idle" /\ on[p] = EMPTY
        /\ qnext' = [qnext EXCEPT ![p] = tail, ![last] = p]
        /\ qprev' = [qprev EXCEPT ![p] = last, ![tail] = p]
        /\ on' = [on EXCEPT ![p] = q]
        /\ UNCHANGED <<qkey, regs>>

(* A bug: only the forward link is closed behind the removed process.      *)
UnlinkOneWay(p) ==
    /\ qnext' = [qnext EXCEPT ![qprev[p]] = qnext[p]]
    /\ UNCHANGED qprev

(* The two assignments of getitem(): the entry's own links stay.           *)
Unlink(p) ==
    /\ qnext' = [qnext EXCEPT ![qprev[p]] = qnext[p]]
    /\ qprev' = [qprev EXCEPT ![qnext[p]] = qprev[p]]

(* getitem() from the ready list or a semaphore, by kill() and suspend().  *)
GetitemPid(p) ==
    /\ pc = "idle" /\ on[p] \in Queue \ {sleepq}
    /\ Unlink(p)
    /\ on' = [on EXCEPT ![p] = EMPTY]
    /\ UNCHANGED <<qkey, regs>>

(* getfirst(): of a semaphore that is reset or deleted.                    *)
Getfirst(q) ==
    /\ pc = "idle" /\ ~isempty(q)
    /\ Unlink(firstid(q))
    /\ on' = [on EXCEPT ![firstid(q)] = EMPTY]
    /\ UNCHANGED <<qkey, regs>>

(* getlast(): no caller in this kernel, but part of the interface.         *)
Getlast(q) ==
    /\ pc = "idle" /\ ~isempty(q)
    /\ Unlink(lastid(q))
    /\ on' = [on EXCEPT ![lastid(q)] = EMPTY]
    /\ UNCHANGED <<qkey, regs>>

(* dequeue(): getfirst(), then the links of the removed entry are cleared. *)
DequeueFrom(q) ==
    LET p == firstid(q)
    IN  /\ qnext' = [qnext EXCEPT ![qprev[p]] = qnext[p], ![p] = EMPTY]
        /\ qprev' = [qprev EXCEPT ![qnext[p]] = qprev[p], ![p] = EMPTY]
        /\ on' = [on EXCEPT ![p] = EMPTY]
        /\ UNCHANGED <<qkey, regs>>

(* By resched() from the ready list, by signal() from a semaphore.         *)
Dequeue(q) ==
    /\ pc = "idle" /\ ~isempty(q)
    /\ DequeueFrom(q)

(* unsleep() of create.c: the successor inherits the delay, then getitem().*)
UnsleepPid(p) ==
    /\ pc = "idle" /\ on[p] = sleepq
    /\ qkey' = IF qnext[p] < NPROC
               THEN [qkey EXCEPT ![qnext[p]] = @ + qkey[p]]
               ELSE qkey
    /\ Unlink(p)
    /\ on' = [on EXCEPT ![p] = EMPTY]
    /\ UNCHANGED regs

--------------------------------------------------------------------------------
(* insert() into the ready list, in descending key order.                  *)

InsertCall(p, k) ==
    /\ pc = "idle" /\ on[p] = EMPTY
    /\ pc' = "insert"
    /\ arg' = p /\ key' = k /\ curr' = firstid(readylist)
    /\ UNCHANGED <<links, qkey, on, prev>>

InsertScan ==
    /\ pc = "insert" /\ qkey[curr] >= key
    /\ curr' = qnext[curr]
    /\ UNCHANGED <<links, qkey, on, pc, arg, key, prev>>

(* The end of both functions: link arg between before and after, and       *)
(* return; the dead locals read 0.                                         *)
LinkBetween(before, after, q) ==
    /\ qnext' = [qnext EXCEPT ![arg] = after, ![before] = arg]
    /\ qprev' = [qprev EXCEPT ![arg] = before, ![after] = arg]
    /\ on' = [on EXCEPT ![arg] = q]
    /\ pc' = "idle"
    /\ arg' = 0 /\ key' = 0 /\ curr' = 0 /\ prev' = 0

(* A bug: the scan stops one entry early, at an equal key.                 *)
InsertLinkEarly ==
    /\ pc = "insert" /\ qkey[curr] <= key
    /\ LinkBetween(qprev[curr], curr, readylist)
    /\ qkey' = [qkey EXCEPT ![arg] = key]

(* A bug: the new entry is linked without looking at the keys.             *)
InsertLinkAnywhere ==
    /\ pc = "insert"
    /\ LinkBetween(qprev[curr], curr, readylist)
    /\ qkey' = [qkey EXCEPT ![arg] = key]

InsertLink ==
    /\ pc = "insert" /\ qkey[curr] < key
    /\ LinkBetween(qprev[curr], curr, readylist)
    /\ qkey' = [qkey EXCEPT ![arg] = key]

--------------------------------------------------------------------------------
(* insertd() into the sleep list, keys relative to the entry before.       *)

InsertdCall(p, delay) ==
    /\ pc = "idle" /\ on[p] = EMPTY
    /\ pc' = "insertd"
    /\ arg' = p /\ key' = delay
    /\ prev' = sleepq /\ curr' = firstid(sleepq)
    /\ UNCHANGED <<links, qkey, on>>

(* A bug: the loop looks for the end of the list only.                     *)
InsertdGoesOnToEnd == curr # queuetail(sleepq)

InsertdGoesOn == curr # queuetail(sleepq) /\ qkey[curr] <= key

InsertdScan ==
    /\ pc = "insertd" /\ InsertdGoesOn
    /\ key' = key - qkey[curr]
    /\ prev' = curr
    /\ curr' = qnext[curr]
    /\ UNCHANGED <<links, qkey, on, pc, arg>>

InsertdLink ==
    /\ pc = "insertd" /\ ~InsertdGoesOn
    /\ LinkBetween(prev, curr, sleepq)
    /\ qkey' = IF curr # queuetail(sleepq)
               THEN [qkey EXCEPT ![arg] = key, ![curr] = @ - key]
               ELSE [qkey EXCEPT ![arg] = key]

--------------------------------------------------------------------------------
(* The clock.                                                              *)

Due == ~isempty(sleepq) /\ firstkey(sleepq) <= 0

(* clkhandler(): one tick off the first sleeper; wakeup() is called when   *)
(* its key has become exactly 0.                                           *)
ClockTick ==
    /\ pc = "idle" /\ ~isempty(sleepq)
    /\ qkey' = [qkey EXCEPT ![firstid(sleepq)] = @ - 1]
    /\ pc' = IF qkey'[firstid(sleepq)] = 0 THEN "wakeup" ELSE "idle"
    /\ UNCHANGED <<links, on, arg, key, curr, prev>>

WakeupNext ==
    /\ pc = "wakeup" /\ Due
    /\ DequeueFrom(sleepq)

(* A bug: the loop tests for < 0 instead of <= 0.                          *)
WakeupEndEarly ==
    /\ pc = "wakeup" /\ (Due => firstkey(sleepq) = 0)
    /\ pc' = "idle"
    /\ UNCHANGED <<links, qkey, on, arg, key, curr, prev>>

WakeupEnd ==
    /\ pc = "wakeup" /\ ~Due
    /\ pc' = "idle"
    /\ UNCHANGED <<links, qkey, on, arg, key, curr, prev>>

--------------------------------------------------------------------------------
Next ==
    \/ \E p \in Pid :
          \/ \E q \in SemQueue : Enqueue(p, q)
          \/ \E k \in Prio : InsertCall(p, k)
          \/ \E delay \in 1 .. MaxDelay : InsertdCall(p, delay)
          \/ GetitemPid(p)
          \/ UnsleepPid(p)
    \/ \E q \in SemQueue : Getfirst(q) \/ Getlast(q)
    \/ \E q \in Queue \ {sleepq} : Dequeue(q)
    \/ InsertScan \/ InsertLink \/ InsertdScan \/ InsertdLink
    \/ ClockTick \/ WakeupNext \/ WakeupEnd

Spec == Init /\ [][Next]_vars

--------------------------------------------------------------------------------
(* Types.  In particular the scan pointer never leaves the table: both     *)
(* loops rely on the tail entry to stop them.                              *)
TypeOK ==
    /\ qnext \in [Node -> Node \cup {EMPTY}]
    /\ qprev \in [Node -> Node \cup {EMPTY}]
    /\ qkey \in [Node -> Int]
    /\ on \in [Pid -> Queue \cup {EMPTY}]
    /\ pc \in {"idle", "insert", "insertd", "wakeup"}
    /\ arg \in Pid /\ key \in Int /\ curr \in Node /\ prev \in Node

(* The list an entry belongs to.                                           *)
Owner == [x \in Node |-> IF x \in Pid THEN on[x]
                         ELSE IF x \in Queue THEN x ELSE x - 1]

(* The forward links of a list stay in the list, and the backward link of  *)
(* the entry they lead to leads back.                                      *)
ForwardLinks ==
    \A x \in Node :
        Owner[x] # EMPTY /\ x # queuetail(Owner[x]) =>
            /\ qnext[x] \in Node \ Queue
            /\ Owner[qnext[x]] = Owner[x]
            /\ qprev[qnext[x]] = x

(* The same from the tail towards the head.                                *)
BackwardLinks ==
    \A x \in Node :
        Owner[x] # EMPTY /\ x \notin Queue =>
            /\ qprev[x] \in Node
            /\ qprev[x] # queuetail(Owner[x])
            /\ Owner[qprev[x]] = Owner[x]
            /\ qnext[qprev[x]] = x

(* queuetab[] is a set of doubly linked lists: enqueue, dequeue, insert,   *)
(* insertd and getitem in any order leave no process half linked, and none *)
(* linked into a list other than the one it was put on.                    *)
LinksConsistent == ForwardLinks /\ BackwardLinks

(* The ready list is in descending key order, with the sentinels, which    *)
(* is what lets resched() take its head as the highest priority.           *)
ReadySorted ==
    \A x \in Node :
        Owner[x] = readylist /\ x # queuetail(readylist) =>
            qkey[x] >= qkey[qnext[x]]

(* No sleeper has a negative delay relative to the one before it, however  *)
(* insertd() splits and unsleep() merges the delays.                       *)
SleepKeysNatural ==
    \A p \in Pid : on[p] = sleepq => qkey[p] >= 0

(* The first sleeper still has to wait, except while wakeup() runs: the    *)
(* clock calls wakeup() only when a tick makes the first key exactly 0, so *)
(* a key that got there in any other way would never be noticed.           *)
NoneDue ==
    pc # "wakeup" =>
        \A p \in Pid : p = firstid(sleepq) => qkey[p] > 0

(* What the invariants above rest on.  The sentinels stop the scans        *)
(* and bound the ready list at both ends ...                               *)
Sentinels ==
    \A q \in Queue : qkey[q] = MAXKEY /\ qkey[queuetail(q)] = MINKEY

(* ... and a running scan stands on an entry of its list, with everything  *)
(* before it on the proper side of the key being placed.                   *)
InsertPosition ==
    pc = "insert" =>
        /\ on[arg] = EMPTY /\ key \in Prio
        /\ Owner[curr] = readylist /\ curr \notin Queue
        /\ qkey[qprev[curr]] >= key

InsertdPosition ==
    pc = "insertd" =>
        /\ on[arg] = EMPTY /\ key >= 0
        /\ prev = sleepq => key > 0
        /\ Owner[prev] = sleepq /\ prev # queuetail(sleepq)
        /\ curr = qnext[prev]

TableInv ==
    /\ TypeOK
    /\ LinksConsistent
    /\ Sentinels
    /\ ReadySorted
    /\ SleepKeysNatural
    /\ InsertPosition
    /\ InsertdPosition

IInv == TableInv /\ NoneDue

--------------------------------------------------------------------------------
(* The lists the table stands for, read off the forward links.             *)

(* The entries the links lead through from head q, the last one repeated.  *)
Trail(q) ==
    LET x[i \in 0 .. NPROC + 1] ==
            IF i = 0 THEN q
            ELSE IF i = 1 \/ x[i - 1] \in Pid THEN qnext[x[i - 1]] ELSE x[i - 1]
    IN  x

(* The processes among them.                                               *)
Members(q) ==
    LET x == Trail(q)
        n == CHOOSE n \in 0 .. NPROC :
                x[n + 1] \notin Pid /\ \A i \in 1 .. n : x[i] \in Pid
    IN  [i \in 1 .. n |-> x[i]]

Keyed(q) ==
    LET s == Members(q) IN [i \in DOMAIN s |-> [pid |-> s[i], key |-> qkey[s[i]]]]

Lists == INSTANCE QueueSpec WITH
    Sem <- 0 .. NSEM - 1,
    ready <- Keyed(readylist),
    sleep <- Keyed(sleepq),
    waiting <- [s \in 0 .. NSEM - 1 |-> Members(squeue(s))]

(* The doubly linked table implements the abstract lists: the scan loops   *)
(* of insert() and insertd() place a process exactly where a sorted list   *)
(* and a delta list want it, in any sequence of operations.                *)
ImplementsLists == Lists!Spec

(* What that rests on.  The n-th stop of a walk through s from head q ...  *)
Stop(q, s, n) == IF n = 0 THEN q ELSE IF n <= Len(s) THEN s[n] ELSE queuetail(q)

(* ... is where the links lead, and s are the processes on q, each once.   *)
Holds(q, s) ==
    /\ s \in Seq(Pid)
    /\ \A n \in 0 .. Len(s) : qnext[Stop(q, s, n)] = Stop(q, s, n + 1)
    /\ \A i, j \in 1 .. Len(s) : s[i] = s[j] => i = j
    /\ \A p \in Pid : on[p] = q <=> \E i \in 1 .. Len(s) : s[i] = p

(* Nobody is on a list and yet cannot be reached from its head.            *)
AllHeld == \A q \in Queue : Holds(q, Members(q))

(* What insertd() has left of the delay and what the sleepers it has       *)
(* passed have to wait make up the delay it was called with.               *)
DelayDivided ==
    pc = "insertd" =>
        \E n \in 0 .. Len(Members(sleepq)) :
            /\ prev = Stop(sleepq, Members(sleepq), n)
            /\ key + Lists!Delay(Keyed(sleepq), n) \in 1 .. MaxDelay

ListInv == IInv /\ AllHeld /\ DelayDivided

================================================================================
