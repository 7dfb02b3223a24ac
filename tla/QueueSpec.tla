------------------------------- MODULE QueueSpec -------------------------------
(***************************************************************************)
(* What the kernel may assume of queue.c: a list of waiting processes per  *)
(* semaphore in arrival order, one ready list in priority order and one    *)
(* delta list of sleepers, every process on at most one of them, and each  *)
(* operation a single step.                                                *)
(***************************************************************************)
EXTENDS XinuLists

CONSTANTS
    Pid,      (* process ids                                             *)
    Sem,      (* semaphore ids                                           *)
    Prio,     (* keys of the ready list                                  *)
    MaxDelay  (* longest delay asked of the sleep list                   *)

VARIABLES
    ready,    (* the ready list, [pid, key] entries                      *)
    sleep,    (* the sleep list, [pid, key] entries                      *)
    waiting   (* per semaphore, the sequence of waiting processes        *)

vars == <<ready, sleep, waiting>>

OnSomeList(p) ==
    \/ p \in PidsOf(ready) \cup PidsOf(sleep)
    \/ \E s \in Sem : p \in Range(waiting[s])

Init ==
    /\ ready = <<>>
    /\ sleep = <<>>
    /\ waiting = [s \in Sem |-> <<>>]

MakeReady(p, key) ==
    /\ ~OnSomeList(p)
    /\ ready' = Insert(ready, p, key)
    /\ UNCHANGED <<sleep, waiting>>

Dispatch ==
    /\ ready # <<>>
    /\ ready' = Tail(ready)
    /\ UNCHANGED <<sleep, waiting>>

Unready(p) ==
    /\ p \in PidsOf(ready)
    /\ ready' = Getitem(ready, p)
    /\ UNCHANGED <<sleep, waiting>>

GoToSleep(p, delay) ==
    /\ ~OnSomeList(p)
    /\ sleep' = Insertd(sleep, p, delay)
    /\ UNCHANGED <<ready, waiting>>

Elapse ==
    /\ sleep # <<>> /\ Head(sleep).key > 0
    /\ sleep' = [sleep EXCEPT ![1].key = @ - 1]
    /\ UNCHANGED <<ready, waiting>>

Wake ==
    /\ sleep # <<>> /\ Head(sleep).key <= 0
    /\ sleep' = Tail(sleep)
    /\ UNCHANGED <<ready, waiting>>

Cancel(p) ==
    /\ p \in PidsOf(sleep)
    /\ sleep' = Unsleep(sleep, p)
    /\ UNCHANGED <<ready, waiting>>

Join(p, s) ==
    /\ ~OnSomeList(p)
    /\ waiting' = [waiting EXCEPT ![s] = Append(@, p)]
    /\ UNCHANGED <<ready, sleep>>

ServeFirst(s) ==
    /\ waiting[s] # <<>>
    /\ waiting' = [waiting EXCEPT ![s] = Tail(@)]
    /\ UNCHANGED <<ready, sleep>>

ServeLast(s) ==
    /\ waiting[s] # <<>>
    /\ waiting' = [waiting EXCEPT ![s] = Front(@)]
    /\ UNCHANGED <<ready, sleep>>

Abandon(p, s) ==
    /\ p \in Range(waiting[s])
    /\ waiting' = [waiting EXCEPT ![s] = RemoveFirst(@, p)]
    /\ UNCHANGED <<ready, sleep>>

Next ==
    \/ Dispatch \/ Elapse \/ Wake
    \/ \E p \in Pid :
          \/ \E key \in Prio : MakeReady(p, key)
          \/ \E delay \in 1 .. MaxDelay : GoToSleep(p, delay)
          \/ \E s \in Sem : Join(p, s) \/ Abandon(p, s)
          \/ Unready(p) \/ Cancel(p)
    \/ \E s \in Sem : ServeFirst(s) \/ ServeLast(s)

Spec == Init /\ [][Next]_vars

================================================================================
