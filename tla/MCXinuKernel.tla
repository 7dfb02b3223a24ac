------------------------------ MODULE MCXinuKernel ------------------------------
(***************************************************************************)
(* Model checking of XinuKernel.  The sleep list of relative delays        *)
(* implements AlarmClock: what a process has left to sleep is the sum of   *)
(* the keys up to its own.                                                 *)
(***************************************************************************)
EXTENDS XinuKernel

Alarm == INSTANCE AlarmClock WITH
    Delays <- Delays \cup Waits,
    left <- [p \in Pid |-> IF p \in PidsOf(sleepq)
                           THEN Delay(sleepq, PosOf(sleepq, p)) ELSE 0],
    handling <- inclk,
    mail <- prhasmsg,
    timed <- [p \in Pid |-> prstate[p] = "RECTIM"],
    dead <- [p \in Pid |-> prstate[p] = "FREE"]

(* Whatever is inserted, cancelled or killed in between, each process      *)
(* sleeps exactly as long as it asked.                                     *)
SleepsExactly == Alarm!Spec

(* The part of the state that some action may still read: the entries of   *)
(* free processes and semaphores are written before they are read, and     *)
(* prsem is read of waiting processes only.                                *)
LiveState ==
    <<sched, prprio, sleepq, sstate, squeue, nextpid, nextsem, prcount, kont, inclk, halted,
      [p \in Pid |-> IF prstate[p] = "WAIT" THEN prsem[p] ELSE 0],
      [p \in Pid |-> IF Live(p) THEN prparent[p] ELSE 0],
      [p \in Pid |-> Live(p) /\ prhasmsg[p]],
      [s \in Sem |-> IF Used(s) THEN scount[s] ELSE 0]>>

================================================================================
