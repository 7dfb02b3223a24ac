------------------------------- MODULE AlarmClock -------------------------------
(***************************************************************************)
(* What sleepms(), recvtime() and the clock promise: every tick brings     *)
(* every sleeper one tick nearer its end, and a sleeper wakes at the tick  *)
(* that leaves it nothing to wait, not earlier and not later, unless it is *)
(* killed or, in recvtime(), gets a message.                               *)
(***************************************************************************)
EXTENDS Integers

CONSTANTS
    Pid,      (* processes                                               *)
    Delays    (* delays asked for                                        *)

VARIABLES
    left,     (* ticks each process still sleeps, 0 if it does not       *)
    handling, (* processes interrupted by the clock: gains one per tick  *)
    mail,     (* a message is waiting for the process                    *)
    timed,    (* the process sleeps in recvtime()                        *)
    dead      (* the process does not exist                              *)

vars == <<left, handling>>

Asleep(p) == left[p] > 0

Init ==
    /\ left = [p \in Pid |-> 0]
    /\ handling = {}

Tick ==
    /\ \E p \in Pid \ handling : handling' = handling \cup {p}
    /\ left' = [p \in Pid |-> IF Asleep(p) THEN left[p] - 1 ELSE 0]

FallAsleep(p) ==
    /\ ~Asleep(p)
    /\ \E d \in Delays : left' = [left EXCEPT ![p] = d]
    /\ handling' = handling

WakeEarly(p) ==
    /\ Asleep(p)
    /\ dead'[p] \/ (timed[p] /\ ~mail[p] /\ mail'[p])
    /\ left' = [left EXCEPT ![p] = 0]
    /\ handling' \subseteq handling

FinishTick == handling' \subseteq handling /\ left' = left

Next ==
    \/ Tick
    \/ \E p \in Pid : FallAsleep(p) \/ WakeEarly(p)
    \/ FinishTick

Spec == Init /\ [][Next]_vars

================================================================================
