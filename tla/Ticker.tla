--------------------------------- MODULE Ticker ---------------------------------
(***************************************************************************)
(* What the kernel wants of the machine's timer: after each tick, the next *)
(* one comes once Interval has passed since the handler read the clock,    *)
(* never earlier and never twice.  Late holds the delays beyond that which *)
(* the two words of the clock can cause; it is {0} for a clock that is     *)
(* read in one piece.                                                      *)
(***************************************************************************)
EXTENDS Naturals

CONSTANTS Interval, Late

VARIABLES
    now,    \* the clock
    due,    \* the tick comes when the clock has passed this
    armed   \* a tick is to come; if not, one is being handled

vars == <<now, due, armed>>

Init ==
    /\ now = 0
    /\ due = Interval
    /\ armed = TRUE

(* Time passes, and no tick is owed for it yet.                            *)
Pass ==
    /\ now' >= now
    /\ UNCHANGED <<due, armed>>

(* The tick, as late as the machine was busy or had it masked.             *)
Tick ==
    /\ armed = TRUE
    /\ now' >= now
    /\ now' > due
    /\ armed' = FALSE
    /\ UNCHANGED due

(* The handler asks for the next, counting from some moment since the last *)
(* was due.                                                                *)
Arm ==
    /\ ~armed
    /\ \E asked \in due + 1 .. now, late \in Late :
          due' = asked + Interval + late
    /\ armed' = TRUE
    /\ UNCHANGED now

Next == Pass \/ Tick \/ Arm

Spec == Init /\ [][Next]_vars

================================================================================
