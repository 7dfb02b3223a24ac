---------------------------------- MODULE Hart ----------------------------------
(***************************************************************************)
(* The processor that mini-rv32ima emulates, as far as its timer and traps *)
(* go.  The emulator runs instructions in batches; time passes, the timer  *)
(* is compared and interrupts are taken between two batches only.  How     *)
(* many instructions a batch has is the emulator's choice (1024, fewer     *)
(* after a trap): here a batch may end after any instruction.              *)
(*                                                                         *)
(* The timer and its compare value are two words of HALF each (2^32 in the *)
(* emulator).  The privilege is always machine mode: the kernel never      *)
(* leaves it.  The software interrupt is left out: nothing calls           *)
(* soft_trap().                                                            *)
(***************************************************************************)
EXTENDS Naturals

CONSTANTS
    HALF,       \* a word of the timer holds 0 .. HALF - 1
    Elapsed     \* what a batch may add to the timer

ASSUME HartAssumption ==
    /\ HALF \in Nat \ {0}
    /\ Elapsed \subseteq 0 .. HALF - 1

VARIABLES
    timerl, timerh, timermatchl, timermatchh,
    mip,        \* pending interrupts
    mie,        \* enabled interrupts
    mstatus,    \* the bits MIE and MPIE
    pc, mepc, mcause

timer == <<timerl, timerh>>
timermatch == <<timermatchl, timermatchh>>
csrs == <<mip, mie, mstatus, mepc, mcause>>

Timer == 7
EnvironmentCall == 11

Word == 0 .. HALF - 1
Status == [MIE : BOOLEAN, MPIE : BOOLEAN]

(* A double word, as the programs see it.                                  *)
Time == timerh * HALF + timerl
Match == timermatchh * HALF + timermatchl

HartInit ==
    /\ timerl = 0 /\ timerh = 0
    /\ mip = {}
    /\ mepc = pc
    /\ mcause = 0

(* The timer has passed the compare value; a compare value of 0 is none.   *)
Expired(h, l) ==
    /\ \/ h > timermatchh
       \/ h = timermatchh /\ l > timermatchl
    /\ timermatchh # 0 \/ timermatchl # 0

(* The pending bit is set and never cleared again.                         *)
PendingSticky(h, l) == IF Expired(h, l) THEN mip \cup {Timer} ELSE mip

Pending(h, l) == IF Expired(h, l) THEN mip \cup {Timer} ELSE mip \ {Timer}

(* What enters the handler at vector, with next the instruction to return  *)
(* to.                                                                     *)
TrapTo(vector, cause, next) ==
    /\ mcause' = cause
    /\ mepc' = next
    /\ mstatus' = [MIE |-> FALSE, MPIE |-> mstatus.MIE]
    /\ pc' = vector

(* The start of a batch: time passes, and the interrupt may be taken.      *)
Batch(vector) ==
    \E elapsed \in Elapsed :
        LET l == (timerl + elapsed) % HALF
            h == IF l < timerl THEN (timerh + 1) % HALF ELSE timerh
            taken == mstatus.MIE /\ Timer \in Pending(h, l) \cap mie
        IN  /\ timerl' = l
            /\ timerh' = h
            /\ mip' = Pending(h, l)
            /\ IF taken THEN TrapTo(vector, Timer, pc)
                        ELSE UNCHANGED <<mcause, mepc, mstatus, pc>>
            /\ UNCHANGED <<timermatch, mie>>

-----------------------------------------------------------------------------
(* Instructions                                                            *)

Goto(label) == pc' = label

Ecall(vector) ==
    /\ TrapTo(vector, EnvironmentCall, pc)
    /\ UNCHANGED <<timer, timermatch, mip, mie>>

(* Returns with the enable bit as it is.                                   *)
MretStaysOff ==
    /\ pc' = mepc
    /\ mstatus' = [mstatus EXCEPT !.MPIE = TRUE]
    /\ UNCHANGED <<timer, timermatch, mip, mie, mepc, mcause>>

Mret ==
    /\ pc' = mepc
    /\ mstatus' = [MIE |-> mstatus.MPIE, MPIE |-> TRUE]
    /\ UNCHANGED <<timer, timermatch, mip, mie, mepc, mcause>>

(* csrrw, csrrs and csrrc, with the value that the register gets.          *)
WriteMstatus(value) ==
    /\ mstatus' = value
    /\ UNCHANGED <<timer, timermatch, mip, mie, mepc, mcause>>

WriteMepc(value) ==
    /\ mepc' = value
    /\ UNCHANGED <<timer, timermatch, mip, mie, mstatus, mcause>>

WriteMip(value) ==
    /\ mip' = value
    /\ UNCHANGED <<timer, timermatch, mie, mstatus, mepc, mcause>>

(* Stores to the compare value, a word each.                               *)
StoreMatchl(value) ==
    /\ timermatchl' = value
    /\ UNCHANGED <<timer, timermatchh, csrs>>

StoreMatchh(value) ==
    /\ timermatchh' = value
    /\ UNCHANGED <<timer, timermatchl, csrs>>

(* Anything else: registers and memory, which the modules above this have. *)
Plain == UNCHANGED <<timer, timermatch, csrs>>

================================================================================
