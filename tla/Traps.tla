--------------------------------- MODULE Traps ----------------------------------
(***************************************************************************)
(* The kernel's lowest level on the emulated processor: the trap entry and *)
(* exit of boot.S, the dispatch of trap.c, the clock handler as far as it  *)
(* touches the timer and may switch, ctxsw.S, and the interrupt enable bit *)
(* as yield(), resume() and the assembly pass it on.  Which process is     *)
(* next is left open; XinuKernel has that part.                            *)
(*                                                                         *)
(* A label stands for the instructions up to the next one at which it      *)
(* matters that the clock interrupts.  A stack pointer is a process, whose *)
(* stack it points into, and a number of frames.                           *)
(***************************************************************************)
EXTENDS Hart, Sequences

CONSTANTS
    Procs,      \* the processes
    Null,       \* the one that bootstraps: it computes for ever
    Length,     \* a program is a loop of so many instructions
    Interval,   \* what clkhandler() asks clkupdate() for: 100
    Depth,      \* room for so many frames on a stack
    Beyond      \* interrupts that the kernel does not survive:
                \* "switch": while sp is not in the stack of currpid;
                \* "return": in a yield() that was called with interrupts
                \* disabled, and switched to by a resume() with them enabled

ASSUME TrapsAssumption ==
    /\ Null \in Procs
    /\ Length \in Nat \ {0}
    /\ Interval \in Nat
    /\ HALF + Interval < HALF * HALF
    /\ Depth \in Nat \ {0}
    /\ Beyond \subseteq {"switch", "return"}

VARIABLES
    currpid,
    prstkptr,   \* saved stack pointers
    stack,      \* the stacks' memory
    sp,
    reg,        \* registers: ra, a0 and a1 of ctxsw, the halves of a time
    at,         \* history: the next instruction of each process's program
    masked,     \* history: the processes that have interrupts disabled
    due         \* history: the compare value, when both its halves were set

swvars == <<currpid, prstkptr, stack, sp, reg>>
history == <<at, masked, due>>
vars == <<timer, timermatch, csrs, pc, swvars, history>>

-----------------------------------------------------------------------------
(* Labels: an instruction of a program, or a place in the kernel.          *)
User(i) == <<"user", i>>
At(place) == <<place, 0>>
Place == pc[1]
InUser == Place = "user"

(* The instruction that follows.                                           *)
After(i) == (i + 1) % Length

NoReg == [ra |-> At("none"), old |-> "none", new |-> "none", lo |-> 0, hi |-> 0]

Push(frame) ==
    /\ stack' = [stack EXCEPT ![sp.of] = SubSeq(@, 1, sp.n) \o <<frame>>]
    /\ sp' = [sp EXCEPT !.n = @ + 1]

Top == stack[sp.of][sp.n]

Pop ==
    /\ sp' = [sp EXCEPT !.n = @ - 1]
    /\ stack' = [stack EXCEPT ![sp.of] = SubSeq(@, 1, sp.n - 1)]

(* setupStack(): a new process begins its program with interrupts enabled. *)
NewContext == [kind |-> "switch", ra |-> User(0), status |-> [MIE |-> TRUE, MPIE |-> TRUE]]

(* The null process runs, the first compare value is set, interrupts are   *)
(* on.                                                                     *)
Init ==
    /\ currpid = Null
    /\ pc = User(0)
    /\ HartInit
    /\ mie = {Timer}
    /\ mstatus = [MIE |-> TRUE, MPIE |-> FALSE]
    /\ timermatchl = Interval % HALF
    /\ timermatchh = Interval \div HALF
    /\ prstkptr = [p \in Procs |-> [of |-> p, n |-> IF p = Null THEN 0 ELSE 1]]
    /\ stack = [p \in Procs |-> IF p = Null THEN <<>> ELSE <<NewContext>>]
    /\ sp = [of |-> Null, n |-> 0]
    /\ reg = NoReg
    /\ at = [p \in Procs |-> 0]
    /\ masked = {}
    /\ due = Interval

-----------------------------------------------------------------------------
(* What a program does: compute, disable and restore interrupts, make a    *)
(* system call, call yield() or resume().  Its calls return to the         *)
(* instruction after.                                                      *)

Calls == currpid # Null

Compute ==
    /\ InUser
    /\ Goto(User(After(pc[2])))
    /\ at' = [at EXCEPT ![currpid] = After(@)]
    /\ Plain
    /\ UNCHANGED <<swvars, masked, due>>

(* disable() and restore() around a piece of program.                      *)
Disable ==
    /\ InUser /\ Calls /\ mstatus.MIE
    /\ Goto(User(After(pc[2])))
    /\ WriteMstatus([mstatus EXCEPT !.MIE = FALSE])
    /\ at' = [at EXCEPT ![currpid] = After(@)]
    /\ masked' = masked \cup {currpid}
    /\ UNCHANGED <<swvars, due>>

Restore ==
    /\ InUser /\ Calls /\ ~mstatus.MIE
    /\ Goto(User(After(pc[2])))
    /\ WriteMstatus([mstatus EXCEPT !.MIE = TRUE])
    /\ at' = [at EXCEPT ![currpid] = After(@)]
    /\ masked' = masked \ {currpid}
    /\ UNCHANGED <<swvars, due>>

SystemCall ==
    /\ InUser /\ Calls
    /\ Ecall(At("trap"))
    /\ at' = [at EXCEPT ![currpid] = After(@)]
    /\ UNCHANGED <<swvars, masked, due>>

CallsOf(place) ==
    /\ InUser /\ Calls
    /\ Goto(At(place))
    /\ reg' = [reg EXCEPT !.ra = User(After(pc[2]))]
    /\ at' = [at EXCEPT ![currpid] = After(@)]
    /\ Plain
    /\ UNCHANGED <<currpid, prstkptr, stack, sp, masked, due>>

CallYield == CallsOf("yield")

(* resume() has its disable() commented out: resched() runs with the       *)
(* interrupts as its callers have them, enabled.                           *)
CallResume == mstatus.MIE /\ CallsOf("resume")

-----------------------------------------------------------------------------
(* yield(), resume(), resched() and ctxsw()                                *)

(* yield() keeps the return address and the old mstatus in its frame.      *)
Yield ==
    /\ Place = "yield"
    /\ sp.n < Depth
    /\ Push([kind |-> "call", ra |-> reg.ra, status |-> mstatus])
    /\ WriteMstatus([mstatus EXCEPT !.MIE = FALSE])
    /\ reg' = [reg EXCEPT !.ra = At("restore")]
    /\ Goto(At("resched"))
    /\ UNCHANGED <<currpid, prstkptr, history>>

Resume ==
    /\ Place = "resume"
    /\ sp.n < Depth
    /\ Push([kind |-> "call", ra |-> reg.ra, status |-> mstatus])
    /\ reg' = [reg EXCEPT !.ra = At("resumed")]
    /\ Goto(At("resched"))
    /\ Plain
    /\ UNCHANGED <<currpid, prstkptr, history>>

(* The current process stays, or currpid changes and then the stack does.  *)
ReschedStays ==
    /\ Place = "resched"
    /\ Goto(reg.ra)
    /\ Plain
    /\ UNCHANGED <<swvars, history>>

ReschedSwitches ==
    /\ Place = "resched"
    /\ \E next \in Procs :
          /\ currpid' = next
          /\ reg' = [reg EXCEPT !.old = currpid, !.new = next]
    /\ Goto(At("save"))
    /\ Plain
    /\ UNCHANGED <<prstkptr, stack, sp, history>>

(* Saves the stack pointer in the entry of the process that comes next.    *)
CtxswSaveInNew ==
    /\ Place = "save"
    /\ sp.n < Depth
    /\ Push([kind |-> "switch", ra |-> reg.ra, status |-> mstatus])
    /\ prstkptr' = [prstkptr EXCEPT ![reg.new] = sp']
    /\ Goto(At("load"))
    /\ Plain
    /\ UNCHANGED <<currpid, reg, history>>

CtxswSave ==
    /\ Place = "save"
    /\ sp.n < Depth
    /\ Push([kind |-> "switch", ra |-> reg.ra, status |-> mstatus])
    /\ prstkptr' = [prstkptr EXCEPT ![reg.old] = sp']
    /\ Goto(At("load"))
    /\ Plain
    /\ UNCHANGED <<currpid, reg, history>>

(* From the stack of the new process to its registers.  t0 and t2 are the  *)
(* return address and the status of its frame.                             *)
CtxswLoad ==
    /\ Place = "load"
    /\ LET new == prstkptr[reg.new]
           frame == stack[new.of][new.n]
       IN  /\ sp' = [new EXCEPT !.n = @ - 1]
           /\ stack' = [stack EXCEPT ![new.of] = SubSeq(@, 1, new.n - 1)]
           /\ reg' = [NoReg EXCEPT !.ra = frame.ra]
           /\ IF frame.status.MIE
              THEN /\ Goto(At("launch"))
                   /\ WriteMstatus([frame.status EXCEPT !.MIE = FALSE])
              ELSE /\ Goto(frame.ra)
                   /\ Plain
    /\ UNCHANGED <<currpid, prstkptr, history>>

CtxswLaunch ==
    /\ Place = "launch"
    /\ WriteMepc(reg.ra)
    /\ Goto(At("mret"))
    /\ UNCHANGED <<swvars, history>>

(* The end of yield() and of resume(): yield() restores mstatus.           *)
ReturnTo(frame) ==
    /\ Goto(frame.ra)
    /\ Pop
    /\ reg' = NoReg
    /\ UNCHANGED <<currpid, prstkptr, history>>

(* Enables interrupts, whatever they were.                                 *)
YieldEnables ==
    /\ Place = "restore"
    /\ WriteMstatus([Top.status EXCEPT !.MIE = TRUE])
    /\ ReturnTo(Top)

YieldRestores ==
    /\ Place = "restore"
    /\ WriteMstatus(Top.status)
    /\ ReturnTo(Top)

ResumeReturns ==
    /\ Place = "resumed"
    /\ Plain
    /\ ReturnTo(Top)

-----------------------------------------------------------------------------
(* Traps                                                                   *)

(* _trap saves registers, status and mepc; exceptionHandler() clears what  *)
(* is pending and goes by the cause.  A system call advances the saved pc. *)
TrapEntry ==
    /\ Place = "trap"
    /\ sp.n < Depth
    /\ Push([kind |-> "trap", status |-> mstatus, reg |-> reg,
             ra |-> IF mcause = EnvironmentCall THEN User(After(mepc[2])) ELSE mepc])
    /\ WriteMip({})
    /\ Goto(IF mcause = Timer THEN At("lo") ELSE At("exit"))
    /\ UNCHANGED <<currpid, prstkptr, reg, history>>

(* clkupdate() as compiled: two loads and two stores, low words first.     *)
ClkLo ==
    /\ Place = "lo"
    /\ reg' = [reg EXCEPT !.lo = timerl]
    /\ Goto(At("hi"))
    /\ Plain
    /\ UNCHANGED <<currpid, prstkptr, stack, sp, history>>

ClkHi ==
    /\ Place = "hi"
    /\ LET then == timerh * HALF + reg.lo + Interval
       IN  reg' = [reg EXCEPT !.lo = then % HALF, !.hi = (then \div HALF) % HALF]
    /\ Goto(At("setlo"))
    /\ Plain
    /\ UNCHANGED <<currpid, prstkptr, stack, sp, history>>

ClkSetLo ==
    /\ Place = "setlo"
    /\ StoreMatchl(reg.lo)
    /\ Goto(At("sethi"))
    /\ UNCHANGED <<swvars, history>>

(* The rest of clkhandler() may yield: a process woken, or the slice over. *)
ClkSetHi ==
    /\ Place = "sethi"
    /\ StoreMatchh(reg.hi)
    /\ reg' = [NoReg EXCEPT !.ra = At("exit")]
    /\ Goto(At("clock"))
    /\ due' = Match'
    /\ UNCHANGED <<currpid, prstkptr, stack, sp, at, masked>>

ClkRest ==
    /\ Place = "clock"
    /\ Goto(At("exit")) \/ Goto(At("yield"))
    /\ Plain
    /\ UNCHANGED <<swvars, history>>

(* The trap's return: mepc, then mstatus and the registers, then mret.     *)
ExitMepc ==
    /\ Place = "exit"
    /\ WriteMepc(Top.ra)
    /\ Goto(At("status"))
    /\ UNCHANGED <<swvars, history>>

ExitStatus ==
    /\ Place = "status"
    /\ WriteMstatus(Top.status)
    /\ reg' = Top.reg
    /\ Pop
    /\ Goto(At("back"))
    /\ UNCHANGED <<currpid, prstkptr, history>>

Back ==
    /\ Place = "back"
    /\ Mret
    /\ UNCHANGED <<swvars, history>>

Launched ==
    /\ Place = "mret"
    /\ Mret
    /\ UNCHANGED <<swvars, history>>

Instruction ==
    \/ Compute \/ Disable \/ Restore \/ SystemCall \/ CallYield \/ CallResume
    \/ Yield \/ Resume \/ ReschedStays \/ ReschedSwitches
    \/ CtxswSave \/ CtxswLoad \/ CtxswLaunch \/ YieldRestores \/ ResumeReturns
    \/ TrapEntry \/ ClkLo \/ ClkHi \/ ClkSetLo \/ ClkSetHi \/ ClkRest
    \/ ExitMepc \/ ExitStatus \/ Back \/ Launched

(* The clock of a run ends before it comes round, and the interrupts of    *)
(* Beyond are taken only if it has them.                                   *)
Fatal ==
    (IF Place \in {"save", "load"} THEN {"switch"} ELSE {}) \cup
    (IF Place = "restore" /\ ~Top.status.MIE THEN {"return"} ELSE {})

Elapse ==
    /\ Batch(At("trap"))
    /\ Time' >= Time
    /\ Time' + HALF + Interval < HALF * HALF
    /\ pc' # pc => Fatal \subseteq Beyond
    /\ UNCHANGED <<swvars, history>>

Next == Instruction \/ Elapse

Spec == Init /\ [][Next]_vars

Interrupted == Elapse /\ pc' # pc

(* The processor goes on, programs restore the interrupts they disable,    *)
(* and a batch ends, some time, where the interrupt is enabled, if it is   *)
(* again and again.                                                        *)
FairSpec == Spec /\ WF_vars(Instruction) /\ SF_vars(Restore) /\ SF_vars(Interrupted)

-----------------------------------------------------------------------------
Places == {"trap", "lo", "hi", "setlo", "sethi", "clock", "exit", "status", "back",
           "yield", "resume", "resched", "save", "load", "launch", "mret", "restore",
           "resumed", "none"}

Label == ({"user"} \X (0 .. Length - 1)) \cup (Places \X {0})

TypeOK ==
    /\ timer \in Word \X Word /\ timermatch \in Word \X Word
    /\ mip \subseteq {Timer} /\ mie = {Timer}
    /\ mstatus \in Status
    /\ pc \in Label /\ mepc \in Label
    /\ mcause \in {0, Timer, EnvironmentCall}
    /\ currpid \in Procs
    /\ sp \in [of : Procs, n : 0 .. Depth]
    /\ prstkptr \in [Procs -> [of : Procs, n : 0 .. Depth]]
    /\ reg.lo \in Word /\ reg.hi \in Word
    /\ due \in Nat

(* Each process runs on its own stack, whose pointer ctxsw() has saved in  *)
(* the process's own entry, at a context that ctxsw() can load.  Between   *)
(* the change of currpid and that of sp the stack is the old process's.    *)
(* However often it is interrupted, it has a call, a trap, the handler's   *)
(* call and a context on it at most.  With the types of the state.         *)
OwnStack ==
    /\ TypeOK
    /\ sp.of = IF Place \in {"save", "load"} THEN reg.old ELSE currpid
    /\ \A p \in Procs :
          /\ prstkptr[p].of = p
          /\ p # sp.of => stack[p][prstkptr[p].n].kind = "switch"
    /\ sp.n <= 4

(* A program does not notice what interrupts it or runs in between: it is  *)
(* at its next instruction, has interrupts as it has set them, and its     *)
(* stack as it left it.                                                    *)
Undisturbed ==
    InUser =>
        /\ pc = User(at[currpid])
        /\ mstatus.MIE <=> currpid \notin masked
        /\ sp = [of |-> currpid, n |-> 0]

(* The handler has been entered and has not set the next compare value.    *)
Handling == Place \in {"trap", "lo", "hi", "setlo", "sethi"} /\ mcause = Timer

Ticks == INSTANCE Ticker WITH
    Late <- {0, HALF},
    now <- Time,
    armed <- ~Handling

(* Over the two words of the timer and of the compare value, written one   *)
(* at a time, ticks are neither early nor double; one is late by a whole   *)
(* HALF if the low word comes round between the two loads of the clock.    *)
ImplementsTicker == Ticks!Spec

(* The interrupt is not missed: when its time has come the handler runs,   *)
(* whatever the programs mask and call.                                    *)
TickComes == (~Handling /\ Time > Match) ~> Handling

================================================================================
