------------------------------- MODULE XinuKernel -------------------------------
(***************************************************************************)
(* The process manager of kernel.xinu: system/create.c, message.c,         *)
(* semcreate.c, signal.c and clkhandler.c over the process and semaphore   *)
(* tables, the ready list and the sleep list.                              *)
(*                                                                         *)
(* One processor.  A process runs user code until it makes a system call   *)
(* or the clock interrupts it.  A call that runs with interrupts disabled  *)
(* is one action up to the context switch it may make (resched() calling   *)
(* ctxsw()); what the call still has to do when its process gets the CPU   *)
(* back is kept in kont[p].  receive() and resume() have their disable()   *)
(* commented out: they are divided at every point where a clock interrupt  *)
(* can make a difference, and Unmasked says which of the two a run lets    *)
(* the clock interrupt.                                                    *)
(*                                                                         *)
(* Between actions Defer.ndefers is 0, so a section under DEFER_START is   *)
(* "make all of them ready, then reschedule once if there was one".  A     *)
(* process has a stack block exactly while its entry is not PR_FREE.       *)
(***************************************************************************)
EXTENDS XinuLists, FiniteSets

CONSTANTS
    NPROC,       (* entries of proctab; process 0 is the null process    *)
    NSEM,        (* entries of semtab                                    *)
    QUANTUM,     (* clock ticks of a time slice                          *)
    Prios,       (* priorities programs give to chprio()                 *)
    Delays,      (* delays programs give to sleepms()                    *)
    Waits,       (* delays programs give to recvtime()                   *)
    Counts,      (* counts programs give to the semaphore calls          *)
    Calls,       (* the system calls programs make                       *)
    Unmasked,    (* functions the clock may interrupt: receive, resume   *)
    MaxPrcount,  (* bound on prcount, which a failed create() leaks      *)
    MaxCount     (* bound on a semaphore's count                         *)

ASSUME KernelAssumption ==
    /\ NPROC \in Nat /\ NPROC >= 2
    /\ NSEM \in Nat
    /\ QUANTUM \in Nat \ {0}
    /\ \A k \in Prios : k \in Int
    /\ \A d \in Delays : d \in Nat \ {0}
    /\ \A d \in Waits \cup Counts : d \in Nat
    /\ MaxPrcount \in Nat /\ MaxCount \in Nat
    /\ Unmasked \subseteq {"receive", "resume"}

Pid  == 0 .. NPROC - 1
Sem  == 0 .. NSEM - 1
NULLPROC == 0

States == {"FREE", "CURR", "READY", "RECV", "SLEEP", "SUSP", "WAIT", "RECTIM"}

VARIABLES
    prstate, prprio, prsem, prparent, prhasmsg,  (* proctab[]            *)
    readylist,   (* [pid, key] entries in descending key order           *)
    sleepq,      (* [pid, key] entries, keys relative to the one before  *)
    sstate, scount, squeue,                      (* semtab[]             *)
    nextpid,     (* newpid(): where the search for a free entry starts   *)
    nextsem,     (* newsem(): the same                                   *)
    prcount,     (* number of live processes, as the kernel counts them  *)
    currpid,     (* the process that has the CPU                         *)
    preempt,     (* ticks left of the time slice                         *)
    kont,        (* what each process does next: user code or a call's   *)
                 (* remaining part, with the process it is about         *)
    inclk,       (* processes interrupted by the clock, their handler    *)
                 (* not yet finished                                     *)
    halted       (* xdone() has stopped the processor                    *)

msgs  == <<prhasmsg>>
sems  == <<sstate, scount, squeue, prsem>>
sched == <<prstate, readylist, currpid, preempt>>
ids   == <<nextpid, nextsem, prparent>>
vars  == <<sched, prprio, msgs, sleepq, sems, ids, prcount, kont, inclk, halted>>

User     == [at |-> "user", arg |-> NULLPROC]
Goto(at, p) == kont' = [kont EXCEPT ![currpid] = [at |-> at, arg |-> p]]
Return   == kont' = [kont EXCEPT ![currpid] = User]

(* After nulluser(): process 0, the null process, is ready and process 1,  *)
(* "start", has the CPU.                                                   *)
Init ==
    /\ prstate = [p \in Pid |-> CASE p = 0 -> "READY" [] p = 1 -> "CURR"
                                  [] OTHER -> "FREE"]
    /\ prprio = [p \in Pid |-> 0]
    /\ prsem = [p \in Pid |-> 0]
    /\ prparent = [p \in Pid |-> NULLPROC]
    /\ prhasmsg = [p \in Pid |-> FALSE]
    /\ readylist = <<Entry(NULLPROC, 0)>>
    /\ sleepq = <<>>
    /\ sstate = [s \in Sem |-> "FREE"]
    /\ scount = [s \in Sem |-> 0]
    /\ squeue = [s \in Sem |-> <<>>]
    /\ nextpid = 2 % NPROC /\ nextsem = 0
    /\ prcount = 2
    /\ currpid = 1
    /\ preempt = QUANTUM
    /\ kont = [p \in Pid |-> User]
    /\ inclk = {}
    /\ halted = FALSE

--------------------------------------------------------------------------------
(* The scheduler: what a call does to prstate, readylist, currpid and      *)
(* preempt, as a function of a record of the four.                         *)

Now == [st |-> prstate, rl |-> readylist, cur |-> currpid, pre |-> preempt]

Schedule(k) ==
    /\ prstate' = k.st /\ readylist' = k.rl
    /\ currpid' = k.cur /\ preempt' = k.pre

(* A bug: the CPU is kept on a tie.                                        *)
StaysTie(k) ==
    k.rl # <<>> /\ prprio[k.cur] >= Head(k.rl).key

(* resched() lets the current process go on: nothing ready is as urgent.   *)
Stays(k) ==
    k.rl # <<>> /\ prprio[k.cur] > Head(k.rl).key

(* "Force context switch to highest priority ready process."               *)
SwitchTo(k) ==
    LET new == Head(k.rl).pid
    IN  [st |-> [k.st EXCEPT ![new] = "CURR"], rl |-> Tail(k.rl),
         cur |-> new, pre |-> QUANTUM]

(* A process becomes ready, with its priority as the key.                  *)
Link(k, p) ==
    [k EXCEPT !.st[p] = "READY", !.rl = Insert(@, p, prprio[p])]

(* The current process goes back to the ready list.                        *)
Requeue(k) == Link(k, k.cur)

Resched(k) ==
    IF k.st[k.cur] # "CURR" THEN SwitchTo(k)
    ELSE IF Stays(k) THEN k
    ELSE SwitchTo(Requeue(k))

(* ready() without its resched().                                          *)
MakeReady(k, p) == IF k.st[p] = "FREE" THEN k ELSE Link(k, p)

Ready(k, p) ==
    IF k.st[p] = "FREE" THEN k ELSE Resched(MakeReady(k, p))

(* ready() of each of a sequence of processes between DEFER_START and      *)
(* DEFER_STOP.                                                             *)
ReadyAll(k, pids) ==
    LET after[n \in 0 .. Len(pids)] ==
            IF n = 0 THEN k ELSE MakeReady(after[n - 1], pids[n])
    IN  IF \E i \in DOMAIN pids : k.st[pids[i]] # "FREE"
        THEN Resched(after[Len(pids)]) ELSE k

(* The current process leaves the CPU in a waiting state.                  *)
Block(state) == Resched([Now EXCEPT !.st[currpid] = state])

--------------------------------------------------------------------------------
(* Who may take the next step.                                             *)

At(at) == ~halted /\ currpid \notin inclk /\ kont[currpid].at = at

(* The process that has the CPU makes a system call; the null process      *)
(* makes none.                                                             *)
Call(name) == At("user") /\ currpid # NULLPROC /\ name \in Calls

Target == kont[currpid].arg

(* Interrupts are enabled.                                                 *)
Interruptible ==
    \/ kont[currpid].at = "user"
    \/ /\ kont[currpid].at \in {"recv", "recvyield", "recvtake"}
       /\ "receive" \in Unmasked
    \/ /\ kont[currpid].at \in {"mark", "insert", "resched", "requeue"}
       /\ "resume" \in Unmasked

--------------------------------------------------------------------------------
(* Processes.                                                              *)

Live(p) == prstate[p] # "FREE"

(* newpid(): the first free entry from nextpid on, round the table.        *)
Newpid == CHOOSE p \in Pid :
    /\ ~Live(p)
    /\ \A q \in Pid : ~Live(q) => (p - nextpid) % NPROC <= (q - nextpid) % NPROC

(* create(); the priority it is given is not used.  prcount is raised even *)
(* if there is no free entry.                                              *)
Create ==
    /\ Call("create")
    /\ prcount < MaxPrcount
    /\ prcount' = prcount + 1
    /\ IF \A p \in Pid : Live(p)
       THEN UNCHANGED <<nextpid, prstate, prhasmsg, prparent>>
       ELSE /\ nextpid' = (Newpid + 1) % NPROC
            /\ prstate' = [prstate EXCEPT ![Newpid] = "SUSP"]
            /\ prhasmsg' = [prhasmsg EXCEPT ![Newpid] = FALSE]
            /\ prparent' = [prparent EXCEPT ![Newpid] = currpid]
    /\ UNCHANGED <<readylist, currpid, preempt, prprio, sleepq, sems, nextsem,
                   kont, inclk, halted>>

(* chprio(): the ready list is left as it is.                              *)
Chprio(p, newprio) ==
    /\ Call("chprio") /\ Live(p)
    /\ prprio' = [prprio EXCEPT ![p] = newprio]
    /\ UNCHANGED <<sched, msgs, sleepq, sems, ids, prcount, kont, inclk, halted>>

Yield ==
    /\ Call("yield")
    /\ Schedule(Resched(Now))
    /\ UNCHANGED <<prprio, msgs, sleepq, sems, ids, prcount, kont, inclk, halted>>

(* A bug: a ready process is suspended but stays on the ready list.        *)
SuspendKeepsReady(p) ==
    /\ Call("suspend") /\ p # NULLPROC
    /\ \/ p = currpid /\ Schedule(Block("SUSP"))
       \/ /\ prstate[p] = "READY"
          /\ prstate' = [prstate EXCEPT ![p] = "SUSP"]
          /\ UNCHANGED <<readylist, currpid, preempt>>
    /\ UNCHANGED <<prprio, msgs, sleepq, sems, ids, prcount, kont, inclk, halted>>

(* A bug: a process that waits for a message is suspended as well.         *)
SuspendWaiting(p) ==
    /\ Call("suspend") /\ p # NULLPROC
    /\ \/ prstate[p] = "CURR" /\ Schedule(Block("SUSP"))
       \/ /\ prstate[p] \in {"READY", "RECV"}
          /\ readylist' = Getitem(readylist, p)
          /\ prstate' = [prstate EXCEPT ![p] = "SUSP"]
          /\ UNCHANGED <<currpid, preempt>>
    /\ UNCHANGED <<prprio, msgs, sleepq, sems, ids, prcount, kont, inclk, halted>>

Suspend(p) ==
    /\ Call("suspend") /\ p # NULLPROC
    /\ \/ prstate[p] = "CURR" /\ Schedule(Block("SUSP"))
       \/ /\ prstate[p] = "READY"
          /\ readylist' = Getitem(readylist, p)
          /\ prstate' = [prstate EXCEPT ![p] = "SUSP"]
          /\ UNCHANGED <<currpid, preempt>>
    /\ UNCHANGED <<prprio, msgs, sleepq, sems, ids, prcount, kont, inclk, halted>>

(* sleepms() of a positive delay; of 0 it is yield().                      *)
Sleepms(delay) ==
    /\ Call("sleepms")
    /\ sleepq' = Insertd(sleepq, currpid, delay)
    /\ Schedule(Block("SLEEP"))
    /\ UNCHANGED <<prprio, msgs, sems, ids, prcount, kont, inclk, halted>>

--------------------------------------------------------------------------------
(* resume() and the ready() it calls, interrupts enabled throughout.       *)

Resume(p) ==
    /\ Call("resume") /\ prstate[p] = "SUSP"
    /\ Goto("mark", p)
    /\ UNCHANGED <<sched, prprio, msgs, sleepq, sems, ids, prcount, inclk, halted>>

ReadyMark ==
    /\ At("mark")
    /\ IF Live(Target)
       THEN /\ prstate' = [prstate EXCEPT ![Target] = "READY"]
            /\ Goto("insert", Target)
       ELSE Return /\ UNCHANGED prstate
    /\ UNCHANGED <<readylist, currpid, preempt, prprio, msgs, sleepq, sems, ids,
                   prcount, inclk, halted>>

ReadyInsert ==
    /\ At("insert")
    /\ readylist' = Insert(readylist, Target, prprio[Target])
    /\ Goto("resched", NULLPROC)
    /\ UNCHANGED <<prstate, currpid, preempt, prprio, msgs, sleepq, sems, ids,
                   prcount, inclk, halted>>

ReadyResched ==
    /\ At("resched")
    /\ IF Stays(Now)
       THEN Return /\ UNCHANGED prstate
       ELSE /\ prstate' = [prstate EXCEPT ![currpid] = "READY"]
            /\ Goto("requeue", NULLPROC)
    /\ UNCHANGED <<readylist, currpid, preempt, prprio, msgs, sleepq, sems, ids,
                   prcount, inclk, halted>>

ReadySwitch ==
    /\ At("requeue")
    /\ Schedule(SwitchTo(Requeue(Now)))
    /\ Return
    /\ UNCHANGED <<prprio, msgs, sleepq, sems, ids, prcount, inclk, halted>>

--------------------------------------------------------------------------------
(* Messages.                                                               *)

(* A bug: a message ends the timed wait but does not make its process      *)
(* ready.                                                                  *)
SendToNoTimed(p) ==
    IF ~Live(p) \/ prhasmsg[p]
    THEN UNCHANGED <<prhasmsg, sleepq, sched>>
    ELSE /\ prhasmsg' = [prhasmsg EXCEPT ![p] = TRUE]
         /\ sleepq' = IF prstate[p] = "RECTIM" THEN Unsleep(sleepq, p) ELSE sleepq
         /\ Schedule(IF prstate[p] = "RECV" THEN Ready(Now, p) ELSE Now)

(* send() to process p, which may be in a waiting state.                   *)
SendTo(p) ==
    IF ~Live(p) \/ prhasmsg[p]
    THEN UNCHANGED <<prhasmsg, sleepq, sched>>
    ELSE /\ prhasmsg' = [prhasmsg EXCEPT ![p] = TRUE]
         /\ sleepq' = IF prstate[p] = "RECTIM" THEN Unsleep(sleepq, p) ELSE sleepq
         /\ Schedule(IF prstate[p] \in {"RECV", "RECTIM"} THEN Ready(Now, p) ELSE Now)

Send(p) ==
    /\ Call("send")
    /\ SendTo(p)
    /\ UNCHANGED <<prprio, sems, ids, prcount, kont, inclk, halted>>

(* receive(), interrupts enabled throughout: look for a message ...        *)
Receive ==
    /\ Call("receive")
    /\ Goto(IF prhasmsg[currpid] THEN "recvtake" ELSE "recv", NULLPROC)
    /\ UNCHANGED <<sched, prprio, msgs, sleepq, sems, ids, prcount, inclk, halted>>

(* ... if there was none become PR_RECV ...                                *)
RecvState ==
    /\ At("recv")
    /\ prstate' = [prstate EXCEPT ![currpid] = "RECV"]
    /\ Goto("recvyield", NULLPROC)
    /\ UNCHANGED <<readylist, currpid, preempt, prprio, msgs, sleepq, sems, ids,
                   prcount, inclk, halted>>

(* ... and give up the CPU ...                                             *)
RecvYield ==
    /\ At("recvyield")
    /\ Schedule(Resched(Now))
    /\ Goto("recvtake", NULLPROC)
    /\ UNCHANGED <<prprio, msgs, sleepq, sems, ids, prcount, inclk, halted>>

(* ... and take the message.                                               *)
RecvTake ==
    /\ At("recvtake")
    /\ prhasmsg' = [prhasmsg EXCEPT ![currpid] = FALSE]
    /\ Return
    /\ UNCHANGED <<sched, prprio, sleepq, sems, ids, prcount, inclk, halted>>

Recvclr ==
    /\ Call("recvclr")
    /\ prhasmsg' = [prhasmsg EXCEPT ![currpid] = FALSE]
    /\ UNCHANGED <<sched, prprio, sleepq, sems, ids, prcount, kont, inclk, halted>>

Recvtime(maxwait) ==
    /\ Call("recvtime")
    /\ IF prhasmsg[currpid]
       THEN /\ prhasmsg' = [prhasmsg EXCEPT ![currpid] = FALSE]
            /\ UNCHANGED <<sleepq, sched, kont>>
       ELSE /\ sleepq' = Insertd(sleepq, currpid, maxwait)
            /\ Schedule(Block("RECTIM"))
            /\ Goto("timetake", NULLPROC)
            /\ UNCHANGED prhasmsg
    /\ UNCHANGED <<prprio, sems, ids, prcount, inclk, halted>>

(* recvtime() continues: "Either message arrived or timer expired".        *)
RecvtimeTake ==
    /\ At("timetake")
    /\ prhasmsg' = [prhasmsg EXCEPT ![currpid] = FALSE]
    /\ Return
    /\ UNCHANGED <<sched, prprio, sleepq, sems, ids, prcount, inclk, halted>>

--------------------------------------------------------------------------------
(* kill(), of another process or of the caller: exit() and the return from *)
(* a process's top-level function kill the caller.                         *)

(* What a program of this run may kill.                                    *)
MayKill(p) == Call("kill") \/ (p = currpid /\ Call("exit"))

(* A bug: the null process is not counted among those that are left.       *)
KillStopsEarly(p) ==
    /\ MayKill(p) /\ p # NULLPROC /\ Live(p)
    /\ prcount' = prcount - 1
    /\ Goto("kill", p)
    /\ IF prcount' <= 2
       THEN halted' = TRUE /\ UNCHANGED <<prhasmsg, sleepq, sched>>
       ELSE SendTo(prparent[p]) /\ UNCHANGED halted
    /\ UNCHANGED <<prprio, sems, ids, inclk>>

(* Up to the message to the parent, which may cost the caller the CPU.     *)
Kill(p) ==
    /\ MayKill(p) /\ p # NULLPROC /\ Live(p)
    /\ prcount' = prcount - 1
    /\ Goto("kill", p)
    /\ IF prcount' <= 1
       THEN halted' = TRUE /\ UNCHANGED <<prhasmsg, sleepq, sched>>
       ELSE SendTo(prparent[p]) /\ UNCHANGED halted
    /\ UNCHANGED <<prprio, sems, ids, inclk>>

(* A bug: the semaphore still counts the killed waiter.                    *)
LeaveListsCountKept(p) ==
    /\ readylist' = IF prstate[p] = "READY" THEN Getitem(readylist, p) ELSE readylist
    /\ sleepq' = IF prstate[p] \in {"SLEEP", "RECTIM"} THEN Unsleep(sleepq, p) ELSE sleepq
    /\ squeue' = IF prstate[p] = "WAIT"
                 THEN [squeue EXCEPT ![prsem[p]] = RemoveFirst(@, p)] ELSE squeue
    /\ UNCHANGED scount

(* The list the victim is on gives it up.                                  *)
LeaveLists(p) ==
    /\ readylist' = IF prstate[p] = "READY" THEN Getitem(readylist, p) ELSE readylist
    /\ sleepq' = IF prstate[p] \in {"SLEEP", "RECTIM"} THEN Unsleep(sleepq, p) ELSE sleepq
    /\ IF prstate[p] = "WAIT"
       THEN /\ squeue' = [squeue EXCEPT ![prsem[p]] = RemoveFirst(@, p)]
            /\ scount' = [scount EXCEPT ![prsem[p]] = @ + 1]
       ELSE UNCHANGED <<squeue, scount>>

(* After the message: the victim's memory and its place on a list are      *)
(* freed, going by the state it has now.                                   *)
KillRest ==
    /\ At("kill")
    /\ IF Target = currpid
       THEN /\ Schedule(Block("FREE"))
            /\ UNCHANGED <<sleepq, squeue, scount>>
       ELSE /\ prstate' = [prstate EXCEPT ![Target] = "FREE"]
            /\ LeaveLists(Target)
            /\ UNCHANGED <<currpid, preempt>>
    /\ kont' = [kont EXCEPT ![currpid] = User, ![Target] = User]
    /\ inclk' = inclk \ {Target}
    /\ UNCHANGED <<prprio, msgs, sstate, prsem, ids, prcount, halted>>

--------------------------------------------------------------------------------
(* Semaphores.                                                             *)

Used(s) == sstate[s] = "USED"

Newsem == CHOOSE s \in Sem :
    /\ ~Used(s)
    /\ \A r \in Sem : ~Used(r) => (s - nextsem) % NSEM <= (r - nextsem) % NSEM

Semcreate(count) ==
    /\ Call("semcreate") /\ \E s \in Sem : ~Used(s)
    /\ sstate' = [sstate EXCEPT ![Newsem] = "USED"]
    /\ scount' = [scount EXCEPT ![Newsem] = count]
    /\ nextsem' = (Newsem + 1) % NSEM
    /\ UNCHANGED <<sched, prprio, msgs, sleepq, squeue, prsem, nextpid, prparent,
                   prcount, kont, inclk, halted>>

Wait(s) ==
    /\ Call("wait") /\ Used(s)
    /\ scount' = [scount EXCEPT ![s] = @ - 1]
    /\ IF scount'[s] < 0
       THEN /\ prsem' = [prsem EXCEPT ![currpid] = s]
            /\ squeue' = [squeue EXCEPT ![s] = Append(@, currpid)]
            /\ Schedule(Block("WAIT"))
       ELSE UNCHANGED <<prsem, squeue, sched>>
    /\ UNCHANGED <<sstate, prprio, msgs, sleepq, ids, prcount, kont, inclk, halted>>

(* A bug: the last waiter is served instead of the first.                  *)
SignalLast(s) ==
    /\ Call("signal") /\ Used(s)
    /\ scount[s] < MaxCount
    /\ scount' = [scount EXCEPT ![s] = @ + 1]
    /\ IF scount[s] < 0
       THEN /\ squeue' = [squeue EXCEPT ![s] = Front(@)]
            /\ Schedule(Ready(Now, Last(squeue[s])))
       ELSE UNCHANGED <<squeue, sched>>
    /\ UNCHANGED <<sstate, prsem, prprio, msgs, sleepq, ids, prcount, kont, inclk,
                   halted>>

Signal(s) ==
    /\ Call("signal") /\ Used(s)
    /\ scount[s] < MaxCount
    /\ scount' = [scount EXCEPT ![s] = @ + 1]
    /\ IF scount[s] < 0
       THEN /\ squeue' = [squeue EXCEPT ![s] = Tail(@)]
            /\ Schedule(Ready(Now, Head(squeue[s])))
       ELSE UNCHANGED <<squeue, sched>>
    /\ UNCHANGED <<sstate, prsem, prprio, msgs, sleepq, ids, prcount, kont, inclk,
                   halted>>

(* The first n waiters of s leave and become ready, one reschedule for all.*)
Release(s, n) ==
    /\ squeue' = [squeue EXCEPT ![s] = SubSeq(@, n + 1, Len(@))]
    /\ Schedule(ReadyAll(Now, SubSeq(squeue[s], 1, n)))

Lesser(a, b) == IF a < b THEN a ELSE b

(* As many turns find a negative count as there are signals, or waiters.   *)
Signaln(s, count) ==
    /\ Call("signaln") /\ Used(s)
    /\ scount[s] + count <= MaxCount
    /\ scount' = [scount EXCEPT ![s] = @ + count]
    /\ Release(s, IF scount[s] < 0 THEN Lesser(count, -scount[s]) ELSE 0)
    /\ UNCHANGED <<sstate, prsem, prprio, msgs, sleepq, ids, prcount, kont, inclk,
                   halted>>

(* semdelete(): the loop's test raises the count once more than it finds   *)
(* waiters.                                                                *)
Semdelete(s) ==
    /\ Call("semdelete") /\ Used(s)
    /\ sstate' = [sstate EXCEPT ![s] = "FREE"]
    /\ scount' = [scount EXCEPT ![s] = IF @ < 0 THEN 1 ELSE @ + 1]
    /\ Release(s, IF scount[s] < 0 THEN -scount[s] ELSE 0)
    /\ UNCHANGED <<prsem, prprio, msgs, sleepq, ids, prcount, kont, inclk, halted>>

Semreset(s, count) ==
    /\ Call("semreset") /\ Used(s)
    /\ scount' = [scount EXCEPT ![s] = count]
    /\ Release(s, Len(squeue[s]))
    /\ UNCHANGED <<sstate, prsem, prprio, msgs, sleepq, ids, prcount, kont, inclk,
                   halted>>

--------------------------------------------------------------------------------
(* The clock.                                                              *)

(* What is left of the sleep list when a tick has been counted off it.     *)
Counted == IF sleepq = <<>> THEN <<>> ELSE [sleepq EXCEPT ![1].key = @ - 1]

(* How many processes wakeup() takes off the sleep list.  The handler      *)
(* calls it only when the first key has become exactly 0; all that follow  *)
(* with nothing left to wait go too.                                       *)
Due ==
    IF Counted # <<>> /\ Counted[1].key = 0
    THEN CHOOSE n \in DOMAIN Counted :
            /\ \A i \in 1 .. n : Counted[i].key <= 0
            /\ n < Len(Counted) => Counted[n + 1].key > 0
    ELSE 0

(* clkhandler() up to the end of wakeup(), which may switch.               *)
Tick ==
    /\ ~halted /\ currpid \notin inclk /\ Interruptible
    /\ sleepq' = SubSeq(Counted, Due + 1, Len(Counted))
    /\ Schedule(ReadyAll(Now, [i \in 1 .. Due |-> Counted[i].pid]))
    /\ inclk' = inclk \cup {currpid}
    /\ UNCHANGED <<prprio, msgs, sems, ids, prcount, kont, halted>>

(* Its rest, when the interrupted process has the CPU again.               *)
TickRest ==
    /\ ~halted /\ currpid \in inclk
    /\ Schedule(IF preempt = 1 THEN Resched([Now EXCEPT !.pre = QUANTUM])
                ELSE [Now EXCEPT !.pre = @ - 1])
    /\ inclk' = inclk \ {currpid}
    /\ UNCHANGED <<prprio, msgs, sleepq, sems, ids, prcount, kont, halted>>

--------------------------------------------------------------------------------
(* The rest of a call or an interrupt.                                     *)
Continue ==
    \/ ReadyMark \/ ReadyInsert \/ ReadyResched \/ ReadySwitch
    \/ RecvState \/ RecvYield \/ RecvTake \/ RecvtimeTake
    \/ KillRest
    \/ TickRest

SystemCall ==
    \/ Create \/ Yield \/ Receive \/ Recvclr
    \/ \E p \in Pid :
          \/ Resume(p) \/ Suspend(p) \/ Kill(p) \/ Send(p)
          \/ \E newprio \in Prios : Chprio(p, newprio)
    \/ \E delay \in Delays : Sleepms(delay)
    \/ \E maxwait \in Waits : Recvtime(maxwait)
    \/ \E s \in Sem : Wait(s) \/ Signal(s) \/ Semdelete(s)
    \/ \E count \in Counts :
          \/ Semcreate(count)
          \/ \E s \in Sem : Signaln(s, count) \/ Semreset(s, count)

Next == SystemCall \/ Continue \/ Tick

Spec == Init /\ [][Next]_vars

(* The processor does not stop in the middle of a call, and the timer      *)
(* keeps its interrupt pending until it is taken: a program may mask it    *)
(* again and again, but not each time it is unmasked.  Nothing is assumed  *)
(* of programs.                                                            *)
Fairness == WF_vars(Continue) /\ SF_vars(Tick)

LiveSpec == Spec /\ Fairness

--------------------------------------------------------------------------------
Konts == {"user", "mark", "insert", "resched", "requeue", "recv", "recvyield",
          "recvtake", "timetake", "kill"}

TypeOK ==
    /\ prstate \in [Pid -> States]
    /\ prprio \in [Pid -> Int]
    /\ prsem \in [Pid -> Int]
    /\ prparent \in [Pid -> Pid]
    /\ prhasmsg \in [Pid -> BOOLEAN]
    /\ readylist \in Seq([pid : Pid, key : Int])
    /\ sleepq \in Seq([pid : Pid, key : Int])
    /\ sstate \in [Sem -> {"FREE", "USED"}]
    /\ scount \in [Sem -> Int]
    /\ squeue \in [Sem -> Seq(Pid)]
    /\ nextpid \in Pid /\ nextsem \in Nat
    /\ prcount \in Int
    /\ currpid \in Pid
    /\ preempt \in 1 .. QUANTUM
    /\ kont \in [Pid -> [at : Konts, arg : Pid]]
    /\ inclk \subseteq Pid
    /\ halted \in BOOLEAN

(* Somebody has made p PR_READY and is about to link it.                   *)
Moving(p) ==
    \/ kont[currpid] = [at |-> "insert", arg |-> p]
    \/ p = currpid /\ kont[p].at = "requeue"

(* A process is on the one list its state names, once, and on no other:    *)
(* ready(), suspend() and kill() go by the state when they link and        *)
(* unlink.  Only inside ready() is the state ahead of the list.  With the  *)
(* types of the state.                                                     *)
StateNamesList ==
    /\ TypeOK
    /\ Once(readylist) /\ Once(sleepq) /\ \A s \in Sem : IsInjective(squeue[s])
    /\ \A p \in Pid :
          /\ p \in PidsOf(readylist) <=> prstate[p] = "READY" /\ ~Moving(p)
          /\ p \in PidsOf(sleepq) <=> prstate[p] \in {"SLEEP", "RECTIM"}
          /\ \A s \in Sem : p \in Range(squeue[s]) <=> prstate[p] = "WAIT" /\ prsem[p] = s
          /\ prstate[p] = "WAIT" => prsem[p] \in Sem

(* A negative count is the number of waiters, through signals, deletions,  *)
(* resets and kills of waiters: signal() takes a process off the queue     *)
(* whenever the count is negative, without looking at the queue.           *)
CountIsWaiters ==
    \A s \in Sem :
        Len(squeue[s]) = IF Used(s) /\ scount[s] < 0 THEN -scount[s] ELSE 0

(* receive() takes the message after yield() without looking at prhasmsg   *)
(* again: whoever gets there has one.                                      *)
ReceiveHasMessage == At("recvtake") => prhasmsg[currpid]

(* "Pass a message to a process and start recipient if waiting": a process *)
(* that waits for a message has none pending.                              *)
NoneWaitsWithMessage ==
    \A p \in Pid :
        prstate[p] \in {"RECV", "RECTIM"} /\ p # currpid => ~prhasmsg[p]

(* "PR_READY: process is on ready queue", or is about to be put there.     *)
ReadyIsListed ==
    \A p \in Pid : prstate[p] = "READY" =>
        \/ p \in PidsOf(readylist)
        \/ \E q \in Pid : kont[q] = [at |-> "insert", arg |-> p]
        \/ p = currpid /\ kont[p].at = "requeue"

(* The message p's own receive() has not seen, though it came first: only  *)
(* there, between the test and PR_RECV, can a process come to wait with a  *)
(* message pending.  Whoever else is sent one, in whatever state and by    *)
(* whomever, a killer's last words included, goes on to take it.           *)
InVain(p) == prstate[p] \in {"RECV", "RECTIM"} /\ prhasmsg[p]

LostOnlyInReceive ==
    [][\A p \in Pid : InVain(p)' => InVain(p) \/ (p = currpid /\ kont[p].at = "recv")]_vars

(* p has been told off from prcount, but its killer has not come to the    *)
(* end of kill().                                                          *)
Dying(p) == \E q \in Pid : kont[q] = [at |-> "kill", arg |-> p]

(* No process is killed that is being killed, or that is in the middle of  *)
(* killing another.                                                        *)
KillsApart ==
    \A p, q \in Pid :
        p # q /\ kont[p].at = "kill" /\ kont[q].at = "kill"
        => kont[p].arg \notin {q, kont[q].arg}

(* "All user processes have completed": as long as kills stay apart, when  *)
(* xdone() stops the processor everybody but the null process is gone, or  *)
(* being killed.                                                           *)
AllCompleted == halted => \A p \in Pid \ {NULLPROC} : ~Live(p) \/ Dying(p)

HaltsWhenDone == []KillsApart => []AllCompleted

(* "Awaken all processes that have no more time to sleep": after a tick no *)
(* process on the sleep list is overdue.                                   *)
NoneOverdue == \A n \in DOMAIN sleepq : Delay(sleepq, n) >= 0

(* Waiters are served in the order they came: a process leaves a semaphore *)
(* before one that came earlier only by being killed.                      *)
ServedInOrder ==
    [][\A s \in Sem : \A i \in DOMAIN squeue[s] : \A j \in 1 .. i - 1 :
          /\ squeue[s][i] \notin Range(squeue'[s])
          /\ prstate'[squeue[s][i]] # "FREE"
          => squeue[s][j] \notin Range(squeue'[s])]_vars

(* Among processes of one priority nobody starves: a ready process gets    *)
(* the CPU, or is suspended or killed, however programs call the kernel.   *)
ReadyRuns ==
    \A p \in Pid : (prstate[p] = "READY") ~> (prstate[p] # "READY" \/ halted)

(* Every sleep and every timed receive comes to an end.                    *)
SleepEnds ==
    \A p \in Pid : (prstate[p] \in {"SLEEP", "RECTIM"})
                       ~> (prstate[p] \notin {"SLEEP", "RECTIM"} \/ halted)

================================================================================
