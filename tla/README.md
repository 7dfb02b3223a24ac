# Verification of the Xinu kernel of riscv.emu

This directory holds TLA+ modules of the operating system kernel in
`src/kernel.xinu` (a port of Xinu to a single-hart RV32IMA machine), of the
machine in `src/mini-rv32ima` that the repository emulates to run it, and of two
of its programs, the shell and the Monkey language; TLC configurations that
check them on small instances; and proofs that TLAPS checks for every instance.

`PROJECT.json` is the index: it lists the components, the runs, for every
definition that models code the source lines it stands for, the hazards of the
code with the properties that guard against them, and for every property a
plausible bug of the code under which the property fails.

## 1. The system

### Components, their state and what makes them hard

| component | source | state | operations | hard part |
|---|---|---|---|---|
| queue table | `system/queue.c`, `include/queue.h` | `queuetab[]`: one array of entries with `qkey`, `qnext`, `qprev`; entry p < NPROC belongs to process p, two further entries (head, tail) to each list | enqueue, dequeue, getfirst, getlast, getitem, insert, insertd, newqueue | no operation checks that a process is on a list, or on one only; the scan of insert has no end test; insertd and unsleep split and merge relative delays |
| process manager | `system/create.c`, `include/process.h` | `proctab[]` (state, priority, parent, semaphore, message slot), `currpid`, `prcount`, `readylist`, `Defer` | create, resume, suspend, yield, chprio, kill, exit, sleep, sleepms, ready, resched, wakeup, unsleep | a context switch inside a call; resume runs with interrupts enabled; kill goes by state it read before a switch |
| messages | `system/message.c` | `prhasmsg`, `prmsg` of each process: a slot for one message | send, receive, recvclr, recvtime | receive runs with interrupts enabled; message and time-out race in recvtime |
| semaphores | `system/semcreate.c`, `system/signal.c`, wait in `create.c` | `semtab[]`: state, count, queue | semcreate, wait, signal, signaln, semdelete, semreset, semcount | count and queue are two records of one fact, changed in nine places |
| clock | `system/clkhandler.c`, `clkinit.c`, `interrupt.c` | `sleepq`, `preempt`, `count1000`, `clktime` | clkhandler | an interrupt that may switch in the middle of its own handler |
| initialisation | `system/inicialize.c`, `boot.S` | | nulluser, sysinit | |
| traps and system calls | `system/trap.c`, `syscall.c`, `boot.S`, `intr.S`, `ctxsw.S` | frames on the processes' stacks, saved stack pointers, `mstatus`, the timer's compare register | trap entry and return, exceptionHandler, do_syscall, ctxsw, clkupdate | an interrupt at any instruction of a context switch; a 64-bit clock read and set in halves; two ways to leave a switch |
| heap | `lib/malloc.c` | `free_blocks`, `heap_end`, headers in memory | malloc, free, heap_init, realloc, calloc, heap_free | splitting and merging by address arithmetic on sizes that count the header in two ways; no limit; a double free is not always noticed |
| terminal driver | `device/tty/` | input and output rings, two semaphores that count characters and slots, the cursor of the line being edited | read, write, getc, putc, control, both interrupt handlers | rings shared with the interrupt handlers; `signaln()` in the middle of a handler; writers that are preempted or killed between taking a slot and filling it |
| namespace device | `device/nam/` | prefix table | mount, open, map | bounded rewriting |
| shell | `shell/` | the line, its tokens, `child`, one message slot | lexan, main loop, built-in commands, jobs | waiting for a child by a message that may be late, early or another's, with process ids used again |
| file system | `littlefs/` | vendored `lfs.c`; `littlefs.c` with one static file and directory | open, read, write, close | one file for all processes |
| Monkey | `monkey/` | syntax tree, byte code, symbol tables; stack and frames of the virtual machine | parse, compile, run | the compiler patches jumps it has already emitted and deletes instructions; the machine checks nothing |
| emulator | `src/mini-rv32ima/` | registers, CSRs, timer and compare value | step | when the timer interrupt is taken; the compare value is two words |
| earlier kernel | `src/kernel.0/` | pointer queues | | superseded |

A process calls the kernel directly (the `ecall` table of `syscall.c` is mostly
stubs). A call that blocks changes the caller's `prstate` and calls
`resched()`, which takes the first entry of the ready list and switches with
`ctxsw()`; the call continues after that when its process is next given the
CPU. The timer interrupt enters `exceptionHandler()` on the stack of the
running process and calls `clkhandler()`, which counts down the first sleeper,
wakes those that are due, and counts down the time slice; both may switch. Most
calls are bracketed by `disable()` and `restore()`. `receive()` and `resume()`
are not: there the brackets are commented out.

### What makes it correct

* `queuetab` is a set of doubly linked lists, whatever the order of calls; the
  ready list is sorted, the sleep list holds non-negative relative delays.
* A process is on the one list that its `prstate` names and on no other.
* A negative semaphore count is the number of processes on its queue; waiters
  are served in order.
* A sleeper wakes at the tick it asked for.
* A process waiting for a message has none pending, and `receive()` never takes
  a message that is not there.
* A ready process gets the CPU in the end, a sleep ends, and the processor is
  halted only when all user processes are done.
* Chunks of the heap never overlap, each is free or in use and not both, none
  of the memory is lost, and a caller that keeps to what it asked for cannot
  damage the chain of free chunks.
* A character typed is delivered once, in order, and the screen shows the line
  it belongs to; characters written leave the machine in the order in which
  they were stored, and a writer that waits for room gets it.
* A process finds its registers, its stack and its interrupt enable bit as it
  left them, whatever interrupted it; ticks come, one per interval.
* The shell goes on only when its foreground job is gone, and does go on.
* A Monkey program computes what its text says, with a balanced stack.

## 2. The modules

| module | what it is |
|---|---|
| `XinuLists` | the kernel's lists as sequences of `[pid, key]`: what insert, insertd, getitem and unsleep do to a list |
| `QueueSpec` | abstract specification: one ready list, one sleep list, a queue per semaphore, each operation one step |
| `QueueTab` | `queuetab[]` as the code has it, link by link, with the loops of insert, insertd and wakeup step by step, and the mapping of its links to the lists of `QueueSpec` |
| `MCQueueTab` | the VIEW of `QueueTab` for TLC: the part of the table still to be read |
| `QueueTab_proofs` | the TLAPS proofs about `QueueTab` |
| `XinuKernel` | processes, messages, semaphores and clock over the lists of `XinuLists` |
| `XinuLists_proofs` | what the operators of `XinuLists` do to the processes on a list and to their delays, proved |
| `XinuKernel_proofs` | the TLAPS proofs about `XinuKernel` and its mapping to `AlarmClock` |
| `AlarmClock` | abstract specification of the sleep list: a countdown per process |
| `MCXinuKernel` | the mapping from `XinuKernel` to `AlarmClock`, and the VIEW for TLC |
| `Allocator` | abstract specification of `Heap`: who holds which bytes |
| `Heap` | `malloc()` and `free()` over headers in memory and the chain of free chunks |
| `Heap_proofs` | the TLAPS proofs about `Heap` |
| `LineInput` | abstract specification of terminal input: an edited line and a queue of characters |
| `TtyIn` | the input half of the terminal driver |
| `TtyIn_proofs` | the TLAPS proofs about `TtyIn` |
| `TtyOut` | the output half of the terminal driver |
| `TtyOut_proofs` | the TLAPS proofs about `TtyOut` |
| `Ticker` | abstract specification of the timer as the kernel wants it |
| `Hart` | the emulated processor: timer, pending and enabled interrupts, traps, mret |
| `Traps` | trap entry, dispatch, system calls, clock handler and context switch on `Hart` |
| `Traps_proofs` | the TLAPS proofs about `Traps` |
| `Lexan` | the shell's lexical analyser, and a reference automaton |
| `Shell` | the shell's main loop, its jobs and their messages |
| `Shell_proofs` | the TLAPS proofs about `Shell` and `Lexan` |
| `MonkeyAst` | the syntax trees of Monkey |
| `MonkeyParser` | the recursive-descent parser, and the texts of programs |
| `MonkeyCompiler` | byte code, jumps and symbol tables |
| `MonkeyEval` | reference: what a program means, by recursion on its syntax |
| `MonkeyVM` | the virtual machine, one action per instruction |
| `MCMonkey` | the programs it is checked with |

The two levels of the kernel meet in `XinuLists`: `XinuKernel` uses its operators as the
effect of a list operation, `QueueSpec` states those operators as the steps of
an abstract list, and `QueueTab` is checked, and proved, to implement `QueueSpec`.

### QueueTab

`qnext`, `qprev` and `qkey` are the fields of `queuetab[]`. `pc`, `arg`, `key`,
`curr` and `prev` are the locals of the function whose loop is running
(`curr` is `next` in insertd). `on[p]` is a history variable: the list the
callers have put p on. The code has no such field. The actions' guards use it
for the callers' duties: only a process on no list is linked, only one on a
list is unlinked. That the callers meet this duty is `StateNamesList` of
`XinuKernel`, which is proved. One more duty is that delays are positive; `recvtime(0)` breaks
it, see the divergences below.

Lists stand where `newqueue()` puts them: `clkinit()` allocates the sleep list,
`sysinit()` one list per semaphore and then the ready list. `GetitemPid(p)` and
`UnsleepPid(p)` are `getitem()` and `unsleep()` on the table; `Getitem` and
`Unsleep` of `XinuLists` are what they do to a list.

The mapping to `QueueSpec` reads a list off the links: `Trail(q)` is where the
links lead from a head, one link at a time, `Members(q)` the processes it comes
through before anything else, `Keyed(q)` these with their keys. None of the three
looks at the history variable, so that what the table holds is decided by the
links alone. `Trail` stays at the first entry that is no process, and `NPROC + 1` links are
always enough to get there; that they are is part of what is proved.

### XinuKernel

State variables are the fields and globals of the same name: `prstate`,
`prprio`, `prsem`, `prparent`, `prhasmsg`, `readylist`, `sleepq`, `sstate`,
`scount`, `squeue`, `nextpid`, `nextsem`, `prcount`, `currpid`, `preempt`.
Three more stand for the machine:

* `kont[p]`, what p does next: user code, or the rest of a call that was cut
  off by a context switch or can be interrupted at that point;
* `inclk`, the processes interrupted by the clock whose handler has not
  finished. `Tick` is `clkhandler()` up to the end of `wakeup()`, which may
  switch; `TickRest` is the time slice, run when the process has the CPU again;
* `halted`, the endless loop of `xdone()`.

A call with interrupts disabled is one action up to the context switch it may
make. Nothing can be interleaved with it: there is one hart and no other
interrupt changes this state. `resched()`, `ready()` and the deferral are
operators on a record of `prstate`, `readylist`, `currpid`, `preempt` (`Resched`,
`Ready`, `ReadyAll`). `kill()` is two actions because the message to the parent
may switch. `receive()` and `resume()` are one action per point at which a clock
interrupt makes a difference, and `Unmasked` says which of them the clock can
interrupt in a run. The code corresponds to `{"receive", "resume"}`.

Left out: the contents of messages, stacks and descriptors of processes, the
seconds counter, and the calls that only read (getpid, getprio, semcount). A
failing call that changes nothing is no action; one that does, `create()` with
the table full, which has already raised `prcount`, is. `xdone()` is entered
with interrupts off and stops everything.

Initial state: process 0, the null process, is ready; process 1, "start", has
the CPU. This is what the bootstrap at `inicialize.c:151` to 169 leaves. At this
commit `nulluser()` first calls `main()`, a demonstration, and an endless loop
precedes the bootstrap (`inicialize.c:145` to 149); the model starts from the
bootstrap, without which there are no processes.

### Heap

`heap_end` and the chain `free_blocks` are those of `malloc.c`; `size` maps
each chunk's address to the size in its header. A chunk that has been merged
into another is no longer in `size`: its header is now part of the other's
memory. `used` is a history variable, the pointers callers hold and what they
asked for. Both functions run with interrupts disabled, so each call is one
action: `MallocReuse` takes the first chunk of the chain that is large enough
and, if it is larger by more than 64, gives the rest to `free()` (`Split`);
`MallocGrow` takes memory from the end of the heap; `Free` is `free()`.
`FreeChunk` is the search for a neighbour and the two merges as an operator,
because `malloc()` calls it too. The numbers (8 bytes of header, alignment 4,
split at 64) are those of the code.

Callers are assumed to free what they hold, once. The kernel does so except
where a process is killed twice (see the divergences), whose stack is then freed twice.

`Heap` and `XinuKernel` are not composed: the kernel's calls free and allocate
with interrupts off, and no decision of theirs depends on an address.

### TtyIn and LineInput

`tyibuff`, `tyihead`, `tyitail`, `tyicursor`, `tyimode` and `tyiecho` are the
driver's; `icount` and `iwait` are the semaphore `tyisem`, with the promise that
`CountIsWaiters` and `ServedInOrder` of `XinuKernel` establish for it. A key is
one action, the receive interrupt with all of its branches: in cooked mode a
character, erase, kill, end of file, newline; in the others a character. A
newline is two actions because `signaln()` may switch before the handler's last
assignment, which clears the cursor; `suspended` is true between them. A call of
`ttygetc()` is one action from its start, or from where `wait()` returns, to its
end. `screen` is what `eputc()` has shown since the last newline.

`lost` is a history variable: why the driver has lost a character. It is set
where the code loses one (a full ring, a change of mode with a line unfinished,
a key between `signaln()` and the clearing of the cursor, end of file stored at
the end of the ring), and the model stops there. `LineInput` is the same
terminal with neither ring nor pointers nor semaphore; `ImplementsLineInput` maps
the ring's characters between head and cursor to its queue.

At this commit nothing calls the receive interrupt's handler (`trap.c` prints a
line for external interrupts, and the shell polls the UART itself); it is
modelled as the driver has it, with keys from outside.

### TtyOut

`tyobuff`, `tyohead`, `tyotail`, `ocount`, `owait` are the ring and the
semaphore `tyosem`. `putc()` and `write()` mask interrupts, but `ttykickout()`
unmasks them whatever they were, so all of a call after its first character is
open to the clock: `at[p]` is the place in `ttyputc()` where writer p is, one
place per load or store of the tail. `Kick` is `ttykickout()`, which runs
`ttyhandle_out()`: the UART has room for one character, and one slot is given
back. `due` is a history variable, the characters stored and not yet sent. A
killed writer disappears where it is.

`Beyond` names losses after which the model goes on. It is empty in the run:
the model stops when two writers load the same tail, or a writer is killed with
a slot it has taken and not filled.

### Hart, Traps and Ticker

`Hart` is the processor: the timer and its compare value as two words of
`HALF` values each, pending and enabled interrupts, the two bits of `mstatus`
that matter, and the three ways `pc` changes at a trap. The emulator looks at
the timer between batches of instructions; here a batch may end after any.

`Traps` runs three processes on it. `pc` is a label of a program or a place in
the kernel, from one instruction at which an interrupt matters to the next. The
trap entry pushes a frame on the stack that `sp` points into, the clock handler
reads the time in two halves, sets the compare value in two halves, and may call
`ctxsw()`, which saves and restores through `prstkptr`. `masked`, `at` and `due`
are history: which processes have asked for interrupts off, how far each is in
its program, and the compare value as a whole.

`Ticker` says what the kernel wants of the timer; `Late` holds the delays that
reading the clock in two halves can add: one overflow of the low word.

### Lexan, Shell

`Lexan` is the analyser of a line as the code has it, each inner loop as the
first place of a set of characters; `LexRef` is an automaton that reads one
character at a time. In `Shell`, `at` is the place in the main loop; `job[p]` is
the state of the process with id p and `fore[p]` (history) whether the shell
started it in the foreground; `prhasmsg` and `prmsg` are the shell's own
message slot. A job ends in two actions, because the message inside `kill()` may
give the CPU to the shell before the entry of the process table is free.
`missed` (history) records that the message of the job waited for was dropped.
Commands are three: one that computes in a process of its own, and the built-in
`kill` and `exit`; the others print.

### Monkey

`MonkeyParser` has one operator per function of `parser.c`; a parser is the
tokens, a place and whether it has met nothing it does not expect. Beside it,
`BlockText` prints a tree with the parentheses and semicolons that the grammar
needs, or with all of them. `MonkeyCompiler` has one operator per case of
`compile_expression()` and `compile_statement()`; code is cells in byte
positions, so that jumps, the patching of `break` and `continue` and the removal of a
last POP are what they are in the code. `MonkeyVM` is `vm_run()`, one action per
instruction. `MonkeyEval` is the reference and knows none of this.

`MCMonkey` holds 948 programs: every loop of a set of bodies with branches, every
loop in a loop, functions that return from anywhere, recursions, and operators in
one another. It leaves out programs for which the compiler is known to go wrong;
these are listed among the divergences.

## 3. The runs

| run | states | checks | shows |
|---|---|---|---|
| `queue` | 35,310 | TypeOK, LinksConsistent, ReadySorted, SleepKeysNatural, NoneDue, ImplementsLists | the table is well formed and implements the abstract lists |
| `kernel` | 1,320,646 | StateNamesList, ReceiveHasMessage, LostOnlyInReceive | all calls but the semaphores', two priorities, receive() interruptible |
| `kernel_sem` | 1,086,020 | CountIsWaiters, ServedInOrder | two semaphores, four processes, kills of waiters |
| `kernel_sleep` | 911,893 | SleepsExactly, HaltsWhenDone | sleeps, timed receives and kills: nobody early, nobody late, no halt before all are done |
| `kernel_live` | 6,643 | ReadyRuns, SleepEnds | liveness with programs that do what they like, kill others included |
| `heap` | 180,948 | TypeOK, FreeOrInUse, ChunksApart, HeadersIntact, NothingLost, ImplementsAllocator | the heap stays a row of chunks and implements the allocator |
| `tty_in` | 552,766 | RingAgrees, ScreenShowsLine, ImplementsLineInput | three modes, a reader and a process that peeks: the ring is a line editor |
| `tty_out` | 171,892 | SlotsAccounted, SendsOldest, WriterServed | three preempted and killed writers: no slot and no order is lost |
| `machine` | 331,040 | OwnStack, Undisturbed, ImplementsTicker, TickComes | interrupts at any instruction of traps and switches: stacks, masks and ticks |
| `shell` | 519,088 | TypeOK, LexanAgrees, JobDone, WaitEnds | every line of four characters, jobs that end, are killed and have their ids used again |
| `monkey` | 38,833 | ParserAgrees, JumpsLand, StackBalanced, ValueAgrees, Halts | 948 programs printed, parsed, compiled and run, against the evaluator |
| `recv_race` | violation | NoneWaitsWithMessage | see findings |

### Bounds, and why they are enough

* `NPROC` is 3 or 4 (10 in the code). With four processes a list has a first,
  a middle and a last entry beside the one being inserted or removed, three
  sleepers can be due at once, and a semaphore has three waiters. Three
  suffice where lists are not the point: a caller, a victim and the null
  process. In `shell` four give the shell two jobs, so that an id is used again
  while the other still runs.
* `QUANTUM` is 1 or 2 (10 in the code): 2 distinguishes a slice that is used
  up from one that is not, 1 makes every tick end one.
* Priorities 0 and 1: one tie, one order. The code never sets a priority other
  than by `chprio()`, create() ignores its argument.
* Delays up to 3 ticks: a delta list can have three different entries, and an
  entry can be split twice.
* `MaxPrcount` bounds the leak of `prcount` by failed creates, `MaxCount` the
  count of a semaphore. Both are guards of `Create`, `Signal` and `Signaln`.
* Requests of 40, 100 and 200 bytes and a heap of 422: a chunk of 200 can be
  split for 40 or 100, its rest of 100 again for a 40, and chunks are freed in
  orders that merge to the left, to the right and not at all. `MaxHeap` is a
  guard of `MallocGrow`; the code has no such limit.
* A ring of 3 for input and of 2 for output: both wrap, fill and run empty, and
  three writers meet on two slots. One reader and one peeker: what two readers
  do to each other is the semaphore's.
* `HALF` of 3 values: the low word of the timer overflows every third tick.
  Time adds 0 or 1 per instruction, `Interval` is 1, so that a tick may come
  during the handling of the last. `Length` 2 is a program with one instruction
  after the other. `Depth` 6 frames is more than any reachable stack holds.
* Lines of up to four of seven characters: every pair of tokens, quotes that
  contain blanks and quotes that do not end; `MAXTOK` 2 so that a line can have
  too many.
* Programs of Monkey: see `MCMonkey` above. `MaxStack` 16 is more than any of
  them needs.
* `VIEW` in five runs identifies states that differ only in values that are
  written before they are next read (fields of free entries, links of entries
  on no list, slots of the ring nobody has filled).
* Deadlock is checked in `queue` and not in the others: a halted processor is
  meant to stop, callers need not allocate, a program of Monkey ends, and the terminal stops
  where `lost` is set.

### What the passing runs leave out

The passing runs keep the clock out of `resume()` (`Unmasked` never contains
"resume" there), so what they establish is the kernel with `resume()` masked, as
all calls but `receive()` are. `kernel`, where messages are the subject, has the
clock at every point of `receive()`, the one that `recv_race` uses among them; the
other three keep it out of there as well, and the theorems of section 4 allow it for
their safety properties. `HaltsWhenDone` says something as long as kills stay
apart (`KillsApart`). The first divergences below show what happens without these.
The terminal runs end where a character is lost, the `machine` run leaves out two
interrupts the kernel does not survive (`Beyond`), and the programs of `monkey` are
those the compiler is written for.

### Fairness

`LiveSpec` of `XinuKernel` assumes two things of the machine and nothing of
programs, which may compute for ever or call the kernel in any order:

* `WF(Continue)`: a processor that is in the middle of a call or an interrupt
  goes on with it;
* `SF(Tick)`: the timer's interrupt is taken at some time if interrupts are
  enabled again and again. The comparison `mtime >= mtimecmp` keeps the
  interrupt pending until `clkhandler()` sets a new compare value, so it is
  taken at the next instruction with interrupts enabled. Weak fairness would
  not do: a program that makes calls disables interrupts over and over.

`SF(Tick)` is what `TickComes` of `Traps` checks, from less: `WF` of the
processor's next instruction, `SF` of a program restoring the interrupts it has
disabled, and `SF` of a batch ending at some time where interrupts are enabled and time having
passed. `Shell` has `WF(WaitStep)`, which is `ReadyRuns` for the shell's
process; nobody has to type and no job has to end. `TtyOut` has strong fairness
for each writer's steps, which is `ReadyRuns` again.
`MonkeyVM` has weak fairness of its loop.

### Findings

1. **`recv_race`** `receive()` (`message.c:15`) tests for a message and sets
   `PR_RECV` with interrupts enabled. A message sent between the two does not
   wake the receiver, and no later one can be sent to it.

### Divergences

What follows was met while modelling. Where a run can be made to show it, the
change of constants is given; the properties named here are defined in the
modules and stay out of the runs.

*Kernel.*
* `resume()` (`create.c:525`) runs `ready()` and `resched()` with interrupts
  enabled. A clock interrupt after `prstate = PR_READY` and before `insert()`
  makes a process that is ready and on no list: `ReadyIsListed` with
  `Unmasked = {"resume"}`.
* `kill()` (`create.c:249` to 253) counts the victim as gone before a message to
  the parent that may cost it the CPU, so that others run before it has finished.
  A second kill of the same victim counts it again. A kill of the killer means that
  the first never finishes: its victim lives on, counted by nobody. In either case
  the processor is later halted with "All user processes have completed" while one
  is alive: `AllCompleted` as an invariant with four processes and the calls create,
  resume, receive and kill. These two are what `KillsApart` excludes, and
  `HaltsWhenDone` with `KillsApart` excluding only one of them is violated as well.
* `recvtime(0)` (`message.c:70`) makes an entry with key 0, which `clkhandler()`
  decrements to -1; its test is for exactly 0, so the process is not woken:
  `NoneOverdue` with `Waits = {0}`.
* `malloc()` stores in the header of a chunk from the end of the heap a size
  that includes the header; `free()` adds the header again when it looks for a
  neighbour (`malloc.c:285` and 292). Such chunks never merge, only the parts of
  a chunk that was split do: `AdjacentMerge` with requests of 40 and 200.
* `malloc()` never refuses, though `heap_free()` counts what is left; a double
  free of the last chunk of the chain is not noticed (`malloc.c:275`).
* `create()`: `saddr += ssize` on a pointer to words puts the stack's top three
  stack sizes beyond its block (`create.c:76`, 140); a failing `newpid()` leaves
  `prcount` one too high (`create.c:110`); `prparent` may be an id that another
  process now has (`create.c:253`).

*Machine.*
* `clkupdate()` reads the two halves of the time one after the other
  (`interrupt.c:30`): an overflow between them makes the next tick late by a
  whole low word. `Ticker` allows it by `Late`.
* An interrupt in `resched()` between the change of `currpid` and the change of
  stacks (`create.c:594`), possible only after `resume()` as above, saves the
  wrong stack pointer: `Beyond = {"switch"}`.
* `ctxsw.S:94` does not restore `mstatus` when it returns by `ret`: a process
  that called `yield()` with interrupts disabled may find them enabled:
  `Beyond = {"return"}`, with `HALF = 4`.
* Some system calls do not advance the saved `pc` (`syscall.c:239`).

*Terminal.*
* The two input losses `lost` names "cursor" and "mode", and end of file at the
  end of the ring (`ttyhandle_in.c`). "cursor" takes not only characters: an end
  of file typed on a new line is dropped as one in the middle of a line is
  (`ttyhandle_in.c:149`), as long as the cursor of the line before is not cleared.
* The output's "tail" race, by which two
  characters get one slot (`Beyond = {"tail"}` and `SendsOldest`), which exists
  because `ttykickout.c:18` enables interrupts unconditionally.
* `ttycontrol.c:27`: `TC_NEXTC` reads at the tail, not at the head.
* The echo ring is never filled, and the loop that would empty it advances the
  wrong head (`ttyhandle_out.c:43`).

*Shell.*
* The arguments of a background job are pointers into the shell's own buffers,
  which the next line overwrites (`shell.c:272`); a full line is ended one byte
  past its buffer (`shell.c:197`).

*Monkey.*
* The compiler takes the last instruction of a branch of an `if` for its value:
  a branch that is empty or ends in a statement without a value leaves the stack
  unbalanced. `break` and `continue` jump over operands that wait on the stack.
  `return` outside functions, `break` in a function inside a loop, names defined
  again in an inner scope, and variables of an enclosing function are not
  compiled to what they mean.
* `DIVIDE` and `MODULO` are compiled and the machine's cases for them are
  commented out (`vm.c:141`), though `usr/test.monkey` uses them.
* `!` of a number is true when it is not above zero, `if` takes every number for
  true; `and` and `or` evaluate both sides.
* Not checked: the number of arguments, the depth of frames (256) and of scopes
  (64), the number of constants (`compiler.c:109`), an assignment beyond the end
  of an array.

## 4. The proofs

### The queue table

`QueueTab_proofs` proves, for every number of processes and semaphores, every
set of 16-bit priorities and every largest delay (the assumption
`QueueTabAssumption`):

| theorem | states |
|---|---|
| `Inductive` | `IInv /\ [Next]_vars => IInv'` |
| `Invariance` | `Spec => []IInv` |
| `TypesHold` | `Spec => []TypeOK`: the scan pointers stay in the table |
| `LinksStayConsistent` | `Spec => []LinksConsistent` |
| `ReadyStaysSorted` | `Spec => []ReadySorted` |
| `DelaysStayNatural` | `Spec => []SleepKeysNatural` |
| `NoneStaysDue` | `Spec => []NoneDue` |
| `NobodyLost` | `Spec => []AllHeld`: whoever is on a list can be reached from its head |
| `ListsImplemented` | `Spec => ImplementsLists`: the table implements the lists of `QueueSpec` |

The argument. None of the properties is inductive alone. The scan of insert
has no end test, so that it stays in the table needs the tail entry's key to
be below every priority (`Sentinels`) and the pointer to be inside the ready
list (`InsertPosition`), which in turn needs consistent links. That the list
stays sorted needs that everything the scan has passed has a key at least as
great (`InsertPosition` again). insertd keeps delays natural because it deducts
what it passes and stops before its key would become negative
(`InsertdPosition`). `IInv` is the conjunction.

The central lemmas are about linking and unlinking. `Owner[x]` is the list an
entry belongs to, from the history variable for a process and from its place in
the table for a head or a tail. Linking an entry of no list between two
neighbours, and unlinking an entry of a list, preserve `LinksConsistent`
whatever the list; each operation then has a lemma that it is one of these two
(`DequeueStep`, `WakeupNextStep` and so on). `TableInv`, everything about the
table, is preserved by every step (`TableStep`); `NoneDue` is preserved given
`TableInv` (`DueStep`), because the first key changes only in four ways: a
tick, an insertion at the front, the removal of the first entry, which adds its
positive delay to the next, and wakeup.

The refinement needs more than that neighbours agree: two lists whose links agree
everywhere may still leave a ring of entries that no head leads to.
`ListInv` adds to `IInv`

* `AllHeld`: for every list, the sequence read off the links names each
  process once, the links lead through it from the head to the tail
  (`Stop(q, s, n)` is the n-th entry on this way, the head the 0th), and it names exactly
  the processes whose owner is that list;
* `DelayDivided`: while insertd runs, `prev` is some n-th stop of the sleep list,
  and what is left in `key` and the delays of the first n sleepers make up the
  delay it was called with.

`Holds(q, s)` determines s: what the links hold is what is read off
them (`MembersAre`), and as no process is in s twice, s is no longer than `NPROC`
(`HeldLength`), the bound of the mapping. So it is enough to say which sequence is held
after an operation. Linking behind the n-th stop inserts behind the n-th element
(`HeldIn`), unlinking the n-th element removes it (`HeldOut`), and both leave what every
other list holds (`HeldElse`). Each operation then has a lemma that it is one of `QueueSpec`:
`EnqueueIsJoin`, `GetitemIsUnready`, `GetitemIsAbandon`, `UnsleepIsCancel`,
`DequeueIsDispatch`, `WakeupNextIsWake` and so on. Two have to find the
place where `XinuLists` wants the process. For the ready list, that everything before
has a key at least as great and what follows a smaller one is `InsertPosition` with
`ReadySorted`, carried over from links to the sequence. For the sleep list it is
`DelayDivided`, with the sums of the delays ascending because the delays are natural.
The steps of the two scans change no list, so they stutter (`ListsStay`).

### The kernel

`XinuKernel_proofs` proves, for every number of processes and semaphores, every
set of priorities, delays and counts, every quantum and every set of calls that
programs make (the assumption `KernelAssumption`):

| theorem | states | if |
|---|---|---|
| `Consistent` | `Spec => []IInv` | the clock stays out of `resume()` |
| `ProcessOnItsList` | `Spec => []StateNamesList` | the same |
| `CountedWaiters` | `Spec => []CountIsWaiters` | the same |
| `MessageThere` | `Spec => []ReceiveHasMessage` | the same |
| `FirstComeFirstServed` | `Spec => ServedInOrder` | the same |
| `CompletedWhenHalted` | `Spec => HaltsWhenDone` | the same |
| `RecipientStarted` | `Spec => LostOnlyInReceive` | the same |
| `SleepersWakeInTime` | `Spec => SleepsExactly` | the clock stays out of `resume()`, and nobody calls `recvtime(0)` |
| `NobodyOverdue` | `Spec => []NoneOverdue` | the same |

The last column is an assumption of the theorem on `Unmasked` and `Waits`;
`receive()` may be interrupted in all of them, and programs may make every call.
Neither assumption can go. An interrupt in `resume()` leaves a process ready and on
no list, and whoever suspends or kills it then unlinks in `queuetab` what is not
linked: nothing that is said of the lists is true afterwards. A `recvtime(0)` makes a key
that no tick finds. These are the first and the third of the divergences. The
second, kills that overlap, is in the property: `HaltsWhenDone` is `[]KillsApart =>
[]AllCompleted`, with the kills that overlap in any other way among its behaviours. And
that a message may be lost in `receive()` is in `LostOnlyInReceive`, which
says that it can be nowhere else.

The argument. Only a call that switches can do damage, so what has to be known
is what every process, not only the caller, has left behind when it lost the CPU.
`IInv` has, beside types, a part for each list (`ReadyPart`, `SleepPart`,
`WaitPart`: a process is on it, once, exactly if its state says so), and three
that are about switches. `Turn`: only `currpid` is called current, and it is
unless it has just called itself waiting or ready in a call the clock may divide;
the null process is always ready or current, so that the ready list is not empty
when `resched()` takes its first entry. `CallPart`: how far a divided call has
come, for instance that a process due to take its message has one, or waits for
one still (`ReceiveHasMessage` is the half of this that is a property by itself,
and not inductive). `CountIsWaiters`: with `WaitPart` it says that a semaphore
whose count is negative has somebody on its queue, which `signal()` assumes
when it takes the first entry without a look.

The lemmas come in three layers. `XinuLists_proofs` says what each list
operation does to the processes on the list, whatever the keys. `Sched` and
`Settled` say the same of `resched()`: it takes a consistent record of the four
scheduler variables to a consistent one, and changes the state of nobody who is
not ready, current or woken (`SwitchSettles`, `LinkSched`,
`ReadyAllSettles`; the last goes over a queue of any length, by the least index at
which the claim fails, which needs no induction principle). On these rests one
lemma for each call. For `RecipientStarted` every step but `RecvState` has to be
one that makes nobody wait with a message (`WaitsWithout`): `send()` wakes a
process it finds waiting, `recvtime()` looks and blocks with interrupts disabled,
a switch and the clock make processes ready and no more (`WakesWithout`), and the
message `kill()` sends to the parent is a `send()` like the others. `Books`, the
invariant for `CompletedWhenHalted`, says that `prcount` is at least the number
of processes that live and are not being killed (`Busy`); not equal to it, since
`create()` raises `prcount` before it can fail. `KillsApart` is needed at two
places and no others: in `KillBooks`, where the victim must still be one of those
counted, and in `KillRestBooks`, where the victim must not leave behind somebody
it was killing.

For the sleep list `MCXinuKernel` says what a process has left: the sum of
the keys up to its entry. `SleepersWakeInTime` adds one invariant to `IInv`:
the first key is above 0 and no other is below (`Running`). The sum is a recursive
function, so `DelaySums` first proves, up to each place of the list, that such
a function exists and adds one key per place, and `SameKeys` that two lists with the
same keys have the same sums there; both climb the list place by place
(`Ascent`: a set with 0 and with the successor of each of its members below `n`
has all up to `n`). From these, one lemma for each operation says what it does to
everybody's remaining time: `InsertdLeft` (the new entry has its delay and nobody
else's changes: the key given to the new entry is taken off the next one),
`UnsleepLeft` (the key of the entry removed goes to the next one, so again nobody
else's changes) and, for the clock, `TickLeft` (one less for each, and those with
nothing left are exactly the entries `wakeup()` takes off, by `FrontOff`).
`Running` fails for one input only, a delay of 0 into an empty list or in front of
the first entry: the clock takes it to -1 and its test for exactly 0
(`NoneOverdue` is what is then violated) never comes true. This is why
`recvtime(0)` has to be excluded and nothing else has.

### The heap

`Heap_proofs` proves, for every start address, every set of positive request
sizes and every `MaxHeap` (the assumption `HeapAssumption`):

| theorem | states |
|---|---|
| `HeapInvariance` | `Spec => []Invariant` |
| `TypeCorrect` | `Spec => []TypeOK` |
| `FreeOrInUseHolds` | `Spec => []FreeOrInUse` |
| `ChunksApartHolds` | `Spec => []ChunksApart` |
| `HeadersIntactHolds` | `Spec => []HeadersIntact` |
| `NothingLostHolds` | `Spec => []NothingLost` |
| `AllocatorImplemented` | `Spec => ImplementsAllocator` |

The argument. `Invariant` has three parts. `Layout` is about headers and the end
of the heap only: chunks are apart, inside the heap, larger than a header, and
behind each, with a gap of nothing or of a header, is the next. `Chain` is about
the chain and the chunks in use only: together they are all chunks, without
repetition. `Asked` says that what a caller asked for fits behind its header.
`ChunksApart` alone is not inductive: that a split leaves the two parts apart
needs room for a header in each, and that a merged header is not the target of
another chunk's gap needs all three conditions of `Layout` on sizes.
The changes the code makes are three to the headers (merge, split, grow) and five
to the chain (append, absorb, replace, remove, extend), each with a lemma
(`MergeLayout`, `ChainReplace` and so on); `FreeChunkStep` puts `free()` together
from them, and `MallocReuseStep`, `MallocGrowStep` and `FreeStep` the actions.
The refinement follows: a step of `malloc()` adds one pointer, and by the
invariant after the step its bytes are apart from everybody else's.

### The shell

`Shell_proofs` proves, for every `NPROC`, every set of characters and every
`MaxLine` and `MAXTOK`:

| theorem | states |
|---|---|
| `ShellInvariance` | `Spec => []IInv` |
| `ShellTypes` | `Spec => []TypeOK` |
| `ForegroundDone` | `Spec => []JobDone` |
| `LineDivided` | `Spec => []LexanAgrees` |

The argument for the wait. `JobDone` says that the shell prompts only when its foreground job
no longer runs, and rests on a message that is only a process id. It is
inductive with three more facts: a message in the slot names a job that has
ended (`Messages`); between `recvclr()` and `resume()` that cannot be the new
child's id, since `recvclr()` runs after the id was given out and the child has
not run (`Messages`, `Created`); and a running foreground job is always the one
waited for (`Foreground`). The order of `create`, `recvclr` and `resume` in
`shell.c` is what makes it true: with `recvclr` left out, or before `create`, an
old message with the same id ends the wait.

For the analyser `From(line, p)` is the state of the automaton at each place if it
reads the line from `p` on, and `Rest(line, p, n)` what the reference makes of that
when `n` tokens were found before. `FoundRest` shows that one round of the outer
loop, given `Rest` for the places behind, computes `Rest` at its own: the inner
loops are invariants of the automaton's states (`BlanksRead`, `WordRead`,
`QuoteRead`), and once a token is complete, a reading begun there stays one token
behind the other to the end of the line (`BehindOn`). Since `Rest` then solves the
equation of `Scan`, there is a solution, and since the places left get fewer any
solution is `Rest` (`LexanIsLexRef`). `FoldReads` says that the fold
of the reference is the automaton's state at the end, through `SameReading` and
`ReadingRests` about readings of any set of places, as the fold takes subsets of the
places of the line. `Scan` takes a pair because two-argument functions are
beyond the provers installed.

### Terminal input

`TtyIn_proofs` proves, for every `IBUFLEN` above 0, all sets of readers and
peekers, and all counts, keys and modes (the assumption `TtyInAssumption`):

| theorem | states |
|---|---|
| `PointersAgree` | `Spec => []RingAgrees` |
| `LineInputImplemented` | `Spec => ImplementsLineInput` |
| `ScreenRight` | `Spec => []ScreenShowsLine` |

The assumption has that nobody is both a reader and a peeker; a process that makes
both kinds of call is two in the model. Up to a loss, and a loss is whatever sets
`lost`, the three hold without a condition. After it nothing is claimed.

The argument. `IInv` has, beside types, what the semaphore owes to the processes
(`Sem`: its queue is who waits, each once; with somebody on it no character is
free), what a call owes to its caller (`Calling`: one process at most is between
two waits, and a reader in a call has something left to read) and what the
pointers owe to both (`Filled`: the tail is as far behind the head as there are
characters counted, characters of woken readers and characters of the line, and
that is no more than the ring has room for). `RingAgrees` is not inductive
without the first two: that `signaln(n)` makes `n` characters available, some to be
counted and the rest for woken readers, needs that queue and count belong together.

For the refinement the ring is read from its head on (`Seg`). Storing a character
appends it to what is read there (`SegStore`, which needs that the slot is not one of
them, hence that they fit), taking one removes the first (`SegTake`), and moving
the tail back removes the last ones (`SegCut`), wherever the ring is cut by its
end. Each handler branch and each call has one lemma, which says at once that `IInv`
is kept and what becomes of the line and of what may be taken.

For the screen, `Visible` adds that a pending line has only characters that
are shown as they are or as `^X`, and that `clean` implies echo; erasing shows the
text without its last character because `erase1()` goes back over as many columns
as `echoch()` has written for that one (`Unshown1`).

Planning this proof found an error of the model that the run had not shown. A key
that arrives before the handler clears its cursor was a loss, except end
of file: it was taken for one in the middle of a line, where it is ignored. The user
has then typed it at the start of a line, and the program never sees it. The run
passed all the same, because `LineInput` recorded that a key was typed and not
which, so that an end of file dropped on an empty line looked like an erase there.
`keyed` now holds the key, the run fails on the old model, the model counts
the drop as a loss, and what the code does is among the divergences of section 3.

### Terminal output

`TtyOut_proofs` proves, for every `OBUFLEN`, every set of writers and characters
and every set of lengths (the assumption `TtyOutAssumption`), with `Beyond = {}`:

| theorem | states |
|---|---|
| `SlotsCounted` | `Spec => []SlotsAccounted` |
| `OldestSent` | `Spec => []SendsOldest` |

`Beyond = {}` says that the behaviour is looked at up to the first of the two
losses (two writers in `*tyotail++` at once, or one killed with a slot
reserved): after one a slot is gone for good or the ring holds something else
than what was written, and nothing is claimed.

The argument. `IInv` ties the semaphore to the writers (`Counted`: its count is
the size of the ring less the writers `Inside` and those that wait, and its
queue is who waits) and the ring to what is due (`Filled`: from the head on, the
ring holds the characters stored and not sent, one for each writer that has stored
and not kicked; the tail is behind them, advanced or not according to where the
one writer that moves it is). `SendsOldest` is the first entry of `Filled`. A
`Store` overwrites nothing because who is about to store is inside and has stored
nothing, so that fewer than `OBUFLEN` are due (`Room`): this is where the ring
rests on the semaphore, and neither part is inductive without the other.

### Traps, switches and ticks

`Traps_proofs` proves, for every set of processes, every length of their programs,
every `HALF`, every interval that leaves room for a word in the timer and every size
of the stacks (the assumptions `HartAssumption` and `TrapsAssumption`), with
`Beyond = {}`:

| theorem | states |
|---|---|
| `StacksShaped` | `Spec => []IInv` |
| `StackOwned` | `Spec => []OwnStack` |
| `ProgramsUndisturbed` | `Spec => []Undisturbed` |
| `TickerImplemented` | `Spec => ImplementsTicker` |

`Beyond = {}` says that no interrupt comes at the two times the kernel does not
survive (see *Machine* under the divergences of section 3): between the
change of `currpid` and that of `sp`, and in a `yield()` called with interrupts
disabled that a `resume()` has switched to.

The argument. A program may be interrupted anywhere, its interruption may yield,
and what it yields to is itself in the middle of something. `IInv` says what
each stack can then look like, by four shapes that build on each other. `Point`: a
program at its next instruction, on its way into `yield()` or `resume()`, or in
one of them, with at most one frame. `Handler`: on top of a point, the frame of a
trap that was taken there. `HandlerCall`: on top of that, the frame of the clock
handler's own `yield()`. `Saved`: on top of any of these that can leave the CPU, what
`ctxsw()` pushes, or what `setupStack()` has put on an empty stack. Each shape also
says what the return address and the saved interrupt bits are. `Stacked` gives
every process that does not run a `Saved` stack; `Running` gives the one that runs the
shape that its place asks for. Depth is then bounded (`Deep`), which no
counter in the code sees to: the handler's frame is only on a point, since
interrupts are off until the trap's `mret`. `Undisturbed` is the first case of
`Point`. It is not inductive, as the interrupt bit returns to the program by way of
up to three frames; and `mret` sets it from `MPIE`, which `ctxsw()` copies out of the
new process's frame without a look, so that `Enables` is needed: `MPIE` is set but
at the ends of a trap.

For the refinement `Ticking` follows the handler through the four accesses to the
timer. The low word loaded is that of a moment `h * HALF + lo` between when the
tick was due and now; with the high word loaded later, what comes out is that
moment, one in between or one `HALF` late (`Asked`), and the sum does not overflow.

### Only model-checked

Everything about Monkey (`ParserAgrees`, `JumpsLand`, `StackBalanced`,
`ValueAgrees`): its parser, compiler and evaluator are recursive operators over
the syntax of programs, which the provers cannot reach, and what they say is an
induction over that syntax. And all liveness properties, which rest on fairness.
All other invariants and action properties of the runs, and the five refinements
of abstract specifications, are proved.

## 5. What could come next

* Strings, arrays and the built-in functions of Monkey, and its lexer.
* Loads, stores, LR/SC and WFI of the emulator.

## 6. Not modelled

* The namespace device (`device/nam/`): sequential copying and comparing of
  prefixes, with its tests for room made before it writes.
* The file system: `lfs.c` is vendored; `littlefs.c` has no state but one static
  file and directory, shared by all processes.
* Floating point (vendored), C library functions, and the host's tools
  (`mkfs`, `convert`): formatting and input/output.
* Monkey's garbage collector (`vm.c:355-408`): the list of objects it goes over
  has room for 64 entries (`vm.c:86`) and is appended to without a test
  (`vm.c:159`, `308`, `351`, `685`), while `gc()` returns at once below 100 (`vm.c:361`).
  Outside of a `DEBUG` build it therefore first does something when the program
  has already written past the list, and what follows is not defined by the code.
* `kernel.0`: the earlier version of the same kernel.

What is left out of the modelled components is in the notes of `PROJECT.json`.
