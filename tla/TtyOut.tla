--------------------------------- MODULE TtyOut ----------------------------------
(***************************************************************************)
(* Terminal output of kernel.xinu: device/tty/ttyputc.c, ttywrite.c,       *)
(* ttykickout.c and ttyhandle_out.c, under putc() and write() of           *)
(* system/device.c.                                                        *)
(*                                                                         *)
(* putc() and write() disable interrupts, but ttykickout() enables them    *)
(* whatever they were, so that everything a call does after its first      *)
(* character (the newline after its carriage return, the rest of a         *)
(* write()) runs with interrupts enabled.  The steps of ttyputc() are those *)
(* of the compiled function: the tail is loaded, stored one higher, the    *)
(* character goes where it was, the tail is loaded again and wrapped.      *)
(*                                                                         *)
(* The echo ring is always empty: eputc() writes to the UART itself.       *)
(* The driver's promise ends where `lost' is set; the model stops there    *)
(* unless Beyond says otherwise.                                           *)
(***************************************************************************)
EXTENDS Integers, Sequences, SequencesExt, FiniteSets

CONSTANTS
    OBUFLEN,     (* TY_OBUFLEN                                           *)
    Writers,     (* processes that write to the terminal                 *)
    Chars,       (* characters they write: "nl" and printable ones       *)
    Lengths,     (* lengths they give to write(); 1 stands for putc()    *)
    Beyond       (* losses the model goes on after                       *)

ASSUME TtyOutAssumption ==
    /\ OBUFLEN \in Nat \ {0}
    /\ "none" \notin Writers
    /\ Lengths \subseteq Nat \ {0}
    /\ Beyond \subseteq {"tail", "slot"}

NONE == "none"

VARIABLES
    tyobuff,     (* the ring                                             *)
    tyohead, tyotail,
    ocount, owait,   (* semaphore tyosem: its count and its queue        *)
    at,          (* where each writer is in ttyputc()                    *)
    todo,        (* characters of its call still to be put               *)
    reg,         (* the tail as it has loaded it                         *)
    masked,      (* it has interrupts disabled                           *)
    cpu,         (* the writer that has the CPU, or NONE                 *)
    due,         (* the characters stored and not yet sent, oldest first *)
    lost         (* why output is no longer what was written             *)

ring == <<tyobuff, tyohead, tyotail>>
sem  == <<ocount, owait>>
vars == <<ring, sem, at, todo, reg, masked, cpu, due, lost>>

Init ==
    /\ tyobuff = [i \in 0 .. OBUFLEN - 1 |-> <<NONE, "nul">>]
    /\ tyohead = 0 /\ tyotail = 0
    /\ ocount = OBUFLEN /\ owait = <<>>
    /\ at = [p \in Writers |-> "user"]
    /\ todo = [p \in Writers |-> <<>>]
    /\ reg = [p \in Writers |-> 0]
    /\ masked = [p \in Writers |-> FALSE]
    /\ cpu = NONE
    /\ due = <<>>
    /\ lost = "no"

Wrap(i) == IF i >= OBUFLEN THEN 0 ELSE i

--------------------------------------------------------------------------------
Going == lost \in {"no"} \cup Beyond

(* Process p has the CPU, or takes it from one that can be interrupted.    *)
Gets(p) == \A q \in Writers \ {p} : cpu = q => ~masked[q]

Runs(p, where) == Going /\ at[p] = where /\ Gets(p) /\ cpu' = p

Goto(p, where) == at' = [at EXCEPT ![p] = where]

(* A newline is put as a carriage return and itself.                       *)
Crlf(c) == IF c = "nl" THEN <<"cr", "nl">> ELSE <<c>>

(* putc() and write() up to the first ttyputc().                           *)
Call(p, chars) ==
    /\ Runs(p, "user")
    /\ Goto(p, "wait")
    /\ todo' = [todo EXCEPT ![p] = FlattenSeq([i \in DOMAIN chars |-> Crlf(chars[i])])]
    /\ masked' = [masked EXCEPT ![p] = TRUE]
    /\ UNCHANGED <<ring, sem, reg, due, lost>>

(* "Wait for space in queue"                                               *)
WaitPasses(p) ==
    /\ Runs(p, "wait") /\ ocount > 0
    /\ ocount' = ocount - 1
    /\ Goto(p, "load")
    /\ UNCHANGED <<ring, owait, todo, reg, masked, due, lost>>

WaitBlocks(p) ==
    /\ Going /\ at[p] = "wait" /\ ocount <= 0 /\ Gets(p)
    /\ cpu' = NONE
    /\ ocount' = ocount - 1 /\ owait' = Append(owait, p)
    /\ Goto(p, "queued")
    /\ UNCHANGED <<ring, todo, reg, masked, due, lost>>

(* Writers between loading the tail and having wrapped it.                 *)
Moving == {p \in Writers : at[p] \in {"advance", "store", "wrap"}}

(* *tyotail++ = ch                                                         *)
Load(p) ==
    /\ Runs(p, "load")
    /\ reg' = [reg EXCEPT ![p] = tyotail]
    /\ lost' = IF Moving = {} THEN lost ELSE "tail"
    /\ Goto(p, "advance")
    /\ UNCHANGED <<ring, sem, todo, masked, due>>

Advance(p) ==
    /\ Runs(p, "advance")
    /\ tyotail' = reg[p] + 1
    /\ Goto(p, "store")
    /\ UNCHANGED <<tyobuff, tyohead, sem, todo, reg, masked, due, lost>>

Store(p) ==
    /\ Runs(p, "store")
    /\ tyobuff' = [tyobuff EXCEPT ![reg[p]] = <<p, Head(todo[p])>>]
    /\ due' = Append(due, <<p, Head(todo[p])>>)
    /\ Goto(p, "wrap")
    /\ UNCHANGED <<tyohead, tyotail, sem, todo, reg, masked, lost>>

(* (The register with the tail is free from here on.)                      *)
WrapTail(p) ==
    /\ Runs(p, "wrap")
    /\ tyotail' = Wrap(tyotail)
    /\ reg' = [reg EXCEPT ![p] = 0]
    /\ Goto(p, "kick")
    /\ UNCHANGED <<tyobuff, tyohead, sem, todo, masked, due, lost>>

(* A bug: the room in the UART does not limit what is sent, and all the    *)
(* slots the semaphore does not count are taken to be written.             *)
KickAll(p) ==
    /\ Runs(p, "kick")
    /\ tyohead' = (tyohead + Cardinality({q \in Writers : at[q] \notin {"user", "wait", "queued"}})) % OBUFLEN
    /\ ocount' = ocount + 1
    /\ owait' = IF owait = <<>> THEN <<>> ELSE Tail(owait)
    /\ at' = [q \in Writers |->
                CASE q = p -> IF Tail(todo[p]) = <<>> THEN "user" ELSE "wait"
                  [] owait # <<>> /\ q = Head(owait) -> "load"
                  [] OTHER -> at[q]]
    /\ todo' = [todo EXCEPT ![p] = Tail(@)]
    /\ due' = IF due = <<>> THEN due ELSE Tail(due)
    /\ masked' = [masked EXCEPT ![p] = FALSE]
    /\ UNCHANGED <<tyobuff, tyotail, reg, lost>>

(* A bug: the space is counted and nobody is released.                     *)
KickNoRelease(p) ==
    /\ Runs(p, "kick")
    /\ tyohead' = Wrap(tyohead + 1)
    /\ ocount' = ocount + 1
    /\ Goto(p, IF Tail(todo[p]) = <<>> THEN "user" ELSE "wait")
    /\ todo' = [todo EXCEPT ![p] = Tail(@)]
    /\ due' = Tail(due)
    /\ masked' = [masked EXCEPT ![p] = FALSE]
    /\ UNCHANGED <<tyobuff, tyotail, owait, reg, lost>>

(* ttykickout(): ttyhandle_out() sends the one character the UART has room *)
(* for and signals its space; a writer that was waiting may run at once.   *)
(* Then interrupts are enabled, and at the end of the call so they stay.   *)
Kick(p) ==
    LET rest == Tail(todo[p])
    IN  /\ Runs(p, "kick")
        /\ tyohead' = Wrap(tyohead + 1)
        /\ ocount' = ocount + 1
        /\ owait' = IF owait = <<>> THEN <<>> ELSE Tail(owait)
        /\ at' = [q \in Writers |->
                    CASE q = p -> IF rest = <<>> THEN "user" ELSE "wait"
                      [] owait # <<>> /\ q = Head(owait) -> "load"
                      [] OTHER -> at[q]]
        /\ todo' = [todo EXCEPT ![p] = rest]
        /\ due' = Tail(due)
        /\ masked' = [masked EXCEPT ![p] = FALSE]
        /\ UNCHANGED <<tyobuff, tyotail, reg, lost>>

(* A bug: a writer killed in the queue is not given back to the count.     *)
KillKeepsCount(p) ==
    /\ Going /\ at[p] = "queued" /\ p # cpu /\ Gets(p)
    /\ owait' = RemoveFirst(owait, p)
    /\ Goto(p, "user")
    /\ todo' = [todo EXCEPT ![p] = <<>>]
    /\ masked' = [masked EXCEPT ![p] = FALSE]
    /\ UNCHANGED <<ring, ocount, reg, cpu, due, lost>>

(* kill() by another process while the writer can be interrupted: out of   *)
(* the semaphore's queue it leaves no trace, with a slot reserved it never *)
(* gives it back.                                                          *)
Kill(p) ==
    /\ Going /\ at[p] # "user" /\ p # cpu /\ Gets(p)
    /\ \/ /\ at[p] = "queued"
          /\ ocount' = ocount + 1 /\ owait' = RemoveFirst(owait, p)
          /\ UNCHANGED lost
       \/ /\ at[p] # "queued"
          /\ lost' = IF at[p] = "wait" THEN lost ELSE "slot"
          /\ UNCHANGED sem
    /\ Goto(p, "user")
    /\ todo' = [todo EXCEPT ![p] = <<>>]
    /\ masked' = [masked EXCEPT ![p] = FALSE]
    /\ UNCHANGED <<ring, reg, cpu, due>>

Step(p) == \/ WaitPasses(p) \/ WaitBlocks(p) \/ Load(p) \/ Advance(p) \/ Store(p)
           \/ WrapTail(p) \/ Kick(p)

Next == \E p \in Writers :
           \/ \E n \in Lengths : \E chars \in [1 .. n -> Chars] : Call(p, chars)
           \/ Step(p)
           \/ Kill(p)

Spec == Init /\ [][Next]_vars

(* The scheduler gives every ready process the CPU (XinuKernel!ReadyRuns). *)
FairSpec == Spec /\ \A p \in Writers : SF_vars(Step(p))

--------------------------------------------------------------------------------
(* Properties.                                                             *)

Places == {"user", "wait", "queued", "load", "advance", "store", "wrap", "kick"}

(* Every variable keeps its type; the tail leaves the ring only between    *)
(* being advanced and being wrapped (ttyputc.c:26-32).                     *)
TypeOK ==
    /\ tyobuff \in [0 .. OBUFLEN - 1 -> (Writers \cup {NONE}) \X (Chars \cup {"cr", "nul"})]
    /\ tyohead \in 0 .. OBUFLEN - 1
    /\ tyotail \in 0 .. OBUFLEN
    /\ tyotail = OBUFLEN => Moving # {} \/ lost # "no"
    /\ ocount \in Int /\ owait \in Seq(Writers)
    /\ at \in [Writers -> Places]
    /\ todo \in [Writers -> Seq(Chars \cup {"cr"})]
    /\ reg \in [Writers -> 0 .. OBUFLEN]
    /\ lost # "tail" => \A p \in Writers : reg[p] < OBUFLEN
    /\ masked \in [Writers -> BOOLEAN]
    /\ cpu \in Writers \cup {NONE}
    /\ due \in Seq(Writers \X (Chars \cup {"cr"}))
    /\ lost \in {"no", "tail", "slot"}

(* Writers that have passed wait() and not yet kicked the device.          *)
Inside == {p \in Writers : at[p] \in {"load", "advance", "store", "wrap", "kick"}}

(* The semaphore counts the slots nobody has reserved, through every       *)
(* interleaving of wait(), kickout and kill(): no slot is given out twice  *)
(* and none is lost (ttyputc.c:25 against ttyhandle_out.c:65).  With the   *)
(* types of the state.                                                     *)
SlotsAccounted ==
    /\ TypeOK
    /\ lost = "no" =>
          /\ ocount = OBUFLEN - Cardinality(Inside) - Len(owait)
          /\ owait # <<>> => Cardinality(Inside) = OBUFLEN

(* The character a kickout sends is the oldest one stored, whoever kicks,  *)
(* though ttyhandle_out() counts as available every slot that is reserved, *)
(* written or not (ttyhandle_out.c:54).                                    *)
SendsOldest ==
    \A p \in Writers :
        at[p] = "kick" => due # <<>> /\ tyobuff[tyohead] = Head(due)

(* A writer that waits for space gets it.                                  *)
WriterServed ==
    \A p \in Writers : at[p] = "queued" ~> (at[p] # "queued" \/ lost # "no")
================================================================================
