---------------------------------- MODULE TtyIn ----------------------------------
(***************************************************************************)
(* Terminal input of kernel.xinu: device/tty/ttyhandle_in.c, ttygetc.c,    *)
(* ttyread.c and the input side of ttycontrol.c.                           *)
(*                                                                         *)
(* The receive interrupt is one action per key, run with interrupts        *)
(* disabled: no process has the CPU inside a call (cpu = NONE).  Every     *)
(* branch of the handler ends with signal(), except that a newline does    *)
(* signaln() and then clears the cursor: signaln() reschedules, so a       *)
(* reader it wakes may run, with interrupts enabled, before the handler's  *)
(* last assignment.  A call runs from its start, or from where wait()      *)
(* returns, to its next wait() or its end with interrupts disabled; one    *)
(* ttygetc() is one action.                                                *)
(*                                                                         *)
(* The driver's promise ends, and the model stops, where `lost' is set.    *)
(***************************************************************************)
EXTENDS Integers, Sequences, SequencesExt, FiniteSets

CONSTANTS
    IBUFLEN,     (* TY_IBUFLEN                                           *)
    Keys,        (* what the user types; "a" is any printable character, *)
                 (* "ctl" any control character without a meaning        *)
    Readers,     (* processes that call getc() and read()                *)
    Peekers,     (* processes that call control(TC_NEXTC)                *)
    Counts,      (* counts programs give to read()                       *)
    Modes        (* input modes programs set                             *)

ASSUME TtyInAssumption ==
    /\ IBUFLEN \in Nat \ {0}
    /\ Counts \subseteq Nat
    /\ Modes \subseteq {"raw", "cbreak", "cooked"}
    /\ Keys \subseteq {"a", "b", "ctl", "nl", "cr", "bs", "kill", "eof"}
    /\ "none" \notin Readers \cup Peekers
    /\ Readers \cap Peekers = {}

Procs == Readers \cup Peekers
NONE  == "none"

VARIABLES
    tyibuff,     (* the ring; slots 0 .. IBUFLEN - 1                     *)
    tyihead, tyitail,
    icount, iwait,   (* semaphore tyisem: its count and its queue        *)
    tyicursor,
    tyimode, tyiecho,
    screen,      (* the terminal's current line, up to its cursor        *)
    clean,       (* the current line shows only what was echoed of it    *)
    kont,        (* what each process still has to do in its call        *)
    cpu,         (* the process inside a call with interrupts disabled   *)
    suspended,   (* a newline's handler lost the CPU before its end      *)
    got,         (* what each process's last ttygetc() returned          *)
    keyed,       (* the last key, and a bit that changes with every key  *)
    lost         (* why the driver has lost a character                  *)

ring  == <<tyibuff, tyihead, tyitail>>
sem   == <<icount, iwait>>
vars  == <<ring, sem, tyicursor, tyimode, tyiecho, screen, clean, kont, cpu,
           suspended, got, keyed, lost>>

User == [at |-> "user", left |-> 0, line |-> FALSE, first |-> FALSE]

Init ==
    /\ tyibuff = [i \in 0 .. IBUFLEN - 1 |-> "nul"]
    /\ tyihead = 0 /\ tyitail = 0
    /\ icount = 0 /\ iwait = <<>>
    /\ tyicursor = 0
    /\ tyimode = "cooked" /\ tyiecho = TRUE
    /\ screen = <<>> /\ clean = TRUE
    /\ kont = [p \in Procs |-> User]
    /\ cpu = NONE /\ suspended = FALSE
    /\ got = [p \in Procs |-> NONE]
    /\ keyed = <<NONE, FALSE>> /\ lost = "no"

--------------------------------------------------------------------------------
(* The ring.                                                               *)

Wrap(i) == IF i >= IBUFLEN THEN 0 ELSE i

Back(i, n) == IF i - n < 0 THEN i - n + IBUFLEN ELSE i - n

Avail == IF icount < 0 THEN 0 ELSE icount

(* Processes whose wait() a signal has ended and that have not run since.  *)
Woken == {p \in Procs : kont[p].at = "woken"}

(* Characters in the ring that no process has taken.                       *)
Unread == Avail + Cardinality(Woken)

Store(c) == /\ tyibuff' = [tyibuff EXCEPT ![tyitail] = c]
            /\ tyitail' = Wrap(tyitail + 1)
            /\ UNCHANGED tyihead

(* Characters of the line being edited; the cursor of a line that is       *)
(* already available counts for nothing.                                   *)
LineLen == IF suspended THEN 0 ELSE tyicursor

(* A key of an edited line moves, or is ignored for, a cursor that is      *)
(* about to be cleared.                                                    *)
Stale == IF suspended THEN "cursor" ELSE "no"

(* Why storing one more character loses one: the cursor is stale, an       *)
(* unfinished line lies in front of it, or the ring is full of characters  *)
(* nobody has taken.                                                       *)
Loss == CASE suspended /\ tyimode = "cooked"    -> "cursor"
          [] tyimode # "cooked" /\ LineLen # 0  -> "mode"
          [] Unread + LineLen >= IBUFLEN        -> "overrun"
          [] OTHER                              -> "no"

--------------------------------------------------------------------------------
(* The semaphore.                                                          *)

(* A bug: a newline makes only itself available.                           *)
SignalnOne(n) ==
    LET m == IF iwait = <<>> THEN 0 ELSE 1
    IN  /\ icount' = icount + 1
        /\ iwait' = SubSeq(iwait, m + 1, Len(iwait))
        /\ kont' = [p \in Procs |->
                      IF m = 1 /\ iwait[1] = p
                      THEN [kont[p] EXCEPT !.at = "woken"] ELSE kont[p]]

(* signaln(): n times, the first in the queue is made ready.               *)
Signaln(n) ==
    LET m == IF Len(iwait) < n THEN Len(iwait) ELSE n
    IN  /\ icount' = icount + n
        /\ iwait' = SubSeq(iwait, m + 1, Len(iwait))
        /\ kont' = [p \in Procs |->
                      IF \E i \in 1 .. m : iwait[i] = p
                      THEN [kont[p] EXCEPT !.at = "woken"] ELSE kont[p]]

--------------------------------------------------------------------------------
(* The screen: what eputc() shows.  The handler writes only what erases    *)
(* with a backspace, a blank and a backspace.                              *)

Show(s, out) ==
    CASE out = "BS"          -> IF s = <<>> THEN s ELSE SubSeq(s, 1, Len(s) - 1)
      [] out \in {"NL", "CR"} -> <<>>
      [] out = "BELL"        -> s
      [] OTHER               -> Append(s, out)

(* echoch(): a control character is shown as ^X.                           *)
Echo(c) == CASE c \in {"nl", "cr"}               -> <<"CR", "NL">>
             [] c \in {"ctl", "eof", "kill", "bs"} -> <<"^", c>>
             [] OTHER                            -> <<c>>

(* A bug: the ^ of a control character is left on the screen.              *)
EraseOne(c) == <<"BS">>

(* erase1()'s part on the screen: it goes back over what echoch() wrote;   *)
(* the blank written over each character is not kept.                      *)
Erase(c) == IF c \in {"ctl", "eof", "kill", "bs"} THEN <<"BS", "BS">> ELSE <<"BS">>

Put(outs) == screen' = FoldLeft(Show, screen, outs)
Echoing(c)  == IF tyiecho THEN Put(Echo(c)) ELSE UNCHANGED screen

--------------------------------------------------------------------------------
(* ttyhandle_in()                                                          *)

(* A key arrives.                                                          *)
Arrives(k) ==
    /\ lost = "no" /\ cpu = NONE
    /\ keyed' = <<k, ~keyed[2]>>
    /\ UNCHANGED <<tyimode, tyiecho, cpu, got>>

(* Raw mode: "Place char in buffer with no editing".                       *)
RawKey(k) ==
    /\ tyimode = "raw" /\ Arrives(k)
    /\ IF Avail >= IBUFLEN
       THEN UNCHANGED <<ring, sem, kont, lost>>
       ELSE Store(k) /\ Signaln(1) /\ lost' = Loss
    /\ UNCHANGED <<tyicursor, screen, clean, suspended>>

(* Carriage return is mapped to newline in the other modes.                *)
Mapped(k) == IF k = "cr" THEN "nl" ELSE k

CbreakKey(k) ==
    /\ tyimode = "cbreak" /\ Arrives(k)
    /\ IF Avail >= IBUFLEN
       THEN Put(<<"BELL">>) /\ UNCHANGED <<ring, sem, kont, clean, lost>>
       ELSE /\ Store(Mapped(k)) /\ Echoing(Mapped(k))
            /\ Signaln(1) /\ lost' = Loss /\ clean' = FALSE
    /\ UNCHANGED <<tyicursor, suspended>>

Cooked(k) == tyimode = "cooked" /\ Arrives(k)

(* "Line kill character arrives - kill entire line"                        *)
KillLine ==
    /\ "kill" \in Keys /\ Cooked("kill")
    /\ tyitail' = Back(tyitail, tyicursor)
    /\ tyicursor' = 0
    /\ Put(<<"CR", "NL">>) /\ clean' = tyiecho
    /\ lost' = Stale
    /\ UNCHANGED <<tyibuff, tyihead, sem, kont, suspended>>

(* A bug: the erase character does not stop at the start of the line.      *)
EraseAny ==
    /\ "bs" \in Keys /\ Cooked("bs")
    /\ tyitail' = Back(tyitail, 1)
    /\ tyicursor' = IF tyicursor > 0 THEN tyicursor - 1 ELSE 0
    /\ UNCHANGED <<tyibuff, tyihead, sem, kont, clean, suspended, screen, lost>>

EraseKey ==
    /\ "bs" \in Keys /\ Cooked("bs")
    /\ IF tyicursor > 0
       THEN /\ tyicursor' = tyicursor - 1
            /\ tyitail' = Back(tyitail, 1)
            /\ IF tyiecho THEN Put(Erase(tyibuff[tyitail'])) ELSE UNCHANGED screen
            /\ lost' = Stale
       ELSE UNCHANGED <<tyicursor, tyitail, screen, lost>>
    /\ UNCHANGED <<tyibuff, tyihead, sem, kont, clean, suspended>>

(* End of line: stored without the test for a full ring, and made          *)
(* available with the line.  If that wakes a reader, the reader may run    *)
(* before the cursor is cleared.                                           *)
LineKey(k) ==
    /\ k \in {"nl", "cr"} /\ Cooked(k)
    /\ Echoing("nl") /\ Store("nl")
    /\ Signaln(tyicursor + 1)
    /\ lost' = Loss
    /\ clean' = tyiecho
    /\ \/ tyicursor' = 0 /\ UNCHANGED suspended
       \/ iwait # <<>> /\ suspended' = TRUE /\ UNCHANGED tyicursor

(* "Reset for next line", when the interrupted process runs again.         *)
HandlerEnds ==
    /\ lost = "no" /\ suspended /\ cpu = NONE
    /\ tyicursor' = 0 /\ suspended' = FALSE
    /\ UNCHANGED <<ring, sem, tyimode, tyiecho, screen, clean, kont, cpu, got, keyed, lost>>

(* Any other character: "send bell if buffer has overflowed".  The end-of- *)
(* file character counts only at the start of a line, and its slot is      *)
(* left without wrapping the tail.                                         *)
CharKey(k) ==
    /\ k \notin {"nl", "cr", "bs", "kill"} /\ Cooked(k)
    /\ \/ /\ Avail + tyicursor >= IBUFLEN - 1
          /\ Put(<<"BELL">>) /\ lost' = Stale
          /\ UNCHANGED <<ring, sem, kont, tyicursor, clean>>
       \/ /\ Avail + tyicursor < IBUFLEN - 1
          /\ Echoing(k)
          /\ \/ /\ k = "eof" /\ tyicursor # 0
                /\ clean' = FALSE /\ lost' = Stale
                /\ UNCHANGED <<ring, sem, kont, tyicursor>>
             \/ /\ k = "eof" /\ tyicursor = 0
                /\ Store(k) /\ Signaln(1)
                /\ lost' = IF tyitail = IBUFLEN - 1 THEN "eof" ELSE Loss
                /\ clean' = FALSE
                /\ UNCHANGED tyicursor
             \/ /\ k # "eof"
                /\ Store(k) /\ tyicursor' = tyicursor + 1
                /\ lost' = Loss
                /\ UNCHANGED <<sem, kont, clean>>
    /\ UNCHANGED suspended

--------------------------------------------------------------------------------
(* ttygetc(), ttyread(), ttycontrol()                                      *)

(* Process p, in user code, makes a call.                                  *)
Calls(p) == lost = "no" /\ cpu = NONE /\ kont[p].at = "user"

Enter(p, left, line) ==
    /\ cpu' = p
    /\ kont' = [kont EXCEPT ![p] = [at |-> "wait", left |-> left, line |-> line,
                                    first |-> line]]

Unchanged == UNCHANGED <<tyicursor, tyimode, tyiecho, screen, clean, suspended, keyed, lost>>

Getc(p) ==
    /\ Calls(p) /\ Enter(p, 1, FALSE)
    /\ UNCHANGED <<ring, sem, got>> /\ Unchanged

(* read(): up to a line in cooked mode, of which one character is read     *)
(* whatever the count; count characters in the other modes, or, for a      *)
(* count of 0, those the semaphore counts.                                 *)
Read(p, count) ==
    /\ Calls(p)
    /\ \/ /\ tyimode = "cooked"
          /\ Enter(p, IF count = 0 THEN 1 ELSE count, TRUE)
       \/ /\ tyimode # "cooked"
          /\ count > 0 \/ icount > 0
          /\ Enter(p, IF count = 0 THEN icount ELSE count, FALSE)
    /\ UNCHANGED <<ring, sem, got>> /\ Unchanged

(* Nothing is left to do in p's call once it has read c.                   *)
Done(p, c) ==
    \/ kont[p].left = 1
    \/ kont[p].line /\ (c = "nl" \/ c = "cr" \/ (c = "EOF" /\ kont[p].first))

(* ttygetc() after its wait(): the character at the head.                  *)
Extract(p) ==
    LET c == IF tyimode = "cooked" /\ tyibuff[tyihead] = "eof"
             THEN "EOF" ELSE tyibuff[tyihead]
    IN  /\ got' = [got EXCEPT ![p] = c]
        /\ tyihead' = Wrap(tyihead + 1)
        /\ IF Done(p, c)
           THEN cpu' = NONE /\ kont' = [kont EXCEPT ![p] = User]
           ELSE /\ cpu' = p
                /\ kont' = [kont EXCEPT ![p].at = "wait", ![p].first = FALSE,
                                         ![p].left = @ - 1]

(* wait(tyisem) with a character there, and without.                       *)
GetcTakes(p) ==
    /\ cpu = p /\ kont[p].at = "wait" /\ icount > 0
    /\ icount' = icount - 1
    /\ Extract(p)
    /\ UNCHANGED <<tyibuff, tyitail, iwait>> /\ Unchanged

Waits(p) ==
    /\ icount <= 0
    /\ icount' = icount - 1 /\ iwait' = Append(iwait, p)
    /\ cpu' = NONE
    /\ UNCHANGED <<ring, got>> /\ Unchanged

GetcWaits(p) ==
    /\ cpu = p /\ kont[p].at = "wait"
    /\ kont' = [kont EXCEPT ![p].at = "queued"]
    /\ Waits(p)

(* A reader that a signal has released gets the CPU.                       *)
GetcWakes(p) ==
    /\ lost = "no" /\ cpu = NONE /\ p \in Readers \cap Woken
    /\ Extract(p)
    /\ UNCHANGED <<tyibuff, tyitail, sem>> /\ Unchanged

(* TC_NEXTC: wait, look, signal.  Only the waiting shows: what it looks at *)
(* is returned and nothing else.                                           *)
NextcWaits(p) ==
    /\ Calls(p) /\ Waits(p)
    /\ kont' = [kont EXCEPT ![p].at = "queued"]

NextcWakes(p) ==
    /\ lost = "no" /\ cpu = NONE /\ p \in Peekers \cap Woken
    /\ icount' = icount + 1
    /\ iwait' = IF iwait = <<>> THEN <<>> ELSE Tail(iwait)
    /\ kont' = [q \in Procs |-> CASE q = p -> User
                                 [] iwait # <<>> /\ q = Head(iwait) -> [kont[q] EXCEPT !.at = "woken"]
                                 [] OTHER -> kont[q]]
    /\ UNCHANGED <<ring, cpu, got>> /\ Unchanged

(* TC_MODER, TC_MODEC, TC_MODEK and TC_ECHO, TC_NOECHO.                     *)
SetMode(m) ==
    /\ lost = "no" /\ cpu = NONE /\ tyimode' = m
    /\ UNCHANGED <<ring, sem, tyicursor, tyiecho, screen, clean, kont, cpu, suspended,
                   got, keyed, lost>>

SetEcho(e) ==
    /\ lost = "no" /\ cpu = NONE /\ tyiecho' = e
    /\ clean' = FALSE
    /\ UNCHANGED <<ring, sem, tyicursor, tyimode, screen, kont, cpu, suspended, got,
                   keyed, lost>>

--------------------------------------------------------------------------------
Handler == \/ \E k \in Keys : RawKey(k) \/ CbreakKey(k) \/ LineKey(k) \/ CharKey(k)
           \/ KillLine \/ EraseKey \/ HandlerEnds

Next == \/ Handler
        \/ \E p \in Readers : \/ Getc(p) \/ GetcTakes(p) \/ GetcWaits(p) \/ GetcWakes(p)
                              \/ \E n \in Counts : Read(p, n)
        \/ \E p \in Peekers : NextcWaits(p) \/ NextcWakes(p)
        \/ \E m \in Modes : SetMode(m)
        \/ \E e \in BOOLEAN : SetEcho(e)

Spec == Init /\ [][Next]_vars

--------------------------------------------------------------------------------
(* Properties.                                                             *)

(* Every variable keeps its type; slots and pointers stay inside the ring  *)
(* (ttyhandle_in.c, ttygetc.c: every step of a pointer is wrapped).        *)
TypeOK ==
    /\ tyibuff \in [0 .. IBUFLEN - 1 -> Keys \cup {"nul", "nl"}]
    /\ tyihead \in 0 .. IBUFLEN - 1 /\ tyitail \in 0 .. IBUFLEN - 1
    /\ icount \in Int /\ iwait \in Seq(Procs)
    /\ tyicursor \in 0 .. IBUFLEN
    /\ tyimode \in {"raw", "cbreak", "cooked"} /\ tyiecho \in BOOLEAN
    /\ kont \in [Procs -> [at : {"user", "wait", "queued", "woken"}, left : Nat,
                           line : BOOLEAN, first : BOOLEAN]]
    /\ cpu \in Readers \cup {NONE}
    /\ suspended \in BOOLEAN /\ clean \in BOOLEAN
    /\ keyed \in (Keys \cup {NONE}) \X BOOLEAN
    /\ got \in [Procs -> Keys \cup {NONE, "nul", "nl", "EOF"}]
    /\ lost \in {"no", "cursor", "mode", "overrun", "eof"}

(* The semaphore and the pointers agree, whoever waits, was woken or was   *)
(* preempted: between head and tail lie the characters the semaphore       *)
(* counts, those a woken reader is about to take and those of the line     *)
(* being edited, and they fit (ttyhandle_in.c against ttygetc.c).  With    *)
(* the types of the state.                                                 *)
RingAgrees ==
    /\ TypeOK
    /\ lost = "no" =>
          /\ Unread + LineLen <= IBUFLEN
          /\ tyitail = (tyihead + Unread + LineLen) % IBUFLEN
          /\ iwait # <<>> => icount = -Len(iwait)

InRing(from, n) == [i \in 1 .. n |-> tyibuff[(tyihead + from + i - 1) % IBUFLEN]]
Line == InRing(Unread, LineLen)

(* What the user sees is what the program will get: the screen shows the   *)
(* line as it stands in the ring, after any erasing, also of control       *)
(* characters shown as ^X (echoch() against erase1()).                     *)
ScreenShowsLine ==
    (lost = "no" /\ tyimode = "cooked" /\ clean) =>
        screen = FlattenSeq([i \in DOMAIN Line |-> Echo(Line[i])])

Abstract == INSTANCE LineInput WITH
    Size <- IBUFLEN, Takers <- Procs, mode <- tyimode, line <- Line,
    typed <- InRing(0, Unread), lost <- lost # "no"

(* The ring is a line editor: keys edit the pending line only, are dropped *)
(* only for want of room, and programs take whole lines in the order they  *)
(* were typed, until a character is lost.                                  *)
ImplementsLineInput == Abstract!Spec

(* For TLC: what the rest of a behaviour depends on.  Slots outside the    *)
(* live part of the ring are written before they are read.                 *)
LiveState ==
    IF lost # "no" THEN <<lost>> ELSE
    <<InRing(0, Unread + LineLen), tyihead, tyitail, sem, tyicursor, tyimode, tyiecho,
      clean, IF clean THEN screen ELSE <<>>, kont, cpu, suspended, lost>>
================================================================================
