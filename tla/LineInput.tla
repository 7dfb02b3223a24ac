-------------------------------- MODULE LineInput --------------------------------
(***************************************************************************)
(* What terminal input promises a program, without rings, pointers or      *)
(* semaphores: a line the user edits, a queue of characters that programs  *)
(* take, and what a key does to the two in each input mode.  A key is      *)
(* dropped only for want of room.  Once the driver has lost a character    *)
(* nothing is promised.                                                    *)
(***************************************************************************)
EXTENDS Sequences, Naturals

CONSTANTS Size,      (* characters the driver has room for               *)
          Keys,      (* what the user types                              *)
          Takers     (* processes that take characters                   *)

VARIABLES mode,      (* "raw", "cbreak" or "cooked"                      *)
          line,      (* the line being edited                            *)
          typed,     (* characters programs may take                     *)
          got,       (* the last character each process took             *)
          keyed,     (* the last key, and a bit that changes with each   *)
          lost       (* the driver has lost a character                  *)

vars == <<mode, line, typed, got, keyed, lost>>

Init == /\ mode = "cooked" /\ line = <<>> /\ typed = <<>>
        /\ got = [p \in Takers |-> "none"]
        /\ keyed = <<"none", FALSE>> /\ lost = FALSE

(* A key is delivered at once.                                             *)
Deliver(k) ==
    /\ mode # "cooked" /\ line = <<>>
    /\ \/ typed' = Append(typed, IF mode = "cbreak" /\ k = "cr" THEN "nl" ELSE k)
       \/ Len(typed) >= Size /\ UNCHANGED typed
    /\ UNCHANGED line

(* A key edits the line, completes it, or ends the file.                   *)
Edit(k) ==
    /\ mode = "cooked"
    /\ \/ /\ k \in {"nl", "cr"}
          /\ typed' = typed \o Append(line, "nl") /\ line' = <<>>
       \/ k = "kill" /\ line' = <<>> /\ UNCHANGED typed
       \/ /\ k = "bs"
          /\ line' = IF line = <<>> THEN line ELSE SubSeq(line, 1, Len(line) - 1)
          /\ UNCHANGED typed
       \/ /\ k = "eof"
          /\ typed' = IF line = <<>> THEN Append(typed, k) ELSE typed
          /\ UNCHANGED line
       \/ /\ k \notin {"nl", "cr", "kill", "bs", "eof"}
          /\ line' = Append(line, k) /\ UNCHANGED typed
       \/ /\ k \notin {"nl", "cr", "kill", "bs"}
          /\ Len(typed) + Len(line) >= Size - 1 /\ UNCHANGED <<typed, line>>

Type(k) == /\ Deliver(k) \/ Edit(k)
           /\ keyed' = <<k, ~keyed[2]>>
           /\ UNCHANGED <<mode, got, lost>>

(* The oldest character is taken; in cooked mode the end-of-file character *)
(* stands for the end of the file.                                         *)
Take(p) ==
    /\ typed # <<>>
    /\ got' = [got EXCEPT ![p] =
                 IF mode = "cooked" /\ Head(typed) = "eof" THEN "EOF" ELSE Head(typed)]
    /\ typed' = Tail(typed)
    /\ UNCHANGED <<mode, line, keyed, lost>>

SetMode == mode' \in {"raw", "cbreak", "cooked"} /\ UNCHANGED <<line, typed, got, keyed, lost>>

Lose == lost' = TRUE

Next == \/ \E k \in Keys : Type(k)
        \/ \E p \in Takers : Take(p)
        \/ SetMode
        \/ Lose

Spec == Init /\ [][Next]_vars
================================================================================
