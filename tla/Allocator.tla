------------------------------- MODULE Allocator -------------------------------
(***************************************************************************)
(* What malloc() and free() promise: memory in use is in use by one caller *)
(* only, for as long as that caller has not freed it.                      *)
(***************************************************************************)
EXTENDS Integers

CONSTANT Requests    (* sizes asked for                                    *)

VARIABLE inuse       (* the pointers given out, each with its bytes        *)

Apart(p, n, q, m) == p + n <= q \/ q + m <= p

Init == inuse = [p \in {} |-> 0]

Malloc(p, n) ==
    /\ p \notin DOMAIN inuse
    /\ \A q \in DOMAIN inuse : Apart(p, n, q, inuse[q])
    /\ inuse' = [q \in DOMAIN inuse \cup {p} |-> IF q = p THEN n ELSE inuse[q]]

Free(p) == inuse' = [q \in DOMAIN inuse \ {p} |-> inuse[q]]

Next ==
    \/ \E p \in DOMAIN inuse', n \in Requests : Malloc(p, n)
    \/ \E p \in DOMAIN inuse : Free(p)

Spec == Init /\ [][Next]_inuse

================================================================================
