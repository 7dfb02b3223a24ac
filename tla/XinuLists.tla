------------------------------- MODULE XinuLists -------------------------------
(***************************************************************************)
(* The lists of kernel.xinu/system/queue.c as sequences.  An entry of a    *)
(* list is a process id with the key queuetab[pid].qkey it was inserted    *)
(* under; what the doubly linked table does to realise these operators is  *)
(* QueueTab, which is checked to implement them.                           *)
(***************************************************************************)
EXTENDS Integers, SequencesExt

Entry(pid, key) == [pid |-> pid, key |-> key]

PidsOf(list) == {list[i].pid : i \in DOMAIN list}

(* No process is on the list twice.                                        *)
Once(list) == \A i, j \in DOMAIN list : list[i].pid = list[j].pid => i = j

PosOf(list, pid) == CHOOSE i \in DOMAIN list : list[i].pid = pid

(* Sum of the first n keys: on a delta list, how long its n-th process     *)
(* still has to wait.                                                      *)
Delay(list, n) ==
    LET sum[i \in 0 .. Len(list)] == IF i = 0 THEN 0 ELSE sum[i - 1] + list[i].key
    IN  sum[n]

--------------------------------------------------------------------------------

(* insert(): descending keys, a new entry behind every entry of its key.   *)
Insert(list, pid, key) ==
    LET at == CHOOSE i \in 1 .. Len(list) + 1 :
                /\ \A j \in 1 .. i - 1 : list[j].key >= key
                /\ i <= Len(list) => list[i].key < key
    IN  InsertAt(list, at, Entry(pid, key))

(* insertd(): the new entry's key is what remains of its delay behind the  *)
(* entries before it; the entry behind it is shortened by that much.       *)
Insertd(list, pid, key) ==
    LET at   == CHOOSE i \in 1 .. Len(list) + 1 :
                  /\ \A j \in 1 .. i - 1 : Delay(list, j) <= key
                  /\ i <= Len(list) => Delay(list, i) > key
        rest == key - Delay(list, at - 1)
        tail == IF at <= Len(list) THEN [list EXCEPT ![at].key = @ - rest]
                                   ELSE list
    IN  InsertAt(tail, at, Entry(pid, rest))

(* getitem(): unlink a process wherever it stands.                         *)
Getitem(list, pid) == RemoveFirstMatch(list, LAMBDA e : e.pid = pid)

(* A bug: the cancelled delay is dropped from the list.                    *)
UnsleepNoCredit(list, pid) == Getitem(list, pid)

(* unsleep(): the delay of the removed process is added to its successor.  *)
Unsleep(list, pid) ==
    LET i == PosOf(list, pid)
    IN  Getitem(IF i < Len(list) THEN [list EXCEPT ![i + 1].key = @ + list[i].key]
                                 ELSE list, pid)

================================================================================
