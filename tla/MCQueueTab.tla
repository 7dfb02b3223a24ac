------------------------------- MODULE MCQueueTab -------------------------------
(***************************************************************************)
(* Model checking of QueueTab: which states of the table behave alike.     *)
(***************************************************************************)
EXTENDS QueueTab

(* The part of the table that some operation may still read.  An entry on  *)
(* no list is written before it is read, and a semaphore's entries keep a  *)
(* key nobody reads, so states that differ only there behave alike.        *)
LiveTable ==
    <<[x \in Node |-> IF Owner[x] = EMPTY THEN <<>>
                      ELSE <<qnext[x], qprev[x],
                             IF Owner[x] \in SemQueue THEN 0 ELSE qkey[x]>>],
      on, regs>>

================================================================================
