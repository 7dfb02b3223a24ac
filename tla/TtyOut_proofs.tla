------------------------------ MODULE TtyOut_proofs ------------------------------
(***************************************************************************)
(* Proofs about TtyOut: for a ring of any size and any number of writers,  *)
(* preempted and killed where they may be, the semaphore counts the slots  *)
(* nobody has reserved and the character sent is the oldest one stored.    *)
(***************************************************************************)
EXTENDS TtyOut, XinuLists_proofs, FiniteSetTheorems

--------------------------------------------------------------------------------
(* Sequences.                                                              *)

(* A process queued first is taken.                                        *)
LEMMA TailRange ==
    ASSUME NEW P, NEW q \in Seq(P), IsInjective(q), q # <<>>
    PROVE  /\ Head(q) \in P /\ Head(q) \in Range(q)
           /\ Tail(q) \in Seq(P) /\ Len(Tail(q)) = Len(q) - 1
           /\ IsInjective(Tail(q)) /\ Range(Tail(q)) = Range(q) \ {Head(q)}
<1> DEFINE r == Tail(q)
<1>1. /\ Head(q) \in P /\ Head(q) = q[1] /\ r \in Seq(P) /\ Len(r) = Len(q) - 1
      /\ \A i \in 1 .. Len(r) : r[i] = q[i + 1]
      /\ Len(q) \in Nat /\ Len(q) > 0
  BY HeadTailProperties, LenProperties, EmptySeq
<1>2. DOMAIN q = 1 .. Len(q) /\ DOMAIN r = 1 .. Len(q) - 1
  BY <1>1, LenProperties
<1> HIDE DEF r
<1>3. IsInjective(r)
  <2> SUFFICES ASSUME NEW i \in 1 .. Len(q) - 1, NEW j \in 1 .. Len(q) - 1, r[i] = r[j]
               PROVE  i = j
    BY <1>2 DEF IsInjective
  <2>1. q[i + 1] = q[j + 1] /\ i + 1 \in 1 .. Len(q) /\ j + 1 \in 1 .. Len(q)
    BY <1>1
  <2>2. i + 1 = j + 1
    BY <1>2, <2>1 DEF IsInjective
  <2> QED
    BY <2>2
<1>4. ASSUME NEW x \in Range(r) PROVE x \in Range(q) \ {Head(q)}
  <2>1. PICK i \in 1 .. Len(q) - 1 : x = r[i]
    BY <1>2, <1>4 DEF Range
  <2>2. x = q[i + 1] /\ i + 1 \in 1 .. Len(q) /\ i + 1 # 1 /\ 1 \in 1 .. Len(q)
    BY <1>1, <2>1
  <2> QED
    BY <1>1, <1>2, <2>2 DEF IsInjective, Range
<1>5. ASSUME NEW x \in Range(q) \ {Head(q)} PROVE x \in Range(r)
  <2>1. PICK i \in 1 .. Len(q) : x = q[i]
    BY <1>2 DEF Range
  <2>2. i # 1
    BY <1>1, <2>1
  <2>3. i - 1 \in 1 .. Len(q) - 1 /\ (i - 1) + 1 = i
    BY <1>1, <2>1, <2>2
  <2>4. r[i - 1] = x
    BY <1>1, <2>1, <2>3
  <2> QED
    BY <1>2, <2>3, <2>4 DEF Range
<1>6. Head(q) \in Range(q)
  BY <1>1, <1>2 DEF Range
<1> QED
  BY <1>1, <1>3, <1>4, <1>5, <1>6 DEF r

(* Putting together texts that are not empty gives a text that is not.     *)
LEMMA Flattened ==
    ASSUME NEW S, NEW n \in Nat \ {0}, NEW seqs, seqs \in Seq(Seq(S)), Len(seqs) = n,
           \A i \in 1 .. n : seqs[i] # <<>>
    PROVE  FlattenSeq(seqs) \in Seq(S) /\ FlattenSeq(seqs) # <<>>
<1> DEFINE K == Seq(S)
           Joins(h) == h = [i \in 1 .. Len(seqs) |->
                               IF i = 1 THEN seqs[i] ELSE h[i - 1] \o seqs[i]]
           flatten == CHOOSE h : Joins(h)
           step == [i \in 1 .. n |-> [x \in K |-> x \o seqs[i]]]
           none == <<>>
<1>1. /\ \A i \in 1 .. n : seqs[i] \in K
      /\ none \in K
      /\ \A x \in K : none \o x = x
      /\ \A x, y \in K : x \o y \in K
      /\ \A x, y \in K : y # <<>> => x \o y # <<>>
  <2>1. \A i \in 1 .. n : seqs[i] \in K
    BY ElementOfSeq
  <2>2. none \in K /\ \A x \in K : none \o x = x
    BY ConcatEmptySeq, EmptySeq
  <2>3. \A x, y \in K : x \o y \in K
    BY ConcatProperties
  <2>4. \A x, y \in K : y # <<>> => x \o y # <<>>
    BY ConcatEqualIffEmpty
  <2> QED
    BY <2>1, <2>2, <2>3, <2>4
<1> HIDE DEF K, none
<1>2. step \in [1 .. n -> [K -> K]]
  BY <1>1
<1>3. \A x \in K : \A i \in 1 .. n : step[i][x] = x \o seqs[i]
  OBVIOUS
<1> HIDE DEF step
<1>4. PICK h \in [0 .. n -> K] : h[0] = none /\ \A i \in 1 .. n : h[i] = step[i][h[i - 1]]
  <2>1. \E h \in [0 .. n -> K] : Iterated(h, n, none, step)
    BY <1>1, <1>2, Iterates
  <2> QED
    BY <2>1 DEF Iterated
<1>5. \E f : Joins(f)
  <2> DEFINE f == [i \in 1 .. n |-> h[i]]
  <2>1. ASSUME NEW i \in 1 .. n
        PROVE  f[i] = IF i = 1 THEN seqs[i] ELSE f[i - 1] \o seqs[i]
    <3>0. i - 1 \in 0 .. n /\ h[i - 1] \in K
      BY <1>4
    <3>1. f[i] = h[i - 1] \o seqs[i]
      BY <1>3, <1>4, <3>0
    <3>2. CASE i = 1
      <4>1. h[i - 1] = none /\ seqs[i] \in K
        BY <1>1, <1>4, <3>2
      <4>2. none \o seqs[i] = seqs[i]
        BY <1>1, <4>1
      <4> HIDE DEF f
      <4> QED
        BY <3>1, <3>2, <4>1, <4>2
    <3>3. CASE i # 1
      <4>1. i - 1 \in 1 .. n
        BY <3>3
      <4>2. f[i - 1] = h[i - 1]
        BY <4>1
      <4> HIDE DEF f
      <4> QED
        BY <3>1, <3>3, <4>2
    <3> QED
      BY <3>2, <3>3
  <2>2. f = [i \in 1 .. n |-> IF i = 1 THEN seqs[i] ELSE f[i - 1] \o seqs[i]]
    BY <2>1
  <2> HIDE DEF f
  <2> QED
    BY <2>2
<1>6. Joins(flatten)
  BY <1>5
<1>7. FlattenSeq(seqs) = flatten[n]
  BY DEF FlattenSeq
<1>8. \A i \in 1 .. n : flatten[i] = IF i = 1 THEN seqs[i] ELSE flatten[i - 1] \o seqs[i]
  <2> HIDE DEF flatten
  <2> QED
    BY <1>6
<1> HIDE DEF flatten
<1> DEFINE T == {i \in 0 .. n : i = 0 \/ (flatten[i] \in K /\ flatten[i] # <<>>)}
<1>9. \A i \in 1 .. n : i - 1 \in T => i \in T
  <2> SUFFICES ASSUME NEW i \in 1 .. n, i - 1 \in T
               PROVE  flatten[i] \in K /\ flatten[i] # <<>>
    OBVIOUS
  <2>1. CASE i = 1
    BY <1>1, <1>8, <2>1
  <2>2. CASE i # 1
    <3>1. flatten[i - 1] \in K
      <4>1. i - 1 # 0
        BY <2>2
      <4> QED
        BY <4>1
    <3>2. flatten[i] = flatten[i - 1] \o seqs[i]
      BY <1>8, <2>2
    <3> QED
      BY <1>1, <3>1, <3>2
  <2> QED
    BY <2>1, <2>2
<1>10. \A i \in 0 .. n : i \in T
  <2>1. 0 \in T
    OBVIOUS
  <2> HIDE DEF T
  <2> QED
    BY <1>9, <2>1, Ascent
<1>11. flatten[n] \in K /\ flatten[n] # <<>>
  BY <1>10
<1> QED
  BY <1>7, <1>11 DEF K

--------------------------------------------------------------------------------
(* The invariant.                                                          *)

(* The place that is i behind the head in the ring.                        *)
Slot(i) == IF tyohead + i >= OBUFLEN THEN tyohead + i - OBUFLEN ELSE tyohead + i

(* Writers whose character is in the ring.                                 *)
Stored == {p \in Writers : at[p] \in {"wrap", "kick"}}

(* tyosem: its queue, and what it counts.                                  *)
Counted ==
    /\ IsInjective(owait)
    /\ \A p \in Writers : p \in Range(owait) <=> at[p] = "queued"
    /\ IsFiniteSet(Inside)
    /\ ocount = OBUFLEN - Cardinality(Inside) - Len(owait)
    /\ Cardinality(Inside) <= OBUFLEN
    /\ owait # <<>> => Cardinality(Inside) = OBUFLEN

(* The ring from its head holds what is due, and the tail is behind it.    *)
Filled ==
    /\ Len(due) = Cardinality(Stored)
    /\ \A i \in 1 .. Len(due) : tyobuff[Slot(i - 1)] = due[i]
    /\ \A p, q \in Moving : p = q
    /\ Moving = {} => tyotail = Slot(Len(due))
    /\ \A p \in Writers :
          /\ at[p] \in {"advance", "store"} => reg[p] = Slot(Len(due))
          /\ at[p] = "advance" => tyotail = Slot(Len(due))
          /\ at[p] = "store" => tyotail = Slot(Len(due)) + 1
          /\ at[p] = "wrap" => tyotail = Slot(Len(due) - 1) + 1

(* A call has characters left to put.                                      *)
Unput == \A p \in Writers : at[p] # "user" => todo[p] # <<>>

IInv ==
    /\ TypeOK
    /\ Unput
    /\ SendsOldest
    /\ lost = "no" => Counted /\ Filled

LEMMA Sizes == OBUFLEN \in Nat /\ OBUFLEN > 0 /\ NONE \notin Writers
  BY TtyOutAssumption DEF NONE

(* As many characters are in the ring as writers inside have stored one.   *)
LEMMA Room ==
    ASSUME IInv, lost = "no"
    PROVE  /\ IsFiniteSet(Stored) /\ Cardinality(Stored) = Len(due)
           /\ IsFiniteSet(Inside) /\ Cardinality(Inside) \in Nat
           /\ Len(due) \in Nat /\ Len(due) <= Cardinality(Inside)
           /\ Cardinality(Inside) <= OBUFLEN
           /\ Len(owait) \in Nat
<1>1. Stored \in SUBSET Inside
  BY DEF Stored, Inside
<1>2. IsFiniteSet(Inside) /\ Cardinality(Inside) <= OBUFLEN /\ Cardinality(Stored) = Len(due)
  BY DEF IInv, Counted, Filled
<1>3. /\ IsFiniteSet(Stored) /\ Cardinality(Stored) <= Cardinality(Inside)
      /\ Cardinality(Inside) \in Nat /\ Cardinality(Stored) \in Nat
  BY <1>1, <1>2, FS_Subset, FS_CardinalityType
<1>4. Len(owait) \in Nat
  BY LenProperties DEF IInv, TypeOK
<1> QED
  BY <1>2, <1>3, <1>4

(* Places in the ring.                                                     *)
LEMMA SlotFacts ==
    ASSUME tyohead \in 0 .. OBUFLEN - 1
    PROVE  /\ \A i \in 0 .. OBUFLEN : Slot(i) \in 0 .. OBUFLEN - 1
           /\ \A i, j \in 0 .. OBUFLEN - 1 : Slot(i) = Slot(j) => i = j
           /\ Slot(0) = tyohead
           /\ \A i \in 1 .. OBUFLEN : Wrap(Slot(i - 1) + 1) = Slot(i)
BY Sizes DEF Slot, Wrap

LEMMA SlotShift ==
    ASSUME tyohead \in 0 .. OBUFLEN - 1, tyohead' = Wrap(tyohead + 1)
    PROVE  /\ tyohead' \in 0 .. OBUFLEN - 1
           /\ \A i \in 1 .. OBUFLEN : Slot(i - 1)' = Slot(i)
BY Sizes DEF Slot, Wrap

(* A writer goes from one place to another; nobody else moves.             *)
LEMMA Going1 ==
    ASSUME at \in [Writers -> Places], NEW p \in Writers, NEW where \in Places, Goto(p, where)
    PROVE  /\ at' \in [Writers -> Places] /\ at'[p] = where
           /\ \A q \in Writers : q # p => at'[q] = at[q]
BY DEF Goto

(* Only the place of p changes, inside or outside: the queue is the same.  *)
LEMMA CountedStays ==
    ASSUME Counted, UNCHANGED sem, Inside' = Inside,
           \A p \in Writers : at'[p] = "queued" <=> at[p] = "queued"
    PROVE  Counted'
BY DEF Counted, sem

(* Places at which a writer has nothing to do with the ring.               *)
Outside == {"user", "wait", "queued", "load"}

LEMMA FilledStays ==
    ASSUME Filled, UNCHANGED <<ring, due, reg>>,
           \A q \in Writers : at'[q] = at[q] \/ (at[q] \in Outside /\ at'[q] \in Outside)
    PROVE  Filled' /\ Moving' = Moving
<1>1. Moving' = Moving /\ Stored' = Stored
  BY DEF Moving, Stored, Outside
<1>2. \A i : Slot(i)' = Slot(i)
  BY DEF Slot, ring
<1> QED
  BY <1>1, <1>2 DEF Filled, ring, Outside

LEMMA OldestStays ==
    ASSUME SendsOldest, UNCHANGED <<tyobuff, tyohead, due>>,
           \A q \in Writers : at'[q] = "kick" => at[q] = "kick"
    PROVE  SendsOldest'
BY DEF SendsOldest

LEMMA CallStep ==
    ASSUME IInv, lost = "no", NEW p \in Writers, NEW n \in Lengths,
           NEW chars \in [1 .. n -> Chars], Call(p, chars)
    PROVE  IInv'
<1>1. /\ at[p] = "user" /\ cpu' = p /\ Goto(p, "wait")
      /\ todo' = [todo EXCEPT ![p] = FlattenSeq([i \in DOMAIN chars |-> Crlf(chars[i])])]
      /\ masked' = [masked EXCEPT ![p] = TRUE]
      /\ UNCHANGED <<ring, sem, reg, due, lost>>
  BY DEF Call, Runs
<1>2. /\ at' \in [Writers -> Places] /\ at'[p] = "wait"
      /\ \A q \in Writers : q # p => at'[q] = at[q]
  BY <1>1, Going1 DEF IInv, TypeOK, Places
<1> DEFINE text == FlattenSeq([i \in DOMAIN chars |-> Crlf(chars[i])])
<1>3. text \in Seq(Chars \cup {"cr"}) /\ text # <<>>
  <2> DEFINE S == Chars \cup {"cr"}
             seqs == [i \in DOMAIN chars |-> Crlf(chars[i])]
  <2>1. n \in Nat \ {0} /\ DOMAIN chars = 1 .. n
    BY TtyOutAssumption
  <2>2. \A i \in 1 .. n : Crlf(chars[i]) \in Seq(S) /\ Crlf(chars[i]) # <<>>
    <3> SUFFICES ASSUME NEW i \in 1 .. n
                 PROVE  Crlf(chars[i]) \in Seq(S) /\ Crlf(chars[i]) # <<>>
      OBVIOUS
    <3>1. chars[i] \in S /\ "cr" \in S
      OBVIOUS
    <3> HIDE DEF S
    <3> DEFINE c == chars[i]
    <3>2. c \in S
      BY <3>1
    <3> HIDE DEF c
    <3>3. CASE c = "nl"
      <4>1. Crlf(c) = <<"cr", "nl">> /\ "nl" \in S
        BY <3>2, <3>3 DEF Crlf
      <4>2. <<"cr", "nl">> \in Seq(S) /\ <<"cr", "nl">> # <<>>
        BY <3>1, <4>1
      <4> QED
        BY <4>1, <4>2 DEF c
    <3>4. CASE c # "nl"
      <4>1. Crlf(c) = <<c>>
        BY <3>4 DEF Crlf
      <4>2. <<c>> \in Seq(S) /\ <<c>> # <<>>
        BY <3>2
      <4> QED
        BY <4>1, <4>2 DEF c
    <3> QED
      BY <3>3, <3>4
  <2>3. seqs = [i \in 1 .. n |-> Crlf(chars[i])]
    BY <2>1
  <2>4. seqs \in Seq(Seq(S)) /\ Len(seqs) = n /\ \A i \in 1 .. n : seqs[i] # <<>>
    <3>1. \A i \in 1 .. n : seqs[i] = Crlf(chars[i])
      BY <2>3
    <3>2. [i \in 1 .. n |-> Crlf(chars[i])] \in Seq(Seq(S))
      BY <2>1, <2>2, IsASeq
    <3>3. Len([i \in 1 .. n |-> Crlf(chars[i])]) = n
      BY <2>1
    <3> HIDE DEF S
    <3> QED
      BY <2>2, <2>3, <3>1, <3>2, <3>3
  <2> HIDE DEF seqs, S
  <2>5. FlattenSeq(seqs) \in Seq(S) /\ FlattenSeq(seqs) # <<>>
    BY <2>1, <2>4, Flattened
  <2> QED
    BY <2>5 DEF seqs, S
<1> HIDE DEF text
<1>4. \A q \in Writers : at'[q] = at[q] \/ (at[q] \in Outside /\ at'[q] \in Outside)
  BY <1>1, <1>2 DEF Outside
<1>5. Filled' /\ Moving' = Moving
  BY <1>1, <1>4, FilledStays DEF IInv
<1>6. Counted'
  <2>1. Inside' = Inside
    BY <1>1, <1>2 DEF Inside
  <2> QED
    BY <1>1, <1>2, <2>1, CountedStays DEF IInv
<1>7. todo' = [todo EXCEPT ![p] = text]
  BY <1>1 DEF text
<1>8. Unput'
  BY <1>2, <1>3, <1>7 DEF IInv, Unput, TypeOK
<1>9. SendsOldest'
  BY <1>1, <1>2, OldestStays DEF IInv, ring
<1>10. TypeOK'
  BY <1>1, <1>2, <1>3, <1>5, <1>7 DEF IInv, TypeOK, ring, sem
<1> QED
  BY <1>5, <1>6, <1>8, <1>9, <1>10 DEF IInv

LEMMA WaitPassesStep ==
    ASSUME IInv, lost = "no", NEW p \in Writers, WaitPasses(p)
    PROVE  IInv'
<1>1. /\ at[p] = "wait" /\ cpu' = p /\ Goto(p, "load") /\ ocount > 0
      /\ ocount' = ocount - 1
      /\ UNCHANGED <<ring, owait, todo, reg, masked, due, lost>>
  BY DEF WaitPasses, Runs
<1>2. /\ at' \in [Writers -> Places] /\ at'[p] = "load"
      /\ \A q \in Writers : q # p => at'[q] = at[q]
  BY <1>1, Going1 DEF IInv, TypeOK, Places
<1>3. Filled' /\ Moving' = Moving
  <2>1. \A q \in Writers : at'[q] = at[q] \/ (at[q] \in Outside /\ at'[q] \in Outside)
    BY <1>1, <1>2 DEF Outside
  <2> QED
    BY <1>1, <2>1, FilledStays DEF IInv
<1>4. Counted'
  <2>1. p \notin Inside /\ Inside' = Inside \cup {p}
    BY <1>1, <1>2 DEF Inside
  <2>2. IsFiniteSet(Inside') /\ Cardinality(Inside') = Cardinality(Inside) + 1
    BY <2>1, FS_AddElement, Room
  <2>3. ocount = OBUFLEN - Cardinality(Inside) - Len(owait)
    BY DEF IInv, Counted
  <2>4. Cardinality(Inside) < OBUFLEN
    BY <1>1, <2>3, Room, Sizes
  <2>5. owait = <<>>
    BY <2>4, Room, Sizes DEF IInv, Counted
  <2>6. /\ ocount' = OBUFLEN - Cardinality(Inside') - Len(owait')
        /\ Cardinality(Inside') <= OBUFLEN
    BY <1>1, <2>2, <2>3, <2>4, Room, Sizes
  <2>7. \A q \in Writers : q \in Range(owait') <=> at'[q] = "queued"
    BY <1>1, <1>2 DEF IInv, Counted
  <2> QED
    BY <1>1, <2>2, <2>5, <2>6, <2>7 DEF IInv, Counted
<1>5. Unput' /\ SendsOldest'
  BY <1>1, <1>2, OldestStays DEF IInv, Unput, ring
<1>6. TypeOK'
  BY <1>1, <1>2, <1>3 DEF IInv, TypeOK, ring
<1> QED
  BY <1>3, <1>4, <1>5, <1>6 DEF IInv

LEMMA WaitBlocksStep ==
    ASSUME IInv, lost = "no", NEW p \in Writers, WaitBlocks(p)
    PROVE  IInv'
<1>1. /\ at[p] = "wait" /\ cpu' = NONE /\ Goto(p, "queued") /\ ocount <= 0
      /\ ocount' = ocount - 1 /\ owait' = Append(owait, p)
      /\ UNCHANGED <<ring, todo, reg, masked, due, lost>>
  BY DEF WaitBlocks
<1>2. /\ at' \in [Writers -> Places] /\ at'[p] = "queued"
      /\ \A q \in Writers : q # p => at'[q] = at[q]
  BY <1>1, Going1 DEF IInv, TypeOK, Places
<1>3. Filled' /\ Moving' = Moving
  <2>1. \A q \in Writers : at'[q] = at[q] \/ (at[q] \in Outside /\ at'[q] \in Outside)
    BY <1>1, <1>2 DEF Outside
  <2> QED
    BY <1>1, <2>1, FilledStays DEF IInv
<1>4. /\ owait' \in Seq(Writers) /\ Len(owait') = Len(owait) + 1
      /\ IsInjective(owait') /\ Range(owait') = Range(owait) \cup {p}
  BY <1>1, AppendRange DEF IInv, TypeOK, Counted
<1>5. Counted'
  <2>1. Inside' = Inside
    BY <1>1, <1>2 DEF Inside
  <2>2. ocount = OBUFLEN - Cardinality(Inside) - Len(owait)
    BY DEF IInv, Counted
  <2>3. Cardinality(Inside) = OBUFLEN
    <3>1. CASE owait = <<>>
      <4>1. Len(owait) = 0
        BY <3>1
      <4> QED
        BY <1>1, <2>2, <4>1, Room, Sizes
    <3> QED
      BY <3>1 DEF IInv, Counted
  <2>4. ocount' = OBUFLEN - Cardinality(Inside') - Len(owait')
    BY <1>1, <1>4, <2>1, <2>2, Room, Sizes
  <2>5. \A q \in Writers : q \in Range(owait') <=> at'[q] = "queued"
    BY <1>2, <1>4 DEF IInv, Counted
  <2> QED
    BY <1>4, <2>1, <2>3, <2>4, <2>5, Room DEF Counted
<1>6. Unput' /\ SendsOldest'
  BY <1>1, <1>2, OldestStays DEF IInv, Unput, ring
<1>7. TypeOK'
  BY <1>1, <1>2, <1>3, <1>4 DEF IInv, TypeOK, ring
<1> QED
  BY <1>3, <1>5, <1>6, <1>7 DEF IInv


(* Two characters in a row: the writers that move the tail are one.        *)
LEMMA OneMover ==
    ASSUME Filled, NEW p \in Moving
    PROVE  \A q \in Writers : q # p => q \notin Moving
BY DEF Filled

(* What is sent next is at the head when the ring is as it should be.      *)
LEMMA FilledSendsOldest ==
    ASSUME TypeOK, IsFiniteSet(Stored), Filled
    PROVE  SendsOldest
<1> SUFFICES ASSUME NEW p \in Writers, at[p] = "kick"
             PROVE  due # <<>> /\ tyobuff[tyohead] = Head(due)
  BY DEF SendsOldest
<1>1. p \in Stored
  BY DEF Stored
<1>2. Cardinality(Stored) # 0
  BY <1>1, FS_EmptySet
<1>3. Len(due) \in Nat /\ Len(due) # 0
  BY <1>2, LenProperties DEF Filled, TypeOK
<1>4. due # <<>> /\ Head(due) = due[1]
  BY <1>3, EmptySeq, HeadTailProperties DEF TypeOK
<1>5. tyobuff[Slot(0)] = due[1]
  <2>1. 1 \in 1 .. Len(due) /\ 1 - 1 = 0
    BY <1>3
  <2> QED
    BY <2>1 DEF Filled
<1>6. Slot(0) = tyohead
  BY SlotFacts DEF TypeOK
<1> QED
  BY <1>4, <1>5, <1>6

LEMMA LoadStep ==
    ASSUME IInv, lost = "no", NEW p \in Writers, Load(p)
    PROVE  IInv'
<1>1. /\ at[p] = "load" /\ cpu' = p /\ Goto(p, "advance")
      /\ reg' = [reg EXCEPT ![p] = tyotail]
      /\ lost' = (IF Moving = {} THEN "no" ELSE "tail")
      /\ UNCHANGED <<ring, sem, todo, masked, due>>
  BY DEF Load, Runs
<1>2. /\ at' \in [Writers -> Places] /\ at'[p] = "advance"
      /\ \A q \in Writers : q # p => at'[q] = at[q]
  BY <1>1, Going1 DEF IInv, TypeOK, Places
<1>3. Unput' /\ SendsOldest'
  BY <1>1, <1>2, OldestStays DEF IInv, Unput, ring
<1>4. p \in Moving'
  BY <1>2 DEF Moving
<1>5. /\ reg' \in [Writers -> 0 .. OBUFLEN] /\ reg'[p] = tyotail
      /\ \A q \in Writers : q # p => reg'[q] = reg[q]
  BY <1>1 DEF IInv, TypeOK
<1>6. lost' # "tail" => \A q \in Writers : reg'[q] < OBUFLEN
  <2> SUFFICES ASSUME lost' # "tail" PROVE \A q \in Writers : reg'[q] < OBUFLEN
    OBVIOUS
  <2>1. Moving = {}
    BY <1>1
  <2>2. tyotail < OBUFLEN
    BY <2>1, Sizes DEF IInv, TypeOK
  <2> QED
    BY <1>5, <2>2 DEF IInv, TypeOK
<1>7. TypeOK'
  <2>1. lost' \in {"no", "tail", "slot"}
    BY <1>1
  <2> QED
    BY <1>1, <1>2, <1>4, <1>5, <1>6, <2>1 DEF IInv, TypeOK, ring, sem
<1>8. ASSUME lost' = "no" PROVE Counted' /\ Filled'
  <2>1. Moving = {}
    BY <1>1, <1>8
  <2>2. Inside' = Inside /\ Stored' = Stored /\ Moving' = {p}
    BY <1>1, <1>2, <2>1 DEF Inside, Stored, Moving
  <2>3. Counted'
    BY <1>1, <1>2, <2>2, CountedStays DEF IInv
  <2>4. \A i : Slot(i)' = Slot(i)
    BY <1>1 DEF Slot, ring
  <2>5. tyotail = Slot(Len(due)) /\ tyotail' = tyotail /\ due' = due /\ tyobuff' = tyobuff
    BY <1>1, <2>1 DEF IInv, Filled, ring
  <2>6. /\ Len(due') = Cardinality(Stored')
        /\ \A i \in 1 .. Len(due') : tyobuff'[Slot(i - 1)'] = due'[i]
    BY <2>2, <2>4, <2>5 DEF IInv, Filled
  <2>7. \A q \in Writers :
           /\ at'[q] \in {"advance", "store"} => reg'[q] = Slot(Len(due))'
           /\ at'[q] = "advance" => tyotail' = Slot(Len(due))'
           /\ at'[q] = "store" => tyotail' = Slot(Len(due))' + 1
           /\ at'[q] = "wrap" => tyotail' = Slot(Len(due) - 1)' + 1
    <3> SUFFICES ASSUME NEW q \in Writers, at'[q] \in {"advance", "store", "wrap"}
                 PROVE  /\ at'[q] = "advance" /\ reg'[q] = Slot(Len(due))'
                        /\ tyotail' = Slot(Len(due))'
      OBVIOUS
    <3>1. q = p
      BY <2>2 DEF Moving
    <3> QED
      BY <1>2, <1>5, <2>4, <2>5, <3>1
  <2> QED
    BY <2>2, <2>3, <2>6, <2>7 DEF Filled
<1> QED
  BY <1>3, <1>7, <1>8 DEF IInv

LEMMA AdvanceStep ==
    ASSUME IInv, lost = "no", NEW p \in Writers, Advance(p)
    PROVE  IInv'
<1>1. /\ at[p] = "advance" /\ cpu' = p /\ Goto(p, "store") /\ tyotail' = reg[p] + 1
      /\ UNCHANGED <<tyobuff, tyohead, sem, todo, reg, masked, due, lost>>
  BY DEF Advance, Runs
<1>2. /\ at' \in [Writers -> Places] /\ at'[p] = "store"
      /\ \A q \in Writers : q # p => at'[q] = at[q]
  BY <1>1, Going1 DEF IInv, TypeOK, Places
<1>3. Unput' /\ SendsOldest'
  BY <1>1, <1>2, OldestStays DEF IInv, Unput
<1>4. p \in Moving /\ Inside' = Inside /\ Stored' = Stored /\ Moving' = Moving
  BY <1>1, <1>2 DEF Inside, Stored, Moving
<1>5. Counted'
  BY <1>1, <1>2, <1>4, CountedStays DEF IInv
<1>6. tyotail' \in 0 .. OBUFLEN
  BY <1>1, Sizes DEF IInv, TypeOK
<1>7. TypeOK'
  BY <1>1, <1>2, <1>4, <1>6 DEF IInv, TypeOK, sem
<1>8. Filled'
  <2>1. \A i : Slot(i)' = Slot(i)
    BY <1>1 DEF Slot
  <2>2. \A q \in Writers : q # p => q \notin Moving
    BY <1>4, OneMover DEF IInv
  <2>3. /\ Len(due') = Cardinality(Stored')
        /\ \A i \in 1 .. Len(due') : tyobuff'[Slot(i - 1)'] = due'[i]
        /\ \A q, r \in Moving' : q = r
    BY <1>1, <1>4, <2>1 DEF IInv, Filled
  <2>4. reg[p] = Slot(Len(due))
    BY <1>1 DEF IInv, Filled
  <2>5. \A q \in Writers :
           /\ at'[q] \in {"advance", "store"} => reg'[q] = Slot(Len(due))'
           /\ at'[q] = "advance" => tyotail' = Slot(Len(due))'
           /\ at'[q] = "store" => tyotail' = Slot(Len(due))' + 1
           /\ at'[q] = "wrap" => tyotail' = Slot(Len(due) - 1)' + 1
    <3> SUFFICES ASSUME NEW q \in Writers, at'[q] \in {"advance", "store", "wrap"}
                 PROVE  /\ at'[q] = "store" /\ reg'[q] = Slot(Len(due))'
                        /\ tyotail' = Slot(Len(due))' + 1
      OBVIOUS
    <3>1. q = p
      BY <1>4, <2>2 DEF Moving
    <3> QED
      BY <1>1, <1>2, <2>1, <2>4, <3>1
  <2> QED
    BY <1>4, <2>3, <2>5 DEF Filled
<1> QED
  BY <1>3, <1>5, <1>7, <1>8 DEF IInv

LEMMA StoreStep ==
    ASSUME IInv, lost = "no", NEW p \in Writers, Store(p)
    PROVE  IInv'
<1> DEFINE c == <<p, Head(todo[p])>>
           n == Len(due)
<1>1. /\ at[p] = "store" /\ cpu' = p /\ Goto(p, "wrap")
      /\ tyobuff' = [tyobuff EXCEPT ![reg[p]] = c]
      /\ due' = Append(due, c)
      /\ UNCHANGED <<tyohead, tyotail, sem, todo, reg, masked, lost>>
  BY DEF Store, Runs
<1>2. /\ at' \in [Writers -> Places] /\ at'[p] = "wrap"
      /\ \A q \in Writers : q # p => at'[q] = at[q]
  BY <1>1, Going1 DEF IInv, TypeOK, Places
<1>3. /\ p \in Moving /\ Inside' = Inside /\ Stored' = Stored \cup {p} /\ Moving' = Moving
      /\ p \notin Stored /\ p \in Inside
  BY <1>1, <1>2 DEF Inside, Stored, Moving
<1>4. Counted'
  BY <1>1, <1>2, <1>3, CountedStays DEF IInv
<1>5. c \in Writers \X (Chars \cup {"cr"})
  <2>1. todo[p] # <<>> /\ todo[p] \in Seq(Chars \cup {"cr"})
    BY <1>1 DEF IInv, Unput, TypeOK
  <2>2. Head(todo[p]) \in Chars \cup {"cr"}
    BY <2>1, HeadTailProperties
  <2> QED
    BY <2>2
<1>6. n \in Nat /\ n + 1 <= OBUFLEN /\ Cardinality(Stored') = n + 1
  <2>1. IsFiniteSet(Stored) /\ Cardinality(Stored) = n /\ n \in Nat
    BY Room
  <2>2. IsFiniteSet(Stored \cup {p}) /\ Cardinality(Stored \cup {p}) = n + 1
    BY <1>3, <2>1, FS_AddElement
  <2>3. Stored \cup {p} \in SUBSET Inside
    BY <1>3 DEF Stored, Inside
  <2>4. Cardinality(Stored \cup {p}) <= Cardinality(Inside)
    BY <2>3, FS_Subset, Room
  <2> QED
    BY <1>3, <2>1, <2>2, <2>4, Room, Sizes
<1> HIDE DEF c, n
<1>7. due \in Seq(Writers \X (Chars \cup {"cr"})) /\ Len(due) = n
  BY DEF IInv, TypeOK, n
<1>8. /\ due' \in Seq(Writers \X (Chars \cup {"cr"})) /\ Len(due') = n + 1 /\ due'[n + 1] = c
      /\ \A i \in 1 .. n : due'[i] = due[i]
  BY <1>1, <1>5, <1>7, AppendProperties
<1>9. reg[p] = Slot(n) /\ tyotail = Slot(n) + 1
  BY <1>1 DEF IInv, Filled, n
<1>10. \A i : Slot(i)' = Slot(i)
  BY <1>1 DEF Slot
<1>11. tyohead \in 0 .. OBUFLEN - 1 /\ Slot(n) \in 0 .. OBUFLEN - 1
  <2>1. tyohead \in 0 .. OBUFLEN - 1
    BY DEF IInv, TypeOK
  <2>2. n \in 0 .. OBUFLEN
    BY <1>6, Sizes
  <2> QED
    BY <2>1, <2>2, SlotFacts
<1>12. /\ tyobuff' \in [0 .. OBUFLEN - 1 -> (Writers \cup {NONE}) \X (Chars \cup {"cr", "nul"})]
       /\ tyobuff'[Slot(n)] = c
       /\ \A i \in 0 .. OBUFLEN - 1 : i # Slot(n) => tyobuff'[i] = tyobuff[i]
  <2>1. c \in (Writers \cup {NONE}) \X (Chars \cup {"cr", "nul"})
    BY <1>5
  <2> QED
    BY <1>1, <1>9, <1>11, <2>1 DEF IInv, TypeOK
<1>13. \A i \in 1 .. n + 1 : tyobuff'[Slot(i - 1)] = due'[i]
  <2> SUFFICES ASSUME NEW i \in 1 .. n + 1 PROVE tyobuff'[Slot(i - 1)] = due'[i]
    OBVIOUS
  <2>1. CASE i = n + 1
    <3>1. i - 1 = n
      BY <1>6, <2>1
    <3> QED
      BY <1>8, <1>12, <2>1, <3>1
  <2>2. CASE i # n + 1
    <3>1. i \in 1 .. n /\ i - 1 \in 0 .. OBUFLEN - 1 /\ n \in 0 .. OBUFLEN - 1 /\ i - 1 # n
      BY <1>6, <2>2, Sizes
    <3>2. Slot(i - 1) \in 0 .. OBUFLEN - 1 /\ Slot(i - 1) # Slot(n)
      <4>1. i - 1 \in 0 .. OBUFLEN
        BY <3>1, Sizes
      <4> QED
        BY <1>11, <3>1, <4>1, SlotFacts
    <3>3. tyobuff[Slot(i - 1)] = due[i]
      BY <1>7, <3>1 DEF IInv, Filled
    <3> QED
      BY <1>8, <1>12, <3>1, <3>2, <3>3
  <2> QED
    BY <2>1, <2>2
<1>14. Filled'
  <2>1. \A q \in Writers : q # p => q \notin Moving
    BY <1>3, OneMover DEF IInv
  <2>2. \A q \in Writers :
           /\ at'[q] \in {"advance", "store"} => reg'[q] = Slot(Len(due))'
           /\ at'[q] = "advance" => tyotail' = Slot(Len(due))'
           /\ at'[q] = "store" => tyotail' = Slot(Len(due))' + 1
           /\ at'[q] = "wrap" => tyotail' = Slot(Len(due) - 1)' + 1
    <3> SUFFICES ASSUME NEW q \in Writers, at'[q] \in {"advance", "store", "wrap"}
                 PROVE  at'[q] = "wrap" /\ tyotail' = Slot(Len(due) - 1)' + 1
      OBVIOUS
    <3>1. q = p
      BY <1>3, <2>1 DEF Moving
    <3>2. Slot(Len(due) - 1)' = Slot(n)
      <4>1. Len(due') - 1 = n
        BY <1>6, <1>8
      <4>2. Slot(Len(due) - 1)' = IF tyohead' + (Len(due') - 1) >= OBUFLEN
                                  THEN tyohead' + (Len(due') - 1) - OBUFLEN
                                  ELSE tyohead' + (Len(due') - 1)
        BY DEF Slot
      <4> QED
        BY <1>1, <4>1, <4>2 DEF Slot
    <3> QED
      BY <1>1, <1>2, <1>9, <3>1, <3>2
  <2>3. \A q, r \in Moving' : q = r
    BY <1>3 DEF IInv, Filled
  <2>4. Len(due') = Cardinality(Stored')
    BY <1>6, <1>8
  <2>5. \A i \in 1 .. Len(due') : tyobuff'[Slot(i - 1)'] = due'[i]
    BY <1>8, <1>10, <1>13
  <2> QED
    BY <1>3, <2>2, <2>3, <2>4, <2>5 DEF Filled
<1>15. Unput'
  BY <1>1, <1>2 DEF IInv, Unput
<1>16. TypeOK'
  BY <1>1, <1>2, <1>3, <1>8, <1>12 DEF IInv, TypeOK, sem
<1>17. SendsOldest'
  <2>1. \A q \in Writers : at'[q] = "kick" => at[q] = "kick"
    BY <1>2
  <2> SUFFICES ASSUME NEW q \in Writers, at'[q] = "kick"
               PROVE  due' # <<>> /\ tyobuff'[tyohead'] = Head(due')
    BY DEF SendsOldest
  <2>2. due' # <<>> /\ Head(due') = due'[1]
    BY <1>6, <1>8, EmptySeq, HeadTailProperties
  <2>3. 1 \in 1 .. n + 1 /\ 1 - 1 = 0
    BY <1>6
  <2>4. tyobuff'[Slot(0)] = due'[1]
    BY <1>13, <2>3
  <2>5. Slot(0) = tyohead /\ tyohead' = tyohead
    BY <1>1, <1>11, SlotFacts
  <2> QED
    BY <2>2, <2>4, <2>5
<1> QED
  BY <1>4, <1>14, <1>15, <1>16, <1>17 DEF IInv

LEMMA WrapTailStep ==
    ASSUME IInv, lost = "no", NEW p \in Writers, WrapTail(p)
    PROVE  IInv'
<1>1. /\ at[p] = "wrap" /\ cpu' = p /\ Goto(p, "kick") /\ tyotail' = Wrap(tyotail)
      /\ reg' = [reg EXCEPT ![p] = 0]
      /\ UNCHANGED <<tyobuff, tyohead, sem, todo, masked, due, lost>>
  BY DEF WrapTail, Runs
<1>2. /\ at' \in [Writers -> Places] /\ at'[p] = "kick"
      /\ \A q \in Writers : q # p => at'[q] = at[q]
  BY <1>1, Going1 DEF IInv, TypeOK, Places
<1>3. p \in Moving /\ p \in Stored /\ Inside' = Inside /\ Stored' = Stored
  BY <1>1, <1>2 DEF Inside, Stored, Moving
<1>4. \A q \in Writers : q # p => q \notin Moving
  BY <1>3, OneMover DEF IInv
<1>5. Moving' = {}
  BY <1>2, <1>4 DEF Moving
<1>6. Counted'
  BY <1>1, <1>2, <1>3, CountedStays DEF IInv
<1>7. Len(due) \in 1 .. OBUFLEN
  <2>1. Cardinality(Stored) # 0
    BY <1>3, Room, FS_EmptySet
  <2> QED
    BY <2>1, Room, Sizes
<1>8. tyotail' = Slot(Len(due)) /\ tyotail' \in 0 .. OBUFLEN - 1
  <2>1. tyotail = Slot(Len(due) - 1) + 1
    BY <1>1 DEF IInv, Filled
  <2>2. Wrap(Slot(Len(due) - 1) + 1) = Slot(Len(due))
    BY <1>7, SlotFacts DEF IInv, TypeOK
  <2>3. Slot(Len(due)) \in 0 .. OBUFLEN - 1
    BY <1>7, SlotFacts DEF IInv, TypeOK
  <2> QED
    BY <1>1, <2>1, <2>2, <2>3
<1>9. Filled'
  <2>1. \A i : Slot(i)' = Slot(i)
    BY <1>1 DEF Slot
  <2>2. \A q \in Writers : at'[q] \notin {"advance", "store", "wrap"}
    BY <1>5 DEF Moving
  <2>3. \A q, r \in Moving' : q = r
    BY <1>5
  <2>4. /\ Len(due') = Cardinality(Stored')
        /\ \A i \in 1 .. Len(due') : tyobuff'[Slot(i - 1)'] = due'[i]
    BY <1>1, <1>3, <2>1 DEF IInv, Filled
  <2>5. tyotail' = Slot(Len(due))'
    BY <1>1, <1>8, <2>1
  <2> QED
    BY <2>2, <2>3, <2>4, <2>5 DEF Filled
<1>10. Unput'
  BY <1>1, <1>2 DEF IInv, Unput
<1>11. TypeOK'
  <2>1. /\ reg' \in [Writers -> 0 .. OBUFLEN]
        /\ \A q \in Writers : reg'[q] < OBUFLEN
    BY <1>1, Sizes DEF IInv, TypeOK
  <2>2. tyotail' \in 0 .. OBUFLEN /\ tyotail' # OBUFLEN
    BY <1>8, Sizes
  <2> QED
    BY <1>1, <1>2, <2>1, <2>2 DEF IInv, TypeOK, sem
<1>12. SendsOldest'
  <2>1. IsFiniteSet(Stored)'
    BY <1>3, Room
  <2> QED
    BY <1>9, <1>11, <2>1, FilledSendsOldest, PTL
<1> QED
  BY <1>6, <1>9, <1>10, <1>11, <1>12 DEF IInv

(* A kickout: one character goes, one space comes free, and the writer     *)
(* that has waited longest, if any does, has it.                           *)
LEMMA KickStep ==
    ASSUME IInv, lost = "no", NEW p \in Writers, Kick(p)
    PROVE  IInv'
<1> DEFINE h == Head(owait)
           n == Len(due)
           rest == Tail(todo[p])
           New(i) == IF tyohead' + i >= OBUFLEN THEN tyohead' + i - OBUFLEN ELSE tyohead' + i
<1>1. /\ at[p] = "kick" /\ cpu' = p /\ tyohead' = Wrap(tyohead + 1)
      /\ ocount' = ocount + 1
      /\ owait' = (IF owait = <<>> THEN <<>> ELSE Tail(owait))
      /\ at' = [q \in Writers |->
                  CASE q = p -> IF rest = <<>> THEN "user" ELSE "wait"
                    [] owait # <<>> /\ q = h -> "load"
                    [] OTHER -> at[q]]
      /\ todo' = [todo EXCEPT ![p] = rest]
      /\ due' = Tail(due)
      /\ masked' = [masked EXCEPT ![p] = FALSE]
      /\ UNCHANGED <<tyobuff, tyotail, reg, lost>>
  BY DEF Kick, Runs
<1>2. owait # <<>> => h \in Writers /\ at[h] = "queued" /\ h # p
  <2>1. owait # <<>> => h \in Writers /\ h \in Range(owait)
    BY TailRange DEF IInv, TypeOK, Counted
  <2> QED
    BY <1>1, <2>1 DEF IInv, Counted
<1> HIDE DEF h, n, rest
<1>3. /\ at'[p] = (IF rest = <<>> THEN "user" ELSE "wait")
      /\ owait # <<>> => at'[h] = "load"
      /\ \A q \in Writers : q # p /\ (owait = <<>> \/ q # h) => at'[q] = at[q]
  BY <1>1, <1>2
<1>4. at' \in [Writers -> Places]
  <2>1. \A q \in Writers : at'[q] \in Places
    BY <1>3 DEF IInv, TypeOK, Places
  <2> QED
    BY <1>1, <2>1
<1>5. p \in Stored /\ p \in Inside /\ p \notin Moving
  BY <1>1 DEF Stored, Inside, Moving
<1>6. Stored' = Stored \ {p} /\ Moving' = Moving
  BY <1>1, <1>2, <1>3 DEF Stored, Moving
<1>7. n \in 1 .. OBUFLEN /\ Cardinality(Stored') = n - 1
  <2>1. Cardinality(Stored) = n /\ IsFiniteSet(Stored) /\ n \in Nat
    BY Room DEF n
  <2>2. Cardinality(Stored \ {p}) = n - 1
    BY <1>5, <2>1, FS_RemoveElement
  <2>3. n # 0
    BY <1>5, <2>1, FS_EmptySet
  <2>4. n <= OBUFLEN
    BY Room, Sizes DEF n
  <2> QED
    BY <1>6, <2>1, <2>2, <2>3, <2>4, Sizes
<1>8. /\ due' \in Seq(Writers \X (Chars \cup {"cr"})) /\ Len(due') = n - 1
      /\ \A i \in 1 .. n - 1 : due'[i] = due[i + 1]
  <2>1. due \in Seq(Writers \X (Chars \cup {"cr"})) /\ Len(due) = n /\ due # <<>>
    BY <1>7, EmptySeq DEF IInv, TypeOK, n
  <2> QED
    BY <1>1, <2>1, HeadTailProperties
<1>9. /\ tyohead' \in 0 .. OBUFLEN - 1
      /\ \A i \in 1 .. OBUFLEN : New(i - 1) = Slot(i)
  <2>1. /\ tyohead' \in 0 .. OBUFLEN - 1
        /\ \A i \in 1 .. OBUFLEN : Slot(i - 1)' = Slot(i)
    BY <1>1, SlotShift DEF IInv, TypeOK
  <2>2. \A i : Slot(i)' = New(i)
    BY DEF Slot
  <2> QED
    BY <2>1, <2>2
<1>10. \A i \in 1 .. n - 1 : tyobuff'[New(i - 1)] = due'[i]
  <2> SUFFICES ASSUME NEW i \in 1 .. n - 1 PROVE tyobuff'[New(i - 1)] = due'[i]
    OBVIOUS
  <2>1. i \in 1 .. OBUFLEN /\ i + 1 \in 1 .. n /\ (i + 1) - 1 = i
    BY <1>7, Sizes
  <2>2. New(i - 1) = Slot(i)
    BY <1>9, <2>1
  <2>3. tyobuff[Slot(i)] = due[i + 1]
    BY <2>1 DEF IInv, Filled, n
  <2> QED
    BY <1>1, <1>8, <2>2, <2>3
<1>11. New(n - 1) = Slot(n)
  BY <1>7, <1>9
<1>12. Slot(Len(due))' = Slot(n)
  <2>1. Slot(Len(due))' = New(Len(due'))
    BY DEF Slot
  <2> QED
    BY <1>8, <1>11, <2>1
<1>13. \A q \in Writers : at'[q] \in {"advance", "store", "wrap"} => q \in Moving /\ at'[q] = at[q]
  BY <1>2, <1>3, <1>6 DEF Moving
<1>14. Filled'
  <2>1. Len(due') = Cardinality(Stored')
    BY <1>7, <1>8
  <2>2. \A i \in 1 .. Len(due') : tyobuff'[Slot(i - 1)'] = due'[i]
    BY <1>8, <1>10 DEF Slot
  <2>3. \A q, r \in Moving' : q = r
    BY <1>6 DEF IInv, Filled
  <2>4. Moving' = {} => tyotail' = Slot(Len(due))'
    BY <1>1, <1>6, <1>12 DEF IInv, Filled, n
  <2>5. \A q \in Writers :
           /\ at'[q] \in {"advance", "store"} => reg'[q] = Slot(Len(due))'
           /\ at'[q] = "advance" => tyotail' = Slot(Len(due))'
           /\ at'[q] = "store" => tyotail' = Slot(Len(due))' + 1
    BY <1>1, <1>12, <1>13 DEF IInv, Filled, n
  <2>6. ASSUME NEW q \in Writers, at'[q] = "wrap"
        PROVE  tyotail' = Slot(Len(due) - 1)' + 1
    <3>1. at[q] = "wrap"
      BY <1>13, <2>6
    <3>2. q \in Stored' /\ IsFiniteSet(Stored')
      <4>1. q \in Stored \ {p} /\ IsFiniteSet(Stored)
        BY <1>1, <3>1, Room DEF Stored
      <4> QED
        BY <1>6, <4>1, FS_RemoveElement
    <3>3. n - 1 # 0
      BY <1>7, <3>2, FS_EmptySet
    <3>4. n - 1 \in 1 .. OBUFLEN
      BY <1>7, <3>3, Sizes
    <3>5. New((n - 1) - 1) = Slot(n - 1)
      BY <1>9, <3>4
    <3>6. tyotail = Slot(n - 1) + 1
      BY <3>1 DEF IInv, Filled, n
    <3>7. Slot(Len(due) - 1)' = New(Len(due') - 1)
      BY DEF Slot
    <3> QED
      BY <1>1, <1>8, <3>5, <3>6, <3>7
  <2> QED
    BY <2>1, <2>2, <2>3, <2>4, <2>5, <2>6 DEF Filled
<1>15. Counted'
  <2>1. /\ IsFiniteSet(Inside) /\ Cardinality(Inside) \in Nat /\ Cardinality(Inside) <= OBUFLEN
        /\ Len(owait) \in Nat /\ ocount = OBUFLEN - Cardinality(Inside) - Len(owait)
    BY Room DEF IInv, Counted
  <2>2. IsFiniteSet(Inside \ {p}) /\ Cardinality(Inside \ {p}) = Cardinality(Inside) - 1
    BY <1>5, <2>1, FS_RemoveElement
  <2>3. CASE owait = <<>>
    <3>1. Inside' = Inside \ {p}
      BY <1>1, <1>3, <2>3 DEF Inside
    <3>2. owait' = owait /\ Len(owait) = 0
      BY <1>1, <2>3
    <3>3. \A q \in Writers : q \in Range(owait') <=> at'[q] = "queued"
      BY <1>1, <1>3, <2>3, <3>2 DEF IInv, Counted
    <3>4. /\ ocount' = OBUFLEN - Cardinality(Inside') - Len(owait')
          /\ Cardinality(Inside') <= OBUFLEN
      <4>1. ocount' = ocount + 1 /\ Cardinality(Inside') = Cardinality(Inside) - 1
        BY <1>1, <2>2, <3>1
      <4>2. Len(owait') = 0
        BY <3>2
      <4> QED
        BY <2>1, <3>2, <4>1, <4>2, Sizes
    <3> QED
      BY <2>2, <2>3, <3>1, <3>2, <3>3, <3>4 DEF IInv, Counted
  <2>4. CASE owait # <<>>
    <3>1. h \notin Inside \ {p} /\ Inside' = (Inside \ {p}) \cup {h}
      BY <1>1, <1>2, <1>3, <2>4 DEF Inside
    <3>2. IsFiniteSet(Inside') /\ Cardinality(Inside') = Cardinality(Inside)
      <4>1. /\ IsFiniteSet((Inside \ {p}) \cup {h})
            /\ Cardinality((Inside \ {p}) \cup {h}) = Cardinality(Inside \ {p}) + 1
        BY <2>2, <3>1, FS_AddElement
      <4> QED
        BY <2>1, <2>2, <3>1, <4>1
    <3>3. /\ owait' = Tail(owait) /\ Len(owait') = Len(owait) - 1
          /\ IsInjective(owait') /\ Range(owait') = Range(owait) \ {h}
      BY <1>1, <2>4, TailRange DEF IInv, TypeOK, Counted, h
    <3>4. \A q \in Writers : q \in Range(owait') <=> at'[q] = "queued"
      BY <1>1, <1>2, <1>3, <2>4, <3>3 DEF IInv, Counted
    <3>5. ocount' = OBUFLEN - Cardinality(Inside') - Len(owait')
      <4>1. ocount' = ocount + 1 /\ Cardinality(Inside') = Cardinality(Inside)
        BY <1>1, <3>2
      <4>2. Len(owait') = Len(owait) - 1
        BY <3>3
      <4> QED
        BY <2>1, <4>1, <4>2, Sizes
    <3>6. Cardinality(Inside') = OBUFLEN
      BY <2>4, <3>2 DEF IInv, Counted
    <3> QED
      BY <2>1, <3>2, <3>3, <3>4, <3>5, <3>6 DEF Counted
  <2> QED
    BY <2>3, <2>4
<1>16. /\ todo' \in [Writers -> Seq(Chars \cup {"cr"})] /\ todo'[p] = rest
       /\ \A q \in Writers : q # p => todo'[q] = todo[q]
  <2>1. todo[p] \in Seq(Chars \cup {"cr"}) /\ todo[p] # <<>>
    BY <1>1 DEF IInv, TypeOK, Unput
  <2>2. rest \in Seq(Chars \cup {"cr"})
    BY <2>1, HeadTailProperties DEF rest
  <2> QED
    BY <1>1, <2>2 DEF IInv, TypeOK
<1>17. Unput'
  BY <1>2, <1>3, <1>16 DEF IInv, Unput
<1>18. owait' \in Seq(Writers)
  BY <1>1, HeadTailProperties DEF IInv, TypeOK
<1>19. TypeOK'
  <2>1. masked' \in [Writers -> BOOLEAN] /\ cpu' \in Writers \cup {NONE} /\ ocount' \in Int
    BY <1>1 DEF IInv, TypeOK
  <2>2. tyotail' = OBUFLEN => Moving' # {} \/ lost' # "no"
    BY <1>1, <1>6 DEF IInv, TypeOK
  <2> HIDE DEF New
  <2> QED
    BY <1>1, <1>4, <1>8, <1>9, <1>16, <1>18, <2>1, <2>2 DEF IInv, TypeOK
<1>20. SendsOldest'
  <2>1. IsFiniteSet(Stored)'
    BY <1>6, Room, FS_RemoveElement
  <2> QED
    BY <1>14, <1>19, <2>1, FilledSendsOldest, PTL
<1> QED
  BY <1>14, <1>15, <1>17, <1>19, <1>20 DEF IInv

(* A writer killed while it waits leaves the count as if it had not come.  *)
LEMMA KillStep ==
    ASSUME IInv, lost = "no", NEW p \in Writers, Kill(p)
    PROVE  IInv'
<1>1. /\ at[p] # "user" /\ Goto(p, "user")
      /\ todo' = [todo EXCEPT ![p] = <<>>]
      /\ masked' = [masked EXCEPT ![p] = FALSE]
      /\ UNCHANGED <<ring, reg, cpu, due>>
  BY DEF Kill
<1>2. /\ at' \in [Writers -> Places] /\ at'[p] = "user"
      /\ \A q \in Writers : q # p => at'[q] = at[q]
  BY <1>1, Going1 DEF IInv, TypeOK, Places
<1>3. \/ at[p] = "queued" /\ ocount' = ocount + 1 /\ owait' = RemoveFirst(owait, p) /\ lost' = "no"
      \/ at[p] = "wait" /\ lost' = "no" /\ UNCHANGED sem
      \/ at[p] \notin {"queued", "wait"} /\ lost' = "slot" /\ UNCHANGED sem
  BY DEF Kill
<1>4. Unput' /\ SendsOldest'
  BY <1>1, <1>2, OldestStays DEF IInv, Unput, ring, TypeOK
<1>5. at[p] = "queued" =>
         /\ owait' \in Seq(Writers) /\ Len(owait') = Len(owait) - 1
         /\ IsInjective(owait') /\ Range(owait') = Range(owait) \ {p}
  <2> SUFFICES ASSUME at[p] = "queued"
               PROVE  /\ owait' \in Seq(Writers) /\ Len(owait') = Len(owait) - 1
                      /\ IsInjective(owait') /\ Range(owait') = Range(owait) \ {p}
    OBVIOUS
  <2>1. owait' = RemoveFirst(owait, p)
    BY <1>3
  <2>2. owait \in Seq(Writers) /\ IsInjective(owait) /\ p \in Range(owait)
    BY DEF IInv, TypeOK, Counted
  <2> QED
    BY <2>1, <2>2, RemoveFirstRange
<1>6. ASSUME lost' = "no" PROVE Counted' /\ Filled' /\ Moving' = Moving
  <2>1. at[p] \in {"queued", "wait"}
    BY <1>3, <1>6
  <2>2. Filled' /\ Moving' = Moving
    <3>1. \A q \in Writers : at'[q] = at[q] \/ (at[q] \in Outside /\ at'[q] \in Outside)
      BY <1>2, <2>1 DEF Outside
    <3> QED
      BY <1>1, <3>1, FilledStays DEF IInv
  <2>3. Inside' = Inside
    BY <1>2, <2>1 DEF Inside
  <2>4. CASE at[p] = "wait"
    <3>1. \A q \in Writers : at'[q] = "queued" <=> at[q] = "queued"
      BY <1>2, <2>4
    <3> QED
      BY <1>3, <2>2, <2>3, <2>4, <3>1, CountedStays DEF IInv
  <2>5. CASE at[p] = "queued"
    <3>1. ocount = OBUFLEN - Cardinality(Inside) - Len(owait)
      BY DEF IInv, Counted
    <3>2. ocount' = OBUFLEN - Cardinality(Inside') - Len(owait')
      <4>1. ocount' = ocount + 1 /\ Len(owait') = Len(owait) - 1
        BY <1>3, <1>5, <2>5
      <4> QED
        BY <2>3, <3>1, <4>1, Room, Sizes
    <3>3. \A q \in Writers : q \in Range(owait') <=> at'[q] = "queued"
      BY <1>2, <1>5, <2>5 DEF IInv, Counted
    <3>4. owait # <<>>
      BY <2>5, EmptySeq DEF IInv, Counted, Range
    <3> QED
      BY <1>5, <2>2, <2>3, <2>5, <3>2, <3>3, <3>4 DEF IInv, Counted
  <2> QED
    BY <2>1, <2>2, <2>4, <2>5
<1>7. TypeOK'
  <2>1. ocount' \in Int /\ owait' \in Seq(Writers) /\ lost' \in {"no", "slot"}
    BY <1>3, <1>5 DEF IInv, TypeOK, sem
  <2>2. todo' \in [Writers -> Seq(Chars \cup {"cr"})]
    BY <1>1 DEF IInv, TypeOK
  <2>3. tyotail' = OBUFLEN => Moving' # {} \/ lost' # "no"
    BY <1>1, <1>6, <2>1 DEF IInv, TypeOK, ring
  <2> QED
    BY <1>1, <1>2, <2>1, <2>2, <2>3 DEF IInv, TypeOK, ring
<1> QED
  BY <1>4, <1>6, <1>7 DEF IInv

--------------------------------------------------------------------------------
(* The invariant holds at the start and through every step.                *)

LEMMA InitInv ==
    ASSUME Init
    PROVE  IInv
<1>1. \A p \in Writers : at[p] = "user"
  BY DEF Init
<1>2. Inside = {} /\ Stored = {} /\ Moving = {}
  BY <1>1 DEF Inside, Stored, Moving
<1>3. IsFiniteSet({}) /\ Cardinality({}) = 0
  BY FS_EmptySet
<1>4. TypeOK
  BY Sizes, EmptySeq DEF Init, TypeOK, Places
<1>5. Unput /\ SendsOldest
  BY <1>1 DEF Unput, SendsOldest
<1>6. Counted
  <2>1. owait = <<>> /\ Len(owait) = 0 /\ Range(owait) = {} /\ IsInjective(owait)
    BY DEF Init, Range, IsInjective
  <2> QED
    BY <1>1, <1>2, <1>3, <2>1, Sizes DEF Counted, Init
<1>7. Filled
  <2>1. Len(due) = 0 /\ tyotail = 0 /\ tyohead = 0
    BY DEF Init
  <2>2. Slot(Len(due)) = 0
    BY <2>1, Sizes DEF Slot
  <2> QED
    BY <1>1, <1>2, <1>3, <2>1, <2>2 DEF Filled
<1> QED
  BY <1>4, <1>5, <1>6, <1>7 DEF IInv

LEMMA StutterStep ==
    ASSUME IInv, UNCHANGED vars
    PROVE  IInv'
<1>1. /\ UNCHANGED <<tyobuff, tyohead, tyotail, ocount, owait>>
      /\ UNCHANGED <<at, todo, reg, masked, cpu, due, lost>>
  BY DEF vars, ring, sem
<1>2. Inside' = Inside /\ Stored' = Stored /\ Moving' = Moving
  BY <1>1 DEF Inside, Stored, Moving
<1>3. \A i : Slot(i)' = Slot(i)
  BY <1>1 DEF Slot
<1>4. TypeOK' /\ Unput' /\ SendsOldest'
  BY <1>1, <1>2 DEF IInv, TypeOK, Unput, SendsOldest
<1>5. lost' = "no" => Counted' /\ Filled'
  BY <1>1, <1>2, <1>3 DEF IInv, Counted, Filled
<1> QED
  BY <1>4, <1>5 DEF IInv

(* Where nothing goes on after a loss, every step is one of those above.   *)
LEMMA NextInv ==
    ASSUME Beyond = {}, IInv, [Next]_vars
    PROVE  IInv'
<1>1. CASE UNCHANGED vars
  BY <1>1, StutterStep
<1>2. CASE Next
  <2>1. PICK p \in Writers :
           \/ \E n \in Lengths : \E chars \in [1 .. n -> Chars] : Call(p, chars)
           \/ Step(p)
           \/ Kill(p)
    BY <1>2 DEF Next
  <2>2. lost = "no"
    BY <2>1 DEF Call, Step, Kill, WaitPasses, WaitBlocks, Load, Advance, Store, WrapTail,
                Kick, Runs, Going
  <2>3. CASE \E n \in Lengths : \E chars \in [1 .. n -> Chars] : Call(p, chars)
    BY <2>2, <2>3, CallStep
  <2>4. CASE Step(p)
    BY <2>2, <2>4, WaitPassesStep, WaitBlocksStep, LoadStep, AdvanceStep, StoreStep,
       WrapTailStep, KickStep DEF Step
  <2>5. CASE Kill(p)
    BY <2>2, <2>5, KillStep
  <2> QED
    BY <2>1, <2>3, <2>4, <2>5
<1> QED
  BY <1>1, <1>2

LEMMA Invariance ==
    ASSUME Beyond = {}
    PROVE  Spec => []IInv
<1>1. Init => IInv
  BY InitInv
<1>2. IInv /\ [Next]_vars => IInv'
  BY NextInv
<1> QED
  BY <1>1, <1>2, PTL DEF Spec

(* Whatever writers are preempted or killed, and where, the semaphore      *)
(* counts the slots nobody has reserved and a writer waits only when all   *)
(* are: no slot is given out twice and none is lost, until one of the two  *)
(* losses of the driver.                                                   *)
THEOREM SlotsCounted ==
    ASSUME Beyond = {}
    PROVE  Spec => []SlotsAccounted
<1>1. IInv => SlotsAccounted
  BY DEF IInv, Counted, SlotsAccounted
<1> QED
  BY <1>1, Invariance, PTL

(* ttyhandle_out() takes every reserved slot for one that is written, and  *)
(* yet sends the oldest character stored: a writer only kicks the device   *)
(* with its own in the ring, and sends one.                                *)
THEOREM OldestSent ==
    ASSUME Beyond = {}
    PROVE  Spec => []SendsOldest
<1>1. IInv => SendsOldest
  BY DEF IInv
<1> QED
  BY <1>1, Invariance, PTL

================================================================================
