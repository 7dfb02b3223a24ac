------------------------------ MODULE TtyIn_proofs -------------------------------
(***************************************************************************)
(* Proofs about TtyIn: the semaphore and the pointers of the ring agree,   *)
(* the ring is the line editor LineInput describes, and the screen shows   *)
(* the line, for a ring of any size and any number of processes.           *)
(*                                                                         *)
(* The ring is seen through Seg, the characters behind its head: storing   *)
(* one appends to what is seen, taking one removes the first, and moving   *)
(* the tail back removes the last (StoredView, TakenView, CutView).  Each  *)
(* action has one lemma XStep: it keeps the invariant IInv and does to     *)
(* Typed, what programs may take, and to Line, what is being edited, what  *)
(* LineInput says, unless a character is lost.                             *)
(***************************************************************************)
EXTENDS TtyIn, XinuLists_proofs, FiniteSetTheorems

LEMMA Sizes == /\ IBUFLEN \in Nat /\ IBUFLEN > 0 /\ NONE \notin Procs
               /\ Readers \subseteq Procs /\ Peekers \subseteq Procs
               /\ Readers \cap Peekers = {}
  BY TtyInAssumption DEF NONE, Procs

--------------------------------------------------------------------------------
(* The inductive invariant.                                                *)

Slots == 0 .. IBUFLEN - 1
Text  == Keys \cup {"nul", "nl"}
Rings == [Slots -> Text]

(* The slot k places behind slot h.                                        *)
Slot(h, k) == (h + k) % IBUFLEN

Konts == [Procs -> [at : {"user", "wait", "queued", "woken"}, left : Nat,
                    line : BOOLEAN, first : BOOLEAN]]

Queued == {p \in Procs : kont[p].at = "queued"}

(* The queue holds, once each, those who wait; while it holds one, the     *)
(* semaphore counts them and no character is free.                         *)
Sem ==
    /\ IsInjective(iwait) /\ Range(iwait) = Queued
    /\ iwait = <<>> => icount >= 0
    /\ iwait # <<>> => icount = -Len(iwait)
    /\ IsFiniteSet(Woken)

(* One process at most is between two waits, and a reader in a call has    *)
(* something left to read.                                                 *)
Calling ==
    /\ \A p \in Procs : kont[p].at = "wait" <=> cpu = p
    /\ \A p \in Readers : kont[p].at # "user" => kont[p].left > 0
    /\ lost # "no" => cpu = NONE

Filled == lost = "no" => /\ Unread + LineLen <= IBUFLEN
                         /\ tyitail = Slot(tyihead, Unread + LineLen)

IInv == TypeOK /\ Sem /\ Calling /\ Filled

--------------------------------------------------------------------------------
(* The ring.                                                               *)

(* The n characters of ring f behind the first `from' ones from slot h on. *)
Seg(f, h, from, n) == [i \in 1 .. n |-> f[Slot(h, from + i - 1)]]

LEMMA SlotOf ==
    ASSUME NEW h \in Slots, NEW k \in 0 .. IBUFLEN
    PROVE  /\ Slot(h, k) = IF h + k < IBUFLEN THEN h + k ELSE h + k - IBUFLEN
           /\ Slot(h, k) \in Slots
  BY Sizes DEF Slot, Slots

LEMMA SlotZero == ASSUME NEW h \in Slots PROVE Slot(h, 0) = h
  BY Sizes, SlotOf DEF Slots

(* A pointer that has moved on, or back.                                   *)
LEMMA SlotNext ==
    ASSUME NEW h \in Slots, NEW k \in 0 .. IBUFLEN - 1
    PROVE  Wrap(Slot(h, k) + 1) = Slot(h, k + 1) /\ Slot(h, k + 1) \in Slots
<1>1. /\ Slot(h, k) = IF h + k < IBUFLEN THEN h + k ELSE h + k - IBUFLEN
      /\ Slot(h, k + 1) = IF h + (k + 1) < IBUFLEN THEN h + (k + 1) ELSE h + (k + 1) - IBUFLEN
      /\ Slot(h, k + 1) \in Slots
  <2>1. k \in 0 .. IBUFLEN /\ k + 1 \in 0 .. IBUFLEN
    BY Sizes
  <2> QED
    BY <2>1, SlotOf
<1> QED
  BY <1>1, Sizes DEF Wrap, Slots

LEMMA SlotHead ==
    ASSUME NEW h \in Slots, NEW k \in 0 .. IBUFLEN - 1
    PROVE  Wrap(h + 1) \in Slots /\ Slot(Wrap(h + 1), k) = Slot(h, k + 1)
<1> DEFINE g == Wrap(h + 1)
<1>1. g = IF h + 1 >= IBUFLEN THEN 0 ELSE h + 1
  BY DEF Wrap
<1>2. g \in Slots
  BY <1>1, Sizes DEF Slots
<1> HIDE DEF g
<1>3. /\ Slot(g, k) = IF g + k < IBUFLEN THEN g + k ELSE g + k - IBUFLEN
      /\ Slot(h, k + 1) = IF h + (k + 1) < IBUFLEN THEN h + (k + 1) ELSE h + (k + 1) - IBUFLEN
  <2>1. k \in 0 .. IBUFLEN /\ k + 1 \in 0 .. IBUFLEN
    BY Sizes
  <2> QED
    BY <1>2, <2>1, SlotOf
<1>4. Slot(g, k) = Slot(h, k + 1)
  BY <1>1, <1>3, Sizes DEF Slots
<1> QED
  BY <1>2, <1>4 DEF g

LEMMA SlotBack ==
    ASSUME NEW h \in Slots, NEW k \in 0 .. IBUFLEN, NEW n \in 0 .. k
    PROVE  Back(Slot(h, k), n) = Slot(h, k - n) /\ Slot(h, k - n) \in Slots
<1>1. /\ Slot(h, k) = IF h + k < IBUFLEN THEN h + k ELSE h + k - IBUFLEN
      /\ Slot(h, k - n) = IF h + (k - n) < IBUFLEN THEN h + (k - n) ELSE h + (k - n) - IBUFLEN
      /\ Slot(h, k - n) \in Slots
  <2>1. k - n \in 0 .. IBUFLEN
    BY Sizes
  <2> QED
    BY <2>1, SlotOf
<1> QED
  BY <1>1, Sizes DEF Back, Slots

LEMMA SlotApart ==
    ASSUME NEW h \in Slots, NEW k \in 0 .. IBUFLEN - 1, NEW j \in 0 .. k - 1
    PROVE  Slot(h, j) # Slot(h, k)
<1>1. /\ Slot(h, k) = IF h + k < IBUFLEN THEN h + k ELSE h + k - IBUFLEN
      /\ Slot(h, j) = IF h + j < IBUFLEN THEN h + j ELSE h + j - IBUFLEN
  <2>1. j \in 0 .. IBUFLEN /\ k \in 0 .. IBUFLEN
    BY Sizes
  <2> QED
    BY <2>1, SlotOf
<1> QED
  BY <1>1, Sizes DEF Slots

LEMMA SegSeq ==
    ASSUME NEW f \in Rings, NEW h \in Slots,
           NEW from \in Nat, NEW n \in Nat, from + n <= IBUFLEN
    PROVE  /\ Seg(f, h, from, n) \in Seq(Text) /\ Len(Seg(f, h, from, n)) = n
           /\ \A i \in 1 .. n : Seg(f, h, from, n)[i] = f[Slot(h, from + i - 1)]
<1>1. ASSUME NEW i \in 1 .. n PROVE f[Slot(h, from + i - 1)] \in Text
  <2>1. from + i - 1 \in 0 .. IBUFLEN
    BY Sizes
  <2>2. Slot(h, from + i - 1) \in Slots
    BY <2>1, SlotOf
  <2> QED
    BY <2>2 DEF Rings
<1> DEFINE s == Seg(f, h, from, n)
<1>2. s \in [1 .. n -> Text] /\ \A i \in 1 .. n : s[i] = f[Slot(h, from + i - 1)]
  BY <1>1 DEF Seg
<1> HIDE DEF s
<1>3. s \in Seq(Text) /\ Len(s) = n
  BY <1>2
<1> QED
  BY <1>2, <1>3 DEF s

(* A character is stored behind u characters and a line of l.              *)
LEMMA SegStore ==
    ASSUME tyibuff \in Rings, tyihead \in Slots, tyibuff' \in Rings,
           NEW u \in Nat, NEW l \in Nat, u + l < IBUFLEN, NEW c \in Text,
           tyibuff'[Slot(tyihead, u + l)] = c,
           \A j \in Slots : j # Slot(tyihead, u + l) => tyibuff'[j] = tyibuff[j]
    PROVE  /\ Seg(tyibuff', tyihead, 0, u) = Seg(tyibuff, tyihead, 0, u)
           /\ Seg(tyibuff', tyihead, u, l + 1) = Append(Seg(tyibuff, tyihead, u, l), c)
           /\ Seg(tyibuff', tyihead, 0, u + l + 1) =
                  Seg(tyibuff, tyihead, 0, u) \o Append(Seg(tyibuff, tyihead, u, l), c)
<1> DEFINE f == tyibuff
           g == tyibuff'
           h == tyihead
           t == Slot(h, u + l)
<1>0. f \in Rings /\ g \in Rings /\ h \in Slots
  OBVIOUS
<1>1. /\ u + l \in 0 .. IBUFLEN - 1 /\ u + l \in 0 .. IBUFLEN /\ 0 + u <= IBUFLEN
      /\ u + l <= IBUFLEN /\ u + (l + 1) <= IBUFLEN /\ 0 + (u + l + 1) <= IBUFLEN
      /\ l + 1 \in Nat /\ u + l + 1 \in Nat /\ 0 \in Nat
  BY Sizes
<1>3. ASSUME NEW k \in 0 .. u + l - 1 PROVE Slot(h, k) # t /\ Slot(h, k) \in Slots
  <2> DEFINE m == u + l
  <2>1. m \in 0 .. IBUFLEN - 1 /\ k \in 0 .. m - 1 /\ k \in 0 .. IBUFLEN
    BY Sizes
  <2>2. t = Slot(h, m)
    OBVIOUS
  <2> HIDE DEF m, t
  <2> QED
    BY <2>1, <2>2, SlotOf, SlotApart
<1>4. g[t] = c /\ \A j \in Slots : j # t => g[j] = f[j]
  OBVIOUS
<1> HIDE DEF t, f, g, h
<1>5. \A k \in 0 .. u + l - 1 : g[Slot(h, k)] = f[Slot(h, k)]
  BY <1>3, <1>4
<1> DEFINE a == Seg(f, h, 0, u)
           b == Seg(f, h, u, l)
           a1 == Seg(g, h, 0, u)
           b1 == Seg(g, h, u, l + 1)
           w == Seg(g, h, 0, u + l + 1)
<1>7. /\ a \in Seq(Text) /\ Len(a) = u
      /\ \A i \in 1 .. u : a[i] = f[Slot(h, 0 + i - 1)]
  BY <1>0, <1>1, SegSeq
<1>8. /\ b \in Seq(Text) /\ Len(b) = l
      /\ \A i \in 1 .. l : b[i] = f[Slot(h, u + i - 1)]
  BY <1>0, <1>1, SegSeq
<1>9. /\ a1 \in Seq(Text) /\ Len(a1) = u
      /\ \A i \in 1 .. u : a1[i] = g[Slot(h, 0 + i - 1)]
  BY <1>0, <1>1, SegSeq
<1>10. /\ b1 \in Seq(Text) /\ Len(b1) = l + 1
       /\ \A i \in 1 .. l + 1 : b1[i] = g[Slot(h, u + i - 1)]
  BY <1>0, <1>1, SegSeq
<1>11. /\ w \in Seq(Text) /\ Len(w) = u + l + 1
       /\ \A i \in 1 .. u + l + 1 : w[i] = g[Slot(h, 0 + i - 1)]
  BY <1>0, <1>1, SegSeq
<1> HIDE DEF a, b, a1, b1, w
<1>12. a1 = a
  <2>1. ASSUME NEW i \in 1 .. u PROVE a1[i] = a[i]
    <3>1. 0 + i - 1 \in 0 .. u + l - 1
      OBVIOUS
    <3> QED
      BY <3>1, <1>5, <1>7, <1>9
  <2> QED
    BY <2>1, <1>7, <1>9, SeqEqual
<1> DEFINE b2 == Append(b, c)
<1>13. /\ b2 \in Seq(Text) /\ Len(b2) = l + 1 /\ \A i \in 1 .. l : b2[i] = b[i]
       /\ b2[l + 1] = c
  BY <1>8, AppendProperties
<1> HIDE DEF b2
<1>14. ASSUME NEW i \in 1 .. l + 1 PROVE g[Slot(h, u + i - 1)] = b2[i]
  <2>1. CASE i = l + 1
    <3>1. u + i - 1 = u + l
      BY <2>1
    <3> QED
      BY <3>1, <2>1, <1>4, <1>13 DEF t
  <2>2. CASE i # l + 1
    <3>1. i \in 1 .. l /\ u + i - 1 \in 0 .. u + l - 1
      BY <2>2
    <3> QED
      BY <3>1, <1>5, <1>8, <1>13
  <2> QED
    BY <2>1, <2>2
<1>15. b1 = b2
  <2>1. \A i \in 1 .. l + 1 : b1[i] = b2[i]
    BY <1>10, <1>14
  <2> QED
    BY <2>1, <1>10, <1>13, SeqEqual
<1> DEFINE w2 == a \o b2
<1>16. /\ w2 \in Seq(Text) /\ Len(w2) = u + (l + 1)
       /\ \A i \in 1 .. u + (l + 1) : w2[i] = IF i <= u THEN a[i] ELSE b2[i - u]
  <2> HIDE DEF w2
  <2>1. ASSUME NEW x \in Seq(Text), NEW y \in Seq(Text)
        PROVE  /\ x \o y \in Seq(Text) /\ Len(x \o y) = Len(x) + Len(y)
               /\ \A i \in 1 .. Len(x) + Len(y) :
                     (x \o y)[i] = IF i <= Len(x) THEN x[i] ELSE y[i - Len(x)]
    BY ConcatProperties
  <2>2. /\ a \o b2 \in Seq(Text) /\ Len(a \o b2) = Len(a) + Len(b2)
        /\ \A i \in 1 .. Len(a) + Len(b2) :
                     (a \o b2)[i] = IF i <= Len(a) THEN a[i] ELSE b2[i - Len(a)]
    BY <2>1, <1>7, <1>13
  <2>3. /\ w2 \in Seq(Text) /\ Len(w2) = Len(a) + Len(b2)
        /\ \A i \in 1 .. Len(a) + Len(b2) :
                     w2[i] = IF i <= Len(a) THEN a[i] ELSE b2[i - Len(a)]
    BY <2>2 DEF w2
  <2> QED
    BY <2>3, <1>7, <1>13
<1> HIDE DEF w2
<1>17. ASSUME NEW i \in 1 .. u + l + 1 PROVE w[i] = w2[i]
  <2>1. CASE i <= u
    <3>1. i \in 1 .. u /\ i \in 1 .. u + (l + 1)
      BY <2>1
    <3> QED
      BY <3>1, <2>1, <1>9, <1>11, <1>12, <1>16
  <2>2. CASE i > u
    <3>1. i - u \in 1 .. l + 1 /\ i \in 1 .. u + (l + 1) /\ ~ (i <= u)
          /\ u + (i - u) - 1 = 0 + i - 1
      BY <2>2
    <3> QED
      BY <3>1, <1>11, <1>14, <1>16
  <2> QED
    BY <2>1, <2>2
<1>18. w = w2
  <2>1. u + (l + 1) = u + l + 1
    OBVIOUS
  <2> QED
    BY <2>1, <1>11, <1>16, <1>17, SeqEqual
<1> QED
  BY <1>4, <1>12, <1>15, <1>18 DEF a, b, a1, b1, w, b2, w2, f, g, h

(* A ring filled up to its last u + l characters: the oldest is taken.     *)
LEMMA SegTake ==
    ASSUME NEW f \in Rings, NEW h \in Slots,
           NEW u \in Nat, NEW l \in Nat, u > 0, u + l <= IBUFLEN
    PROVE  LET g == Wrap(h + 1)
           IN  /\ g \in Slots
               /\ Slot(g, u - 1 + l) = Slot(h, u + l)
               /\ Seg(f, h, 0, u) # <<>>
               /\ Head(Seg(f, h, 0, u)) = f[h]
               /\ Seg(f, g, 0, u - 1) = Tail(Seg(f, h, 0, u))
               /\ Seg(f, g, u - 1, l) = Seg(f, h, u, l)
<1> DEFINE g == Wrap(h + 1)
           a == Seg(f, h, 0, u)
           b == Seg(f, h, u, l)
           a1 == Seg(f, g, 0, u - 1)
           b1 == Seg(f, g, u - 1, l)
           rest == Tail(a)
<1>1. /\ u - 1 \in Nat /\ 0 \in Nat /\ 0 + u <= IBUFLEN /\ 0 + (u - 1) <= IBUFLEN
      /\ u - 1 + l <= IBUFLEN /\ 0 \in 0 .. IBUFLEN - 1
  BY Sizes
<1>2. g \in Slots
  BY <1>1, SlotHead
<1>3. \A k \in 0 .. u + l - 1 : Slot(g, k) = Slot(h, k + 1)
  <2>1. \A k \in 0 .. u + l - 1 : k \in 0 .. IBUFLEN - 1
    BY Sizes
  <2> QED
    BY <2>1, SlotHead
<1>4. Slot(g, u - 1 + l) = Slot(h, u + l)
  <2>1. u - 1 + l \in 0 .. u + l - 1 /\ (u - 1 + l) + 1 = u + l
    OBVIOUS
  <2> HIDE DEF g
  <2> QED
    BY <2>1, <1>3
<1> HIDE DEF g
<1>5. /\ a \in Seq(Text) /\ Len(a) = u
      /\ \A i \in 1 .. u : a[i] = f[Slot(h, 0 + i - 1)]
  BY <1>1, SegSeq
<1>6. /\ b \in Seq(Text) /\ Len(b) = l
      /\ \A i \in 1 .. l : b[i] = f[Slot(h, u + i - 1)]
  BY SegSeq
<1>7. /\ a1 \in Seq(Text) /\ Len(a1) = u - 1
      /\ \A i \in 1 .. u - 1 : a1[i] = f[Slot(g, 0 + i - 1)]
  BY <1>1, <1>2, SegSeq
<1>8. /\ b1 \in Seq(Text) /\ Len(b1) = l
      /\ \A i \in 1 .. l : b1[i] = f[Slot(g, u - 1 + i - 1)]
  BY <1>1, <1>2, SegSeq
<1> HIDE DEF a, b, a1, b1
<1>9. /\ a # <<>> /\ Head(a) = a[1]
      /\ rest \in Seq(Text) /\ Len(rest) = u - 1 /\ \A i \in 1 .. u - 1 : rest[i] = a[i + 1]
  <2>1. a # <<>>
    BY <1>5, EmptySeq
  <2>2. rest \in Seq(Text) /\ Len(rest) = u - 1 /\ \A i \in 1 .. u - 1 : rest[i] = a[i + 1]
    BY <1>5, <2>1, HeadTailProperties
  <2>3. Head(a) = a[1]
    BY <1>5
  <2> QED
    BY <2>1, <2>2, <2>3
<1> HIDE DEF rest
<1>10. a[1] = f[h]
  <2>1. 1 \in 1 .. u /\ 0 + 1 - 1 = 0
    OBVIOUS
  <2>2. a[1] = f[Slot(h, 0 + 1 - 1)]
    BY <2>1, <1>5
  <2> QED
    BY <2>1, <2>2, SlotZero
<1>11. a1 = rest
  <2>1. ASSUME NEW i \in 1 .. u - 1 PROVE a1[i] = rest[i]
    <3>1. /\ 0 + i - 1 \in 0 .. u + l - 1 /\ 0 + (i + 1) - 1 = (0 + i - 1) + 1
          /\ i + 1 \in 1 .. u
      OBVIOUS
    <3>2. Slot(g, 0 + i - 1) = Slot(h, (0 + i - 1) + 1)
      BY <3>1, <1>3
    <3>3. a1[i] = f[Slot(g, 0 + i - 1)]
      BY <1>7
    <3>4. rest[i] = a[i + 1]
      BY <1>9
    <3>5. a[i + 1] = f[Slot(h, 0 + (i + 1) - 1)]
      BY <1>5, <3>1
    <3> QED
      BY <3>1, <3>2, <3>3, <3>4, <3>5
  <2> QED
    BY <2>1, <1>7, <1>9, SeqEqual
<1>12. b1 = b
  <2>1. ASSUME NEW i \in 1 .. l PROVE b1[i] = b[i]
    <3>1. /\ u - 1 + i - 1 \in 0 .. u + l - 1 /\ u + i - 1 = (u - 1 + i - 1) + 1
      OBVIOUS
    <3>2. Slot(g, u - 1 + i - 1) = Slot(h, (u - 1 + i - 1) + 1)
      BY <3>1, <1>3
    <3>3. b1[i] = f[Slot(g, u - 1 + i - 1)]
      BY <1>8
    <3>4. b[i] = f[Slot(h, u + i - 1)]
      BY <1>6
    <3> QED
      BY <3>1, <3>2, <3>3, <3>4
  <2> QED
    BY <2>1, <1>6, <1>8, SeqEqual
<1> QED
  BY <1>2, <1>4, <1>9, <1>10, <1>11, <1>12 DEF a, b, a1, b1, rest, g

(* The last n characters of a line of l are given up.                      *)
LEMMA SegCut ==
    ASSUME NEW f \in Rings, NEW h \in Slots,
           NEW u \in Nat, NEW l \in Nat, u + l <= IBUFLEN, NEW n \in 0 .. l
    PROVE  /\ Back(Slot(h, u + l), n) = Slot(h, u + (l - n))
           /\ Back(Slot(h, u + l), n) \in Slots
           /\ Seg(f, h, u, l - n) = SubSeq(Seg(f, h, u, l), 1, l - n)
<1>1. /\ l - n \in Nat /\ u + (l - n) <= IBUFLEN /\ u + l \in 0 .. IBUFLEN /\ n \in 0 .. u + l
      /\ (u + l) - n = u + (l - n)
  BY Sizes
<1>2. /\ Back(Slot(h, u + l), n) = Slot(h, u + (l - n))
      /\ Back(Slot(h, u + l), n) \in Slots
  <2> DEFINE k == u + l
  <2>1. k \in 0 .. IBUFLEN /\ n \in 0 .. k /\ k - n = u + (l - n)
    BY <1>1
  <2> HIDE DEF k
  <2>2. Back(Slot(h, k), n) = Slot(h, k - n) /\ Slot(h, k - n) \in Slots
    BY <2>1, SlotBack
  <2> QED
    BY <2>1, <2>2 DEF k
<1> DEFINE b == Seg(f, h, u, l)
           b1 == Seg(f, h, u, l - n)
           cut == SubSeq(b, 1, l - n)
<1>3. /\ b \in Seq(Text) /\ Len(b) = l
      /\ \A i \in 1 .. l : b[i] = f[Slot(h, u + i - 1)]
  BY SegSeq
<1>4. /\ b1 \in Seq(Text) /\ Len(b1) = l - n
      /\ \A i \in 1 .. l - n : b1[i] = f[Slot(h, u + i - 1)]
  BY <1>1, SegSeq
<1> HIDE DEF b, b1
<1>5. /\ cut \in Seq(Text) /\ Len(cut) = l - n /\ \A i \in 1 .. l - n : cut[i] = b[i]
  <2>1. /\ 1 \in Int /\ l - n \in Int
        /\ \A i \in 1 .. l - n : b[i] \in Text
        /\ (IF 1 <= l - n THEN (l - n) - 1 + 1 ELSE 0) = l - n
        /\ (l - n) - 1 + 1 = l - n /\ \A i \in Int : 1 + i - 1 = i
    <3>1. \A i \in 1 .. l - n : i \in 1 .. Len(b)
      BY <1>3
    <3>2. \A i \in 1 .. l - n : b[i] \in Text
      BY <1>3, <3>1, ElementOfSeq
    <3> QED
      BY <3>2
  <2> DEFINE m == l - n
  <2>2. m \in Int /\ \A i \in 1 .. m : b[i] \in Text
    BY <2>1
  <2>3. cut = SubSeq(b, 1, m)
    OBVIOUS
  <2> HIDE DEF cut, m
  <2>4. /\ cut \in Seq(Text) /\ Len(cut) = IF 1 <= m THEN m - 1 + 1 ELSE 0
        /\ \A i \in 1 .. m - 1 + 1 : cut[i] = b[1 + i - 1]
    BY <2>1, <2>2, <2>3, SubSeqProperties
  <2>5. /\ cut \in Seq(Text) /\ Len(cut) = IF 1 <= l - n THEN (l - n) - 1 + 1 ELSE 0
        /\ \A i \in 1 .. (l - n) - 1 + 1 : cut[i] = b[1 + i - 1]
    BY <2>4 DEF m
  <2> QED
    BY <2>1, <2>5
<1> HIDE DEF cut
<1>6. b1 = cut
  <2>1. ASSUME NEW i \in 1 .. l - n PROVE b1[i] = cut[i]
    <3>1. i \in 1 .. l
      OBVIOUS
    <3> QED
      BY <3>1, <1>3, <1>4, <1>5
  <2> QED
    BY <2>1, <1>4, <1>5, SeqEqual
<1> QED
  BY <1>2, <1>6 DEF b, b1, cut

--------------------------------------------------------------------------------
(* The semaphore.                                                          *)

Counting == /\ Avail \in Nat /\ Cardinality(Woken) \in Nat
            /\ Unread \in Nat /\ LineLen \in Nat

LEMMA Counted == TypeOK /\ Sem => Counting
<1> SUFFICES ASSUME TypeOK, Sem PROVE Counting
  OBVIOUS
<1>1. Avail \in Nat
  BY DEF TypeOK, Avail
<1>2. Cardinality(Woken) \in Nat
  BY FS_CardinalityType DEF Sem
<1>3. Unread \in Nat
  BY <1>1, <1>2 DEF Unread
<1>4. LineLen \in Nat
  BY DEF TypeOK, LineLen
<1> QED
  BY <1>1, <1>2, <1>3, <1>4 DEF Counting

LEMMA CountedNext == TypeOK' /\ Sem' => Counting'
  BY Counted, PTL

(* The first m in the queue are released: n more characters are counted.   *)
LEMMA Released ==
    ASSUME TypeOK, Sem, NEW n \in Nat, n > 0, NEW m \in 0 .. Len(iwait),
           m <= n, m >= Len(iwait) \/ m >= n,
           icount' = icount + n, iwait' = SubSeq(iwait, m + 1, Len(iwait))
    PROVE  /\ iwait' \in Seq(Procs) /\ IsInjective(iwait')
           /\ Range(iwait') = Queued \ {iwait[i] : i \in 1 .. m}
           /\ {iwait[i] : i \in 1 .. m} \subseteq Queued
           /\ iwait' = <<>> => icount' >= 0
           /\ iwait' # <<>> => icount' = -Len(iwait')
           /\ Avail' = Avail + n - m
           /\ IsFiniteSet({iwait[i] : i \in 1 .. m})
           /\ Cardinality({iwait[i] : i \in 1 .. m}) = m
<1>1. /\ iwait \in Seq(Procs) /\ Len(iwait) \in Nat /\ m \in 0 .. Len(iwait) /\ icount \in Int
      /\ DOMAIN iwait = 1 .. Len(iwait)
  BY LenProperties DEF TypeOK
<1> DEFINE front == SubSeq(iwait, 1, m)
           rest == SubSeq(iwait, m + 1, Len(iwait))
           F == {iwait[i] : i \in 1 .. m}
<1>2. /\ front \in Seq(Procs) /\ Len(front) = m /\ IsInjective(front) /\ Range(front) = F
      /\ rest \in Seq(Procs) /\ Len(rest) = Len(iwait) - m /\ IsInjective(rest)
      /\ Range(rest) = Range(iwait) \ Range(front)
  <2>1. \A q \in Seq(Procs) : \A k \in 0 .. Len(q) : IsInjective(q) =>
           LET f == SubSeq(q, 1, k)
               r == SubSeq(q, k + 1, Len(q))
           IN  /\ f \in Seq(Procs) /\ Len(f) = k
               /\ IsInjective(f)
               /\ r \in Seq(Procs) /\ Len(r) = Len(q) - k
               /\ IsInjective(r)
               /\ Range(f) = {q[i] : i \in 1 .. k}
               /\ Range(r) = Range(q) \ Range(f)
    BY SplitRange
  <2> QED
    BY <1>1, <2>1 DEF Sem
<1> HIDE DEF front, rest
<1>3. IsFiniteSet(F) /\ Cardinality(F) = m
  <2>1. front \in [1 .. m -> F] /\ DOMAIN front = 1 .. m
    <3>1. DOMAIN front = 1 .. m /\ front \in [1 .. m -> Procs]
      BY <1>2, LenProperties
    <3> QED
      BY <3>1, <1>2 DEF Range
  <2>2. front \in Bijection(1 .. m, F)
    <3>1. front \in Injection(1 .. m, F)
      BY <2>1, <1>2 DEF Injection, IsInjective
    <3>2. front \in Surjection(1 .. m, F)
      BY <2>1, <1>2 DEF Surjection, Range
    <3> QED
      BY <3>1, <3>2 DEF Bijection
  <2>3. IsFiniteSet(1 .. m) /\ Cardinality(1 .. m) = m
    <3>1. IsFiniteSet(1 .. m) /\ Cardinality(1 .. m) = IF 1 > m THEN 0 ELSE m - 1 + 1
      BY <1>1, FS_Interval
    <3> QED
      BY <3>1
  <2> HIDE DEF F
  <2>4. ExistsBijection(1 .. m, F)
    BY <2>2 DEF ExistsBijection
  <2> QED
    BY <2>3, <2>4, FS_Bijection
<1>4. F \subseteq Queued
  <2>1. \A i \in 1 .. m : i \in DOMAIN iwait
    BY <1>1
  <2> QED
    BY <2>1 DEF Sem, Range
<1> HIDE DEF F
<1>5. /\ rest = <<>> => icount' >= 0
      /\ rest # <<>> => icount' = -Len(rest)
  <2>1. rest = <<>> <=> Len(rest) = 0
    BY <1>2, EmptySeq
  <2>2. /\ Len(iwait) = 0 => icount >= 0
        /\ Len(iwait) # 0 => icount = -Len(iwait)
    BY <1>1, EmptySeq DEF Sem
  <2> DEFINE L == Len(iwait)
             R == Len(rest)
  <2>3. /\ L \in Nat /\ m \in 0 .. L /\ R = L - m /\ icount \in Int /\ icount' = icount + n
        /\ L = 0 => icount >= 0
        /\ L # 0 => icount = -L
        /\ m >= L \/ m >= n
    BY <2>2, <1>1, <1>2
  <2> HIDE DEF L, R
  <2>4. (R = 0 => icount' >= 0) /\ (R # 0 => icount' = -R)
    BY <2>3
  <2>5. (Len(rest) = 0 => icount' >= 0) /\ (Len(rest) # 0 => icount' = -Len(rest))
    BY <2>4 DEF R
  <2> QED
    BY <2>1, <2>5
<1>6. Avail' = Avail + n - m
  <2>1. /\ Len(iwait) = 0 => icount >= 0
        /\ Len(iwait) # 0 => icount = -Len(iwait)
    BY <1>1, EmptySeq DEF Sem
  <2> QED
    BY <2>1, <1>1 DEF Avail
<1>7. iwait' = rest
  BY DEF rest
<1> QED
  BY <1>2, <1>3, <1>4, <1>5, <1>6, <1>7 DEF Sem, F

(* signaln() releases who waits first; the rest is there to be taken.      *)
LEMMA Signalled ==
    ASSUME TypeOK, Sem, Calling, NEW n \in Nat, n > 0, Signaln(n), cpu = NONE, cpu' = cpu
    PROVE  /\ iwait' \in Seq(Procs) /\ icount' \in Int /\ kont' \in Konts
           /\ Sem' /\ Calling' /\ Unread' = Unread + n
<1> DEFINE m == IF Len(iwait) < n THEN Len(iwait) ELSE n
           F == {iwait[i] : i \in 1 .. m}
<1>1. /\ m \in 0 .. Len(iwait) /\ m <= n /\ (m >= Len(iwait) \/ m >= n)
      /\ icount \in Int /\ Len(iwait) \in Nat
  BY LenProperties DEF TypeOK
<1>2. icount' = icount + n /\ iwait' = SubSeq(iwait, m + 1, Len(iwait))
  BY DEF Signaln
<1>3. kont' = [p \in Procs |-> IF p \in F THEN [kont[p] EXCEPT !.at = "woken"] ELSE kont[p]]
  <2>1. \A p \in Procs : p \in F <=> \E i \in 1 .. m : iwait[i] = p
    OBVIOUS
  <2>2. kont' = [p \in Procs |-> IF \E i \in 1 .. m : iwait[i] = p
                                 THEN [kont[p] EXCEPT !.at = "woken"] ELSE kont[p]]
    BY DEF Signaln
  <2> HIDE DEF F, m
  <2> QED
    BY <2>1, <2>2
<1> HIDE DEF m
<1>4. /\ iwait' \in Seq(Procs) /\ IsInjective(iwait')
      /\ Range(iwait') = Queued \ F
      /\ F \subseteq Queued
      /\ iwait' = <<>> => icount' >= 0
      /\ iwait' # <<>> => icount' = -Len(iwait')
      /\ Avail' = Avail + n - m
      /\ IsFiniteSet(F) /\ Cardinality(F) = m
  BY <1>1, <1>2, Released
<1> HIDE DEF F
<1>5. kont \in Konts
  BY DEF TypeOK, Konts
<1>6. /\ kont' \in Konts
      /\ \A p \in Procs : /\ kont'[p].at = IF p \in F THEN "woken" ELSE kont[p].at
                          /\ kont'[p].left = kont[p].left
  BY <1>3, <1>5 DEF Konts
<1>7. Queued' = Queued \ F
  BY <1>6 DEF Queued
<1>8. Woken' = Woken \cup F /\ Woken \cap F = {}
  <2>1. \A p \in F : p \in Procs /\ kont[p].at = "queued"
    BY <1>4 DEF Queued
  <2> QED
    BY <1>6, <2>1 DEF Woken
<1>9. /\ IsFiniteSet(Woken') /\ Cardinality(Woken') = Cardinality(Woken) + m
      /\ Cardinality(Woken) \in Nat
  <2>1. IsFiniteSet(Woken) /\ Cardinality({}) = 0
    BY FS_EmptySet DEF Sem
  <2>2. /\ IsFiniteSet(Woken \cup F)
        /\ Cardinality(Woken \cup F) =
             Cardinality(Woken) + Cardinality(F) - Cardinality(Woken \cap F)
    BY <2>1, <1>4, FS_Union
  <2>3. Cardinality(Woken) \in Nat
    BY <2>1, FS_CardinalityType
  <2>4. /\ IsFiniteSet(Woken')
        /\ Cardinality(Woken') = Cardinality(Woken) + Cardinality(F) - 0
    BY <2>1, <2>2, <1>8
  <2>5. Cardinality(F) = m /\ m \in Nat
    BY <1>1, <1>4
  <2> QED
    BY <2>3, <2>4, <2>5
<1>10. Sem'
  BY <1>4, <1>7, <1>9 DEF Sem
<1>11. Calling'
  <2>1. \A p \in Procs : kont'[p].at # "wait"
    BY <1>6, Sizes DEF Calling
  <2>2. \A p \in Readers : kont'[p].at # "user" => kont'[p].left > 0
    <3>1. \A p \in F : kont[p].at = "queued"
      BY <1>4 DEF Queued
    <3> QED
      BY <1>6, <3>1, Sizes DEF Calling
  <2> QED
    BY <2>1, <2>2, Sizes DEF Calling
<1>12. Unread' = Unread + n
  <2>1. Avail \in Nat
    BY <1>1 DEF Avail
  <2>2. Avail' + Cardinality(Woken') = Avail + Cardinality(Woken) + n
    BY <2>1, <1>1, <1>4, <1>9
  <2> QED
    BY <2>2 DEF Unread
<1> QED
  BY <1>1, <1>2, <1>4, <1>6, <1>10, <1>11, <1>12

LEMMA Quiet ==
    ASSUME TypeOK, Sem, Calling, UNCHANGED <<sem, kont, cpu>>, lost' # "no" => cpu' = NONE
    PROVE  Sem' /\ Calling' /\ Unread' = Unread
<1>1. icount' = icount /\ iwait' = iwait /\ kont' = kont /\ cpu' = cpu
  BY DEF sem
<1>2. Woken' = Woken /\ Queued' = Queued /\ Avail' = Avail
  BY <1>1 DEF Woken, Queued, Avail
<1> QED
  BY <1>1, <1>2 DEF Sem, Calling, Unread

--------------------------------------------------------------------------------
(* What the ring holds.                                                    *)

Typed == InRing(0, Unread)

LEMMA AsSeg ==
    ASSUME NEW f, NEW h \in Int, NEW from \in Int, NEW n \in Int
    PROVE  [i \in 1 .. n |-> f[(h + from + i - 1) % IBUFLEN]] = Seg(f, h, from, n)
<1>1. \A i \in 1 .. n : h + from + i - 1 = h + (from + i - 1)
  OBVIOUS
<1>2. \A i \in 1 .. n : (h + from + i - 1) % IBUFLEN = Slot(h, from + i - 1)
  BY <1>1 DEF Slot
<1> QED
  BY <1>2 DEF Seg

Segs == /\ Typed = Seg(tyibuff, tyihead, 0, Unread)
        /\ Line = Seg(tyibuff, tyihead, Unread, LineLen)

LEMMA AsSegs == TypeOK /\ Sem => Segs
<1> SUFFICES ASSUME TypeOK, Sem PROVE Segs
  OBVIOUS
<1>1. tyihead \in Int /\ Unread \in Int /\ LineLen \in Int /\ 0 \in Int
  BY Counted, Sizes DEF TypeOK, Counting
<1>2. /\ InRing(0, Unread) = Seg(tyibuff, tyihead, 0, Unread)
      /\ InRing(Unread, LineLen) = Seg(tyibuff, tyihead, Unread, LineLen)
  BY <1>1, AsSeg DEF InRing
<1> QED
  BY <1>2 DEF Segs, Typed, Line

LEMMA AsSegsNext == TypeOK' /\ Sem' => Segs'
  BY AsSegs, PTL

LEMMA RingTypes == TypeOK => tyibuff \in Rings /\ tyihead \in Slots /\ tyitail \in Slots
  BY DEF TypeOK, Rings, Slots, Text

LEMMA Texts ==
    ASSUME IInv, lost = "no"
    PROVE  /\ Typed \in Seq(Text) /\ Len(Typed) = Unread
           /\ Line \in Seq(Text) /\ Len(Line) = LineLen
<1>1. /\ tyibuff \in Rings /\ tyihead \in Slots /\ Unread \in Nat /\ LineLen \in Nat /\ 0 \in Nat
      /\ Unread + LineLen <= IBUFLEN
  BY RingTypes, Counted DEF IInv, Counting, Filled
<1>2. 0 + Unread <= IBUFLEN
  BY <1>1, Sizes
<1>3. Segs
  BY AsSegs DEF IInv
<1> QED
  BY <1>1, <1>2, <1>3, SegSeq DEF Segs

LEMMA StoreTypes ==
    ASSUME TypeOK, NEW c \in Text, Store(c)
    PROVE  tyibuff' \in Rings /\ tyihead' = tyihead /\ tyihead' \in Slots /\ tyitail' \in Slots
<1>1. tyibuff \in Rings /\ tyihead \in Slots /\ tyitail \in Slots
  BY RingTypes
<1>2. tyibuff' = [tyibuff EXCEPT ![tyitail] = c] /\ tyitail' = Wrap(tyitail + 1) /\ tyihead' = tyihead
  BY DEF Store
<1>3. Wrap(tyitail + 1) \in Slots
  BY <1>1, Sizes DEF Wrap, Slots
<1>4. tyibuff' \in Rings
  BY <1>1, <1>2 DEF Rings
<1> QED
  BY <1>1, <1>2, <1>3, <1>4

(* A character goes to the line's end, or, with the line, to the programs. *)
LEMMA StoredView ==
    ASSUME IInv, lost = "no", NEW c \in Text, Store(c), Unread + LineLen < IBUFLEN,
           TypeOK', Sem', Unread' + LineLen' = Unread + LineLen + 1
    PROVE  /\ Filled'
           /\ Unread' = Unread /\ LineLen' = LineLen + 1 =>
                 Typed' = Typed /\ Line' = Append(Line, c)
           /\ Unread' = Unread + LineLen + 1 /\ LineLen' = 0 =>
                 Typed' = Typed \o Append(Line, c) /\ Line' = <<>>
           /\ Unread' = Unread + 1 /\ LineLen = 0 /\ LineLen' = 0 =>
                 Typed' = Append(Typed, c) /\ Line = <<>> /\ Line' = <<>>
<1>1. /\ tyibuff \in Rings /\ tyihead \in Slots /\ Unread \in Nat /\ LineLen \in Nat
      /\ tyitail = Slot(tyihead, Unread + LineLen)
      /\ Unread' \in Nat /\ LineLen' \in Nat
  BY RingTypes, Counted, CountedNext DEF IInv, Counting, Filled
<1>2. /\ tyibuff' = [tyibuff EXCEPT ![Slot(tyihead, Unread + LineLen)] = c]
      /\ tyihead' = tyihead /\ tyitail' = Wrap(Slot(tyihead, Unread + LineLen) + 1)
  BY <1>1 DEF Store
<1>3. Segs /\ Segs'
  BY AsSegs, AsSegsNext DEF IInv
<1>4. /\ Seg(tyibuff', tyihead, 0, Unread) = Typed
      /\ Seg(tyibuff', tyihead, Unread, LineLen + 1) = Append(Line, c)
      /\ Seg(tyibuff', tyihead, 0, Unread + LineLen + 1) = Typed \o Append(Line, c)
  <2> DEFINE u == Unread
             l == LineLen
             a == Seg(tyibuff, tyihead, 0, u)
             b == Seg(tyibuff, tyihead, u, l)
  <2>1. /\ u \in Nat /\ l \in Nat /\ u + l < IBUFLEN /\ Typed = a /\ Line = b
        /\ tyibuff' \in Rings /\ tyibuff'[Slot(tyihead, u + l)] = c
        /\ \A j \in Slots : j # Slot(tyihead, u + l) => tyibuff'[j] = tyibuff[j]
    <3>1. tyibuff' = [tyibuff EXCEPT ![tyitail] = c] /\ tyitail \in Slots
      BY RingTypes DEF IInv, Store
    <3>2. /\ tyibuff' \in Rings /\ tyibuff'[tyitail] = c
          /\ \A j \in Slots : j # tyitail => tyibuff'[j] = tyibuff[j]
      BY <1>1, <3>1 DEF Rings
    <3>3. tyitail = Slot(tyihead, u + l)
      BY <1>1
    <3>4. /\ tyibuff' \in Rings /\ tyibuff'[Slot(tyihead, u + l)] = c
          /\ \A j \in Slots : j # Slot(tyihead, u + l) => tyibuff'[j] = tyibuff[j]
      <4> HIDE DEF u, l, a, b
      <4> QED
        BY <3>2, <3>3
    <3>5. Typed = a /\ Line = b
      BY <1>3 DEF Segs
    <3>6. u \in Nat /\ l \in Nat /\ u + l < IBUFLEN
      <4>1. u \in Nat /\ l \in Nat
        BY <1>1
      <4> QED
        BY <4>1
    <3> HIDE DEF u, l, a, b
    <3> QED
      BY <3>4, <3>5, <3>6
  <2> HIDE DEF u, l
  <2>2. /\ Seg(tyibuff', tyihead, 0, u) = a
        /\ Seg(tyibuff', tyihead, u, l + 1) = Append(b, c)
        /\ Seg(tyibuff', tyihead, 0, u + l + 1) = a \o Append(b, c)
    BY <1>1, <2>1, SegStore
  <2> HIDE DEF a, b
  <2>3. /\ Seg(tyibuff', tyihead, 0, u) = Typed
        /\ Seg(tyibuff', tyihead, u, l + 1) = Append(Line, c)
        /\ Seg(tyibuff', tyihead, 0, u + l + 1) = Typed \o Append(Line, c)
    BY <2>1, <2>2
  <2> QED
    BY <2>3 DEF u, l
<1>5. Filled'
  <2> DEFINE k == Unread + LineLen
  <2>0. k + 1 = Unread' + LineLen'
    OBVIOUS
  <2>1. k \in 0 .. IBUFLEN - 1
    BY <1>1, Sizes
  <2>2. k \in 0 .. IBUFLEN - 1 /\ tyitail' = Wrap(Slot(tyihead, k) + 1)
        /\ k + 1 = Unread' + LineLen'
    BY <1>2, <2>0, <2>1
  <2> HIDE DEF k
  <2>3. tyitail' = Slot(tyihead, k + 1)
    BY <2>2, <1>1, SlotNext
  <2>4. Unread' + LineLen' <= IBUFLEN
    BY <2>2, Sizes
  <2>5. tyitail' = Slot(tyihead, Unread' + LineLen')
    BY <2>2, <2>3
  <2> QED
    BY <2>4, <2>5, <1>2 DEF Filled
<1>6. /\ Typed' = Seg(tyibuff', tyihead, 0, Unread')
      /\ Line' = Seg(tyibuff', tyihead, Unread', LineLen')
  BY <1>2, <1>3 DEF Segs
<1>7. \A u \in Nat : Seg(tyibuff', tyihead, u, 0) = <<>> /\ Seg(tyibuff, tyihead, u, 0) = <<>>
  BY DEF Seg
<1>8. ASSUME Unread' = Unread, LineLen' = LineLen + 1
      PROVE  Typed' = Typed /\ Line' = Append(Line, c)
  BY <1>4, <1>6, <1>8
<1>9. ASSUME Unread' = Unread + LineLen + 1, LineLen' = 0
      PROVE  Typed' = Typed \o Append(Line, c) /\ Line' = <<>>
  BY <1>1, <1>4, <1>6, <1>7, <1>9
<1>10. ASSUME Unread' = Unread + 1, LineLen = 0, LineLen' = 0
       PROVE  Typed' = Append(Typed, c) /\ Line = <<>> /\ Line' = <<>>
  <2>1. Line = <<>> /\ Line' = <<>>
    BY <1>1, <1>3, <1>6, <1>7, <1>10 DEF Segs
  <2>2. Unread' = Unread + LineLen + 1
    BY <1>1, <1>10
  <2>3. Typed' = Typed \o Append(<<>>, c)
    BY <1>9, <1>10, <2>1, <2>2
  <2>4. Append(<<>>, c) = <<c>>
    OBVIOUS
  <2>5. Typed \o <<c>> = Append(Typed, c)
    BY Texts, AppendIsConcat
  <2> QED
    BY <2>1, <2>3, <2>4, <2>5
<1> QED
  BY <1>5, <1>8, <1>9, <1>10

(* The oldest character is taken.                                          *)
LEMMA TakenView ==
    ASSUME IInv, lost = "no", Unread > 0, tyibuff' = tyibuff,
           tyihead' = Wrap(tyihead + 1), tyitail' = tyitail,
           TypeOK', Sem', Unread' = Unread - 1, LineLen' = LineLen
    PROVE  /\ Filled' /\ Typed # <<>> /\ Head(Typed) = tyibuff[tyihead]
           /\ Typed' = Tail(Typed) /\ Line' = Line
<1> DEFINE u == Unread
           l == LineLen
<1>1. /\ tyibuff \in Rings /\ tyihead \in Slots /\ u \in Nat /\ l \in Nat
      /\ u > 0 /\ u + l <= IBUFLEN /\ tyitail = Slot(tyihead, u + l)
  BY RingTypes, Counted DEF IInv, Counting, Filled
<1>2. /\ Typed = Seg(tyibuff, tyihead, 0, u)
      /\ Line = Seg(tyibuff, tyihead, u, l)
      /\ Typed' = Seg(tyibuff, Wrap(tyihead + 1), 0, u - 1)
      /\ Line' = Seg(tyibuff, Wrap(tyihead + 1), u - 1, l)
  BY AsSegs, AsSegsNext DEF IInv, Segs
<1> HIDE DEF u, l
<1>3. /\ Slot(Wrap(tyihead + 1), u - 1 + l) = Slot(tyihead, u + l)
      /\ Seg(tyibuff, tyihead, 0, u) # <<>>
      /\ Head(Seg(tyibuff, tyihead, 0, u)) = tyibuff[tyihead]
      /\ Seg(tyibuff, Wrap(tyihead + 1), 0, u - 1) = Tail(Seg(tyibuff, tyihead, 0, u))
      /\ Seg(tyibuff, Wrap(tyihead + 1), u - 1, l) = Seg(tyibuff, tyihead, u, l)
  BY <1>1, SegTake
<1>4. Filled'
  <2>1. tyitail' = Slot(tyihead', u - 1 + l)
    BY <1>1, <1>3
  <2>2. u - 1 + l <= IBUFLEN
    BY <1>1, Sizes
  <2> QED
    BY <2>1, <2>2 DEF Filled, u, l
<1> QED
  BY <1>2, <1>3, <1>4

(* The last n characters of the line are given up.                         *)
LEMMA CutView ==
    ASSUME IInv, lost = "no", NEW n \in 0 .. LineLen, tyibuff' = tyibuff, tyihead' = tyihead,
           tyitail' = Back(tyitail, n),
           TypeOK', Sem', Unread' = Unread, LineLen' = LineLen - n
    PROVE  /\ Filled'
           /\ Typed' = Typed /\ Line' = SubSeq(Line, 1, LineLen - n)
<1> DEFINE u == Unread
           l == LineLen
<1>1. /\ tyibuff \in Rings /\ tyihead \in Slots /\ u \in Nat /\ l \in Nat
      /\ u + l <= IBUFLEN /\ tyitail = Slot(tyihead, u + l) /\ n \in 0 .. l
  BY RingTypes, Counted DEF IInv, Counting, Filled
<1>2. /\ Typed = Seg(tyibuff, tyihead, 0, u)
      /\ Line = Seg(tyibuff, tyihead, u, l)
      /\ Typed' = Seg(tyibuff, tyihead, 0, u)
      /\ Line' = Seg(tyibuff, tyihead, u, l - n)
  BY AsSegs, AsSegsNext DEF IInv, Segs
<1> HIDE DEF u, l
<1>3. /\ Back(Slot(tyihead, u + l), n) = Slot(tyihead, u + (l - n))
      /\ Seg(tyibuff, tyihead, u, l - n) = SubSeq(Seg(tyibuff, tyihead, u, l), 1, l - n)
  BY <1>1, SegCut
<1>4. Filled'
  <2>1. tyitail' = Slot(tyihead', u + (l - n))
    BY <1>1, <1>3
  <2>2. u + (l - n) <= IBUFLEN
    BY <1>1, Sizes
  <2> QED
    BY <2>1, <2>2 DEF Filled, u, l
<1>5. Line' = SubSeq(Line, 1, l - n)
  BY <1>2, <1>3
<1> QED
  BY <1>2, <1>4, <1>5 DEF l

LEMMA SameView ==
    ASSUME IInv, UNCHANGED ring, lost' = "no" => lost = "no",
           TypeOK', Sem', Unread' = Unread, LineLen' = LineLen
    PROVE  Filled' /\ Typed' = Typed /\ Line' = Line
<1>1. tyibuff' = tyibuff /\ tyihead' = tyihead /\ tyitail' = tyitail
  BY DEF ring
<1>2. Segs /\ Segs'
  BY AsSegs, AsSegsNext DEF IInv
<1> QED
  BY <1>1, <1>2 DEF Segs, IInv, Filled

--------------------------------------------------------------------------------
(* The keys, one by one: each keeps the invariant, and what it does to the *)
(* line and to the characters programs may take.                           *)

Losses == {"no", "cursor", "mode", "overrun", "eof"}

LEMMA Lossless ==
    ASSUME IInv
    PROVE  /\ Loss \in Losses
           /\ Loss = "no" => /\ Unread + LineLen < IBUFLEN
                             /\ tyimode # "cooked" => LineLen = 0
                             /\ tyimode = "cooked" => ~suspended /\ LineLen = tyicursor
<1>1. Unread \in Nat /\ LineLen \in Nat /\ IBUFLEN \in Nat
  BY Counted, Sizes DEF IInv, Counting
<1>2. Loss \in Losses
  BY DEF Loss, Losses
<1>3. ASSUME Loss = "no" PROVE ~(Unread + LineLen >= IBUFLEN)
  BY <1>3 DEF Loss
<1>4. ASSUME Loss = "no" PROVE /\ tyimode # "cooked" => LineLen = 0
                               /\ tyimode = "cooked" => ~suspended
  BY <1>4 DEF Loss
<1>5. ~suspended => LineLen = tyicursor
  BY DEF LineLen
<1> QED
  BY <1>1, <1>2, <1>3, <1>4, <1>5

LEMMA FullLine ==
    ASSUME IInv, lost = "no", Avail >= IBUFLEN
    PROVE  Unread >= IBUFLEN /\ LineLen = 0
<1>1. /\ Avail \in Nat /\ Cardinality(Woken) \in Nat /\ LineLen \in Nat
      /\ Avail + Cardinality(Woken) + LineLen <= IBUFLEN
  BY Counted DEF IInv, Counting, Filled, Unread
<1> QED
  BY <1>1, Sizes DEF Unread

(* The line is empty and stays empty.                                      *)
NoLine == Line = <<>> /\ Line' = <<>>

LEMMA Empty == ASSUME IInv, lost = "no", LineLen = 0 PROVE Line = <<>>
  BY Texts, EmptySeq

Delivered(c) == NoLine /\ \/ Typed' = Append(Typed, c)
                          \/ Unread >= IBUFLEN /\ Typed' = Typed

Typings == (Keys \cup {NONE}) \X BOOLEAN

LEMMA Pressed == IInv => \A k \in Keys : <<k, ~keyed[2]>> \in Typings
<1> SUFFICES ASSUME IInv, NEW k \in Keys PROVE <<k, ~keyed[2]>> \in Typings
  OBVIOUS
<1>1. keyed[2] \in BOOLEAN
  BY DEF IInv, TypeOK
<1>2. (~keyed[2]) \in BOOLEAN
  <2>1. CASE keyed[2] = TRUE
    <3>1. (~keyed[2]) = FALSE
      BY <2>1
    <3> QED
      BY <3>1
  <2>2. CASE keyed[2] = FALSE
    <3>1. (~keyed[2]) = TRUE
      BY <2>2
    <3> QED
      BY <3>1
  <2> QED
    BY <1>1, <2>1, <2>2
<1> QED
  BY <1>2 DEF Typings

LEMMA RawKeyStep ==
    ASSUME IInv, NEW k \in Keys, RawKey(k)
    PROVE  IInv' /\ (lost' = "no" => Delivered(k))
<1>1. /\ lost = "no" /\ cpu = NONE /\ tyimode = "raw" /\ keyed' \in Typings
      /\ UNCHANGED <<tyimode, tyiecho, cpu, got, tyicursor, screen, clean, suspended>>
  BY Pressed DEF RawKey, Arrives
<1>2. LineLen' = LineLen
  BY <1>1 DEF LineLen
<1>3. TypeOK /\ Sem /\ Calling
  BY DEF IInv
<1>4. CASE Avail >= IBUFLEN
  <2>1. UNCHANGED <<ring, sem, kont, lost>>
    BY <1>4 DEF RawKey
  <2>2. Sem' /\ Calling' /\ Unread' = Unread
    BY <1>1, <1>3, <2>1, Quiet
  <2>3. TypeOK'
    BY <1>1, <1>3, <2>1 DEF TypeOK, Typings, ring, sem
  <2>4. Filled' /\ Typed' = Typed /\ Line' = Line
    BY <1>2, <2>1, <2>2, <2>3, SameView
  <2>5. Unread >= IBUFLEN /\ LineLen = 0
    BY <1>1, <1>4, FullLine
  <2>6. Line = <<>>
    BY <1>1, <2>5, Empty
  <2> QED
    BY <2>2, <2>3, <2>4, <2>5, <2>6 DEF IInv, Delivered, NoLine
<1>5. CASE ~(Avail >= IBUFLEN)
  <2>1. Store(k) /\ Signaln(1) /\ lost' = Loss
    BY <1>5 DEF RawKey
  <2>2. /\ iwait' \in Seq(Procs) /\ icount' \in Int /\ kont' \in Konts
        /\ Sem' /\ Calling' /\ Unread' = Unread + 1
    BY <1>1, <1>3, <2>1, Signalled
  <2>3. k \in Text
    BY DEF Text
  <2>4. tyibuff' \in Rings /\ tyihead' \in Slots /\ tyitail' \in Slots
    BY <1>3, <2>1, <2>3, StoreTypes
  <2>5. TypeOK'
    BY <1>1, <1>3, <2>1, <2>2, <2>4, Lossless
       DEF TypeOK, Typings, Rings, Slots, Text, Konts, Losses
  <2>6. ASSUME lost' = "no"
        PROVE  Filled' /\ Delivered(k)
    <3>1. Unread + LineLen < IBUFLEN /\ LineLen = 0 /\ LineLen' = 0
      BY <1>1, <1>2, <2>1, <2>6, Lossless
    <3>2. Unread' + LineLen' = Unread + LineLen + 1
      BY <1>3, <2>2, <3>1, Counted DEF Counting
    <3> QED
      BY <1>1, <2>1, <2>2, <2>3, <2>5, <3>1, <3>2, StoredView DEF Delivered, NoLine
  <2>7. Filled'
    BY <2>6 DEF Filled
  <2> QED
    BY <2>2, <2>5, <2>6, <2>7 DEF IInv
<1> QED
  BY <1>4, <1>5

LEMMA CbreakKeyStep ==
    ASSUME IInv, NEW k \in Keys, CbreakKey(k)
    PROVE  IInv' /\ (lost' = "no" => Delivered(Mapped(k)))
<1>1. /\ lost = "no" /\ cpu = NONE /\ tyimode = "cbreak" /\ keyed' \in Typings
      /\ UNCHANGED <<tyimode, tyiecho, cpu, got, tyicursor, suspended>>
  BY Pressed DEF CbreakKey, Arrives
<1>2. LineLen' = LineLen
  BY <1>1 DEF LineLen
<1>3. TypeOK /\ Sem /\ Calling
  BY DEF IInv
<1>4. CASE Avail >= IBUFLEN
  <2>1. UNCHANGED <<ring, sem, kont, clean, lost>>
    BY <1>4 DEF CbreakKey
  <2>2. Sem' /\ Calling' /\ Unread' = Unread
    BY <1>1, <1>3, <2>1, Quiet
  <2>3. TypeOK'
    BY <1>1, <1>3, <2>1 DEF TypeOK, Typings, ring, sem
  <2>4. Filled' /\ Typed' = Typed /\ Line' = Line
    BY <1>2, <2>1, <2>2, <2>3, SameView
  <2>5. Unread >= IBUFLEN /\ LineLen = 0
    BY <1>1, <1>4, FullLine
  <2>6. Line = <<>>
    BY <1>1, <2>5, Empty
  <2> QED
    BY <2>2, <2>3, <2>4, <2>5, <2>6 DEF IInv, Delivered, NoLine
<1>5. CASE ~(Avail >= IBUFLEN)
  <2> DEFINE c == Mapped(k)
  <2>1. Store(c) /\ Signaln(1) /\ lost' = Loss /\ clean' = FALSE
    BY <1>5 DEF CbreakKey
  <2>2. /\ iwait' \in Seq(Procs) /\ icount' \in Int /\ kont' \in Konts
        /\ Sem' /\ Calling' /\ Unread' = Unread + 1
    BY <1>1, <1>3, <2>1, Signalled
  <2>3. c \in Text
    BY DEF Text, Mapped
  <2> HIDE DEF c
  <2>4. tyibuff' \in Rings /\ tyihead' \in Slots /\ tyitail' \in Slots
    BY <1>3, <2>1, <2>3, StoreTypes
  <2>5. TypeOK'
    BY <1>1, <1>3, <2>1, <2>2, <2>4, Lossless
       DEF TypeOK, Typings, Rings, Slots, Text, Konts, Losses
  <2>6. ASSUME lost' = "no"
        PROVE  Filled' /\ Delivered(c)
    <3>1. Unread + LineLen < IBUFLEN /\ LineLen = 0 /\ LineLen' = 0
      BY <1>1, <1>2, <2>1, <2>6, Lossless
    <3>2. Unread' + LineLen' = Unread + LineLen + 1
      BY <1>3, <2>2, <3>1, Counted DEF Counting
    <3> QED
      BY <1>1, <2>1, <2>2, <2>3, <2>5, <3>1, <3>2, StoredView DEF Delivered, NoLine
  <2>7. Filled'
    BY <2>6 DEF Filled
  <2> QED
    BY <2>2, <2>5, <2>6, <2>7 DEF IInv, c
<1> QED
  BY <1>4, <1>5

LEMMA BackSlot == ASSUME NEW t \in Slots, NEW n \in 0 .. IBUFLEN PROVE Back(t, n) \in Slots
  BY Sizes DEF Back, Slots

(* The semaphore does not change.                                          *)
LEMMA KillLineStep ==
    ASSUME IInv, KillLine
    PROVE  IInv' /\ (lost' = "no" => Typed' = Typed /\ Line' = <<>>)
<1>1. /\ lost = "no" /\ cpu = NONE /\ keyed' \in Typings
      /\ UNCHANGED <<tyimode, tyiecho, cpu, got, tyibuff, tyihead, sem, kont, suspended>>
      /\ tyitail' = Back(tyitail, tyicursor) /\ tyicursor' = 0
      /\ clean' = tyiecho /\ lost' = Stale
  BY Pressed DEF KillLine, Cooked, Arrives
<1>2. TypeOK /\ Sem /\ Calling
  BY DEF IInv
<1>3. Sem' /\ Calling' /\ Unread' = Unread
  BY <1>1, <1>2, Quiet
<1>4. tyitail' \in Slots
  <2>1. tyitail \in Slots /\ tyicursor \in 0 .. IBUFLEN
    BY <1>2, RingTypes DEF TypeOK, Typings
  <2> QED
    BY <1>1, <2>1, BackSlot
<1>5. lost' \in Losses
  BY <1>1 DEF Stale, Losses
<1>6. 0 \in 0 .. IBUFLEN
  BY Sizes
<1>7. TypeOK'
  BY <1>1, <1>2, <1>4, <1>5, <1>6 DEF TypeOK, Typings, Slots, sem, Losses
<1>8. ASSUME lost' = "no" PROVE Filled' /\ Typed' = Typed /\ Line' = <<>>
  <2>1. ~suspended /\ LineLen = tyicursor /\ LineLen' = 0
    BY <1>1, <1>8 DEF Stale, LineLen
  <2>2. tyicursor \in 0 .. LineLen /\ LineLen' = LineLen - tyicursor /\ LineLen - tyicursor = 0
    BY <1>2, <2>1 DEF TypeOK, Typings
  <2>3. Filled' /\ Typed' = Typed /\ Line' = SubSeq(Line, 1, LineLen - tyicursor)
    BY <1>1, <1>3, <1>7, <2>2, CutView
  <2>4. SubSeq(Line, 1, 0) = <<>>
    BY SubSeqEmpty
  <2> QED
    BY <2>2, <2>3, <2>4
<1>9. Filled'
  BY <1>8 DEF Filled
<1> QED
  BY <1>3, <1>7, <1>8, <1>9 DEF IInv

(* One character less on the line, which is the one the handler erases on  *)
(* the screen.                                                             *)
Erased == \/ Line = <<>> /\ Line' = Line
          \/ /\ Line # <<>> /\ Line' = SubSeq(Line, 1, Len(Line) - 1)
             /\ tyicursor > 0 /\ tyibuff[tyitail'] = Line[Len(Line)]

LEMMA EraseKeyStep ==
    ASSUME IInv, EraseKey
    PROVE  IInv' /\ (lost' = "no" => Typed' = Typed /\ Erased)
<1>1. /\ lost = "no" /\ cpu = NONE /\ keyed' \in Typings
      /\ UNCHANGED <<tyimode, tyiecho, cpu, got, tyibuff, tyihead, sem, kont, clean, suspended>>
  BY Pressed DEF EraseKey, Cooked, Arrives
<1>2. TypeOK /\ Sem /\ Calling /\ tyicursor \in 0 .. IBUFLEN
  BY DEF IInv, TypeOK
<1>3. Sem' /\ Calling' /\ Unread' = Unread
  BY <1>1, <1>2, Quiet
<1>4. CASE tyicursor > 0
  <2>1. tyicursor' = tyicursor - 1 /\ tyitail' = Back(tyitail, 1) /\ lost' = Stale
    BY <1>4 DEF EraseKey
  <2>2. 1 \in 0 .. IBUFLEN /\ tyicursor - 1 \in 0 .. IBUFLEN
    BY <1>2, <1>4, Sizes
  <2>3. tyitail' \in Slots
    BY <1>2, <2>1, <2>2, RingTypes, BackSlot
  <2>4. lost' \in Losses
    BY <2>1 DEF Stale, Losses
  <2>5. TypeOK'
    BY <1>1, <1>2, <2>1, <2>2, <2>3, <2>4 DEF TypeOK, Typings, Slots, sem, Losses
  <2>6. ASSUME lost' = "no" PROVE Filled' /\ Typed' = Typed /\ Erased
    <3>1. ~suspended /\ LineLen = tyicursor /\ LineLen' = tyicursor - 1
      BY <1>1, <2>1, <2>6 DEF Stale, LineLen
    <3>2. LineLen \in Nat /\ LineLen > 0 /\ 1 \in 0 .. LineLen /\ LineLen' = LineLen - 1
      BY <1>2, <1>4, <3>1
    <3>3. Filled' /\ Typed' = Typed /\ Line' = SubSeq(Line, 1, LineLen - 1)
      BY <1>1, <1>3, <2>1, <2>5, <3>2, CutView
    <3>4. Len(Line) = LineLen /\ Line # <<>>
      BY <1>1, <3>2, Texts, EmptySeq
    <3>5. tyibuff[tyitail'] = Line[LineLen]
      <4> DEFINE u == Unread
                 l == LineLen
      <4>1. /\ u \in Nat /\ l \in Nat /\ l > 0 /\ u + l <= IBUFLEN
            /\ tyibuff \in Rings /\ tyihead \in Slots
            /\ tyitail' = Slot(tyihead, u + (l - 1))
        <5>1. Unread' + LineLen' = u + (l - 1) /\ tyihead' = tyihead
          BY <1>1, <1>3, <3>2
        <5>2. tyitail' = Slot(tyihead', Unread' + LineLen')
          BY <2>6, <3>3 DEF Filled
        <5>3. u \in Nat /\ tyibuff \in Rings /\ tyihead \in Slots
          BY <1>2, Counted, RingTypes DEF Counting
        <5>4. u + l <= IBUFLEN
          BY <1>1 DEF IInv, Filled
        <5> QED
          BY <3>2, <5>1, <5>2, <5>3, <5>4
      <4>2. Line = Seg(tyibuff, tyihead, u, l)
        BY <1>2, AsSegs DEF Segs
      <4> HIDE DEF u, l
      <4>3. Seg(tyibuff, tyihead, u, l)[l] = tyibuff[Slot(tyihead, u + l - 1)]
        <5>1. \A i \in 1 .. l : Seg(tyibuff, tyihead, u, l)[i] = tyibuff[Slot(tyihead, u + i - 1)]
          BY <4>1, SegSeq
        <5>2. l \in 1 .. l
          BY <4>1
        <5> QED
          BY <5>1, <5>2
      <4>4. u + l - 1 = u + (l - 1)
        BY <4>1
      <4> QED
        BY <4>1, <4>2, <4>3, <4>4 DEF l
    <3> QED
      BY <1>4, <3>3, <3>4, <3>5 DEF Erased
  <2>7. Filled'
    BY <2>6 DEF Filled
  <2> QED
    BY <1>3, <2>5, <2>6, <2>7 DEF IInv
<1>5. CASE ~(tyicursor > 0)
  <2>1. UNCHANGED <<tyicursor, tyitail, screen, lost>>
    BY <1>5 DEF EraseKey
  <2>2. TypeOK'
    BY <1>1, <1>2, <2>1 DEF TypeOK, Typings, sem
  <2>3. LineLen' = LineLen /\ LineLen = 0
    BY <1>1, <1>2, <1>5, <2>1 DEF LineLen
  <2>4. Filled' /\ Typed' = Typed /\ Line' = Line
    BY <1>1, <1>3, <2>1, <2>2, <2>3, SameView DEF ring
  <2> QED
    BY <1>1, <1>3, <2>2, <2>3, <2>4, Empty DEF IInv, Erased
<1> QED
  BY <1>4, <1>5

LEMMA LineKeyStep ==
    ASSUME IInv, NEW k \in Keys, LineKey(k)
    PROVE  IInv' /\ (lost' = "no" => Typed' = Typed \o Append(Line, "nl") /\ Line' = <<>>)
<1>1. /\ lost = "no" /\ cpu = NONE /\ tyimode = "cooked" /\ keyed' \in Typings
      /\ UNCHANGED <<tyimode, tyiecho, cpu, got>>
      /\ Store("nl") /\ Signaln(tyicursor + 1) /\ lost' = Loss /\ clean' = tyiecho
      /\ \/ tyicursor' = 0 /\ suspended' = suspended
         \/ suspended' = TRUE /\ tyicursor' = tyicursor
  BY Pressed DEF LineKey, Cooked, Arrives
<1>2. TypeOK /\ Sem /\ Calling
  BY DEF IInv
<1>3. tyicursor + 1 \in Nat /\ tyicursor + 1 > 0 /\ tyicursor \in Nat
  BY <1>2 DEF TypeOK, Typings
<1>4. /\ iwait' \in Seq(Procs) /\ icount' \in Int /\ kont' \in Konts
      /\ Sem' /\ Calling' /\ Unread' = Unread + (tyicursor + 1)
  <2> DEFINE n == tyicursor + 1
  <2>1. n \in Nat /\ n > 0 /\ Signaln(n)
    BY <1>1, <1>3
  <2> HIDE DEF n
  <2>2. /\ iwait' \in Seq(Procs) /\ icount' \in Int /\ kont' \in Konts
        /\ Sem' /\ Calling' /\ Unread' = Unread + n
    BY <1>1, <1>2, <2>1, Signalled
  <2> QED
    BY <2>2 DEF n
<1>5. "nl" \in Text
  BY DEF Text
<1>6. tyibuff' \in Rings /\ tyihead' \in Slots /\ tyitail' \in Slots
  BY <1>1, <1>2, <1>5, StoreTypes
<1>7. tyicursor' \in 0 .. IBUFLEN /\ suspended' \in BOOLEAN /\ clean' \in BOOLEAN
  <2>1. 0 \in 0 .. IBUFLEN
    BY Sizes
  <2>2. tyicursor \in 0 .. IBUFLEN /\ suspended \in BOOLEAN /\ tyiecho \in BOOLEAN
    BY <1>2 DEF TypeOK, Typings
  <2>3. tyicursor' = 0 \/ tyicursor' = tyicursor
    BY <1>1
  <2>4. suspended' = suspended \/ suspended' = TRUE
    BY <1>1
  <2>5. tyicursor' \in 0 .. IBUFLEN
    BY <2>1, <2>2, <2>3
  <2> QED
    BY <1>1, <2>2, <2>4, <2>5
<1>8. TypeOK'
  BY <1>1, <1>2, <1>4, <1>6, <1>7, Lossless
     DEF TypeOK, Typings, Rings, Slots, Text, Konts, Losses
<1>9. ASSUME lost' = "no"
      PROVE  Filled' /\ Typed' = Typed \o Append(Line, "nl") /\ Line' = <<>>
  <2>1. Unread + LineLen < IBUFLEN /\ ~suspended /\ LineLen = tyicursor
    BY <1>1, <1>9, Lossless
  <2>2. LineLen' = 0
    BY <1>1, <2>1 DEF LineLen
  <2>3. Unread' = Unread + LineLen + 1 /\ Unread' + LineLen' = Unread + LineLen + 1
    BY <1>2, <1>4, <2>1, <2>2, Counted DEF Counting
  <2> QED
    BY <1>1, <1>4, <1>5, <1>8, <2>1, <2>2, <2>3, StoredView
<1>10. Filled'
  BY <1>9 DEF Filled
<1> QED
  BY <1>4, <1>8, <1>9, <1>10 DEF IInv

Nothing == Typed' = Typed /\ Line' = Line

LEMMA HandlerEndsStep ==
    ASSUME IInv, HandlerEnds
    PROVE  IInv' /\ Nothing /\ NoLine
<1>1. /\ lost = "no" /\ suspended /\ tyicursor' = 0 /\ suspended' = FALSE
      /\ UNCHANGED <<ring, sem, tyimode, tyiecho, screen, clean, kont, cpu, got, keyed, lost>>
  BY DEF HandlerEnds
<1>2. TypeOK /\ Sem /\ Calling /\ 0 \in 0 .. IBUFLEN
  BY Sizes DEF IInv
<1>3. Sem' /\ Calling' /\ Unread' = Unread
  BY <1>1, <1>2, Quiet DEF Calling
<1>4. TypeOK'
  BY <1>1, <1>2 DEF TypeOK, Typings, ring, sem
<1>5. LineLen' = LineLen /\ LineLen = 0
  BY <1>1 DEF LineLen
<1>6. Filled' /\ Typed' = Typed /\ Line' = Line
  BY <1>1, <1>3, <1>4, <1>5, SameView
<1> QED
  BY <1>1, <1>3, <1>4, <1>5, <1>6, Empty DEF IInv, Nothing, NoLine

(* What a key that may go on the line does.                                *)
Charred(k) == \/ Nothing /\ Unread + LineLen >= IBUFLEN - 1
              \/ Nothing /\ k = "eof" /\ Line # <<>>
              \/ k = "eof" /\ NoLine /\ Typed' = Append(Typed, k)
              \/ k # "eof" /\ Line' = Append(Line, k) /\ Typed' = Typed

LEMMA BellStep ==
    ASSUME IInv, NEW k \in Keys, CharKey(k), Avail + tyicursor >= IBUFLEN - 1
    PROVE  /\ IInv' /\ screen' = FoldLeft(Show, screen, <<"BELL">>) /\ clean' = clean
           /\ lost' = "no" => Nothing /\ Unread + LineLen >= IBUFLEN - 1
<1>1. /\ lost = "no" /\ cpu = NONE /\ tyimode = "cooked" /\ keyed' \in Typings
      /\ UNCHANGED <<tyimode, tyiecho, cpu, got, suspended>>
  BY Pressed DEF CharKey, Cooked, Arrives
<1>2. TypeOK /\ Sem /\ Calling
  BY DEF IInv
<1>3. ~(Avail + tyicursor < IBUFLEN - 1)
  BY <1>2, Counted, Sizes DEF Counting, TypeOK
<1>4. Put(<<"BELL">>) /\ lost' = Stale /\ UNCHANGED <<ring, sem, kont, tyicursor, clean>>
  BY <1>3 DEF CharKey
<1>5. lost' \in Losses
  BY <1>4 DEF Stale, Losses
<1>6. Sem' /\ Calling' /\ Unread' = Unread
  BY <1>1, <1>2, <1>4, Quiet
<1>7. TypeOK'
  BY <1>1, <1>2, <1>4, <1>5 DEF TypeOK, Typings, ring, sem, Losses
<1>8. LineLen' = LineLen
  BY <1>1, <1>4 DEF LineLen
<1>9. Filled' /\ Typed' = Typed /\ Line' = Line
  BY <1>1, <1>4, <1>6, <1>7, <1>8, SameView
<1>10. ASSUME lost' = "no" PROVE Unread + LineLen >= IBUFLEN - 1
  <2>1. LineLen = tyicursor
    BY <1>4, <1>10 DEF Stale, LineLen
  <2>2. Avail \in Nat /\ Cardinality(Woken) \in Nat /\ tyicursor \in Nat
    BY <1>2, Counted DEF Counting, TypeOK
  <2> DEFINE a == Avail
             w == Cardinality(Woken)
             i == tyicursor
  <2>3. a \in Nat /\ w \in Nat /\ i \in Nat /\ a + i >= IBUFLEN - 1
    BY <2>2
  <2> HIDE DEF a, w, i
  <2>4. (a + w) + i >= IBUFLEN - 1
    BY <2>3, Sizes
  <2>5. Avail + Cardinality(Woken) + tyicursor >= IBUFLEN - 1
    BY <2>4 DEF a, w, i
  <2> QED
    BY <2>1, <2>5 DEF Unread
<1> QED
  BY <1>4, <1>6, <1>7, <1>9, <1>10 DEF IInv, Nothing, Put

LEMMA EofKeyStep ==
    ASSUME IInv, "eof" \in Keys, CharKey("eof"), ~(Avail + tyicursor >= IBUFLEN - 1)
    PROVE  IInv' /\ clean' = FALSE /\ (lost' = "no" => Charred("eof"))
<1>1. /\ lost = "no" /\ cpu = NONE /\ tyimode = "cooked" /\ keyed' \in Typings
      /\ UNCHANGED <<tyimode, tyiecho, cpu, got, suspended>>
  BY Pressed DEF CharKey, Cooked, Arrives
<1>2. TypeOK /\ Sem /\ Calling /\ tyicursor \in Nat
  BY DEF IInv, TypeOK
<1>3. CASE tyicursor # 0
  <2>1. clean' = FALSE /\ lost' = Stale /\ UNCHANGED <<ring, sem, kont, tyicursor>>
    BY <1>3 DEF CharKey
  <2>2. lost' \in Losses
    BY <2>1 DEF Stale, Losses
  <2>3. Sem' /\ Calling' /\ Unread' = Unread
    BY <1>1, <1>2, <2>1, Quiet
  <2>4. TypeOK'
    BY <1>1, <1>2, <2>1, <2>2 DEF TypeOK, Typings, ring, sem, Losses
  <2>5. LineLen' = LineLen
    BY <1>1, <2>1 DEF LineLen
  <2>6. Filled' /\ Typed' = Typed /\ Line' = Line
    BY <1>1, <2>1, <2>3, <2>4, <2>5, SameView
  <2>7. ASSUME lost' = "no" PROVE Line # <<>>
    <3>1. LineLen = tyicursor
      BY <2>1, <2>7 DEF Stale, LineLen
    <3> QED
      BY <1>1, <1>3, <3>1, Texts, EmptySeq
  <2> QED
    BY <2>1, <2>3, <2>4, <2>6, <2>7 DEF IInv, Charred, Nothing
<1>4. CASE tyicursor = 0
  <2>1. /\ Store("eof") /\ Signaln(1) /\ clean' = FALSE /\ tyicursor' = tyicursor
        /\ lost' = IF tyitail = IBUFLEN - 1 THEN "eof" ELSE Loss
    BY <1>4 DEF CharKey
  <2>2. /\ iwait' \in Seq(Procs) /\ icount' \in Int /\ kont' \in Konts
        /\ Sem' /\ Calling' /\ Unread' = Unread + 1
    BY <1>1, <1>2, <2>1, Signalled
  <2>3. "eof" \in Text
    BY DEF Text
  <2>4. tyibuff' \in Rings /\ tyihead' \in Slots /\ tyitail' \in Slots
    BY <1>2, <2>1, <2>3, StoreTypes
  <2>5. lost' \in Losses
    BY <2>1, Lossless DEF Losses
  <2>6. TypeOK'
    BY <1>1, <1>2, <2>1, <2>2, <2>4, <2>5
       DEF TypeOK, Typings, Rings, Slots, Text, Konts, Losses
  <2>7. ASSUME lost' = "no"
        PROVE  Filled' /\ NoLine /\ Typed' = Append(Typed, "eof")
    <3>1. Unread + LineLen < IBUFLEN /\ LineLen = 0
      BY <1>1, <1>4, <2>1, <2>7, Lossless
    <3>2. LineLen' = 0
      BY <1>1, <2>1, <3>1 DEF LineLen
    <3>3. Unread' + LineLen' = Unread + LineLen + 1
      BY <1>2, <2>2, <3>1, <3>2, Counted DEF Counting
    <3> QED
      BY <1>1, <2>1, <2>2, <2>3, <2>6, <3>1, <3>2, <3>3, StoredView DEF NoLine
  <2>8. Filled'
    BY <2>7 DEF Filled
  <2> QED
    BY <2>1, <2>2, <2>6, <2>7, <2>8 DEF IInv, Charred
<1> QED
  BY <1>3, <1>4

LEMMA PlainKeyStep ==
    ASSUME IInv, NEW k \in Keys, CharKey(k), k # "eof", ~(Avail + tyicursor >= IBUFLEN - 1)
    PROVE  /\ IInv' /\ clean' = clean /\ Echoing(k)
           /\ lost' = "no" => Line' = Append(Line, k) /\ Typed' = Typed
<1>1. /\ lost = "no" /\ cpu = NONE /\ tyimode = "cooked" /\ keyed' \in Typings
      /\ UNCHANGED <<tyimode, tyiecho, cpu, got, suspended>>
  BY Pressed DEF CharKey, Cooked, Arrives
<1>2. TypeOK /\ Sem /\ Calling /\ tyicursor \in Nat
  BY DEF IInv, TypeOK
<1>3. /\ Store(k) /\ tyicursor' = tyicursor + 1 /\ lost' = Loss /\ Echoing(k)
      /\ UNCHANGED <<sem, kont, clean>>
  BY DEF CharKey
<1>4. Sem' /\ Calling' /\ Unread' = Unread
  BY <1>1, <1>2, <1>3, Quiet
<1>5. k \in Text
  BY DEF Text
<1>6. tyibuff' \in Rings /\ tyihead' \in Slots /\ tyitail' \in Slots
  BY <1>2, <1>3, <1>5, StoreTypes
<1>7. tyicursor' \in 0 .. IBUFLEN
  <2>1. Avail \in Nat
    BY <1>2, Counted DEF Counting
  <2> QED
    BY <1>2, <1>3, <2>1, Sizes
<1>8. TypeOK'
  BY <1>1, <1>2, <1>3, <1>6, <1>7, Lossless
     DEF TypeOK, Typings, Rings, Slots, Text, sem, Losses
<1>9. ASSUME lost' = "no"
      PROVE  Filled' /\ Line' = Append(Line, k) /\ Typed' = Typed
  <2>1. Unread + LineLen < IBUFLEN /\ ~suspended /\ LineLen = tyicursor
    BY <1>1, <1>3, <1>9, Lossless
  <2>2. LineLen' = LineLen + 1
    BY <1>1, <1>3, <2>1 DEF LineLen
  <2>3. Unread' + LineLen' = Unread + LineLen + 1
    BY <1>2, <1>4, <2>2, Counted DEF Counting
  <2> QED
    BY <1>1, <1>3, <1>4, <1>5, <1>8, <2>1, <2>2, <2>3, StoredView
<1>10. Filled'
  BY <1>9 DEF Filled
<1> QED
  BY <1>3, <1>4, <1>8, <1>9, <1>10 DEF IInv

LEMMA CharKeyStep ==
    ASSUME IInv, NEW k \in Keys, CharKey(k)
    PROVE  IInv' /\ (lost' = "no" => Charred(k))
<1>1. CASE Avail + tyicursor >= IBUFLEN - 1
  BY <1>1, BellStep DEF Charred
<1>2. CASE ~(Avail + tyicursor >= IBUFLEN - 1) /\ k = "eof"
  BY <1>2, EofKeyStep
<1>3. CASE ~(Avail + tyicursor >= IBUFLEN - 1) /\ k # "eof"
  BY <1>3, PlainKeyStep DEF Charred
<1> QED
  BY <1>1, <1>2, <1>3

--------------------------------------------------------------------------------
(* The calls, up to their next wait.                                       *)

(* Only process p's own record changes.                                    *)
Alone(p) == \A q \in Procs : q # p => kont'[q] = kont[q]

LEMMA EntersStep ==
    ASSUME IInv, NEW p \in Readers, Calls(p), NEW left \in Nat, left > 0, NEW line \in BOOLEAN,
           Enter(p, left, line), UNCHANGED <<ring, sem, got>>, Unchanged
    PROVE  IInv' /\ Nothing
<1>1. /\ lost = "no" /\ cpu = NONE /\ kont[p].at = "user" /\ cpu' = p
      /\ UNCHANGED <<ring, sem, got, tyicursor, tyimode, tyiecho, screen, clean, suspended,
                     keyed, lost>>
  BY DEF Calls, Enter, Unchanged
<1>2. TypeOK /\ Sem /\ Calling /\ p \in Procs /\ kont \in Konts
  BY Sizes DEF IInv, TypeOK, Konts
<1>3. kont' = [kont EXCEPT ![p] = [at |-> "wait", left |-> left, line |-> line, first |-> line]]
  BY DEF Enter
<1>4. kont' \in Konts /\ kont'[p].at = "wait" /\ kont'[p].left = left /\ Alone(p)
  BY <1>2, <1>3 DEF Konts, Alone
<1>5. Woken' = Woken /\ Queued' = Queued
  BY <1>1, <1>2, <1>4 DEF Woken, Queued, Alone
<1>6. Sem' /\ Unread' = Unread
  BY <1>1, <1>2, <1>5 DEF Sem, Unread, Avail, sem
<1>7. Calling'
  <2>1. \A q \in Procs : kont'[q].at = "wait" <=> cpu' = q
    BY <1>1, <1>2, <1>4, Sizes DEF Calling, Alone
  <2>2. \A q \in Readers : kont'[q].at # "user" => kont'[q].left > 0
    BY <1>2, <1>4, Sizes DEF Calling, Alone
  <2> QED
    BY <1>1, <2>1, <2>2 DEF Calling
<1>8. TypeOK'
  BY <1>1, <1>2, <1>4 DEF TypeOK, ring, sem, Konts
<1>9. LineLen' = LineLen
  BY <1>1 DEF LineLen
<1>10. Filled' /\ Typed' = Typed /\ Line' = Line
  BY <1>1, <1>6, <1>8, <1>9, SameView
<1> QED
  BY <1>6, <1>7, <1>8, <1>10 DEF IInv, Nothing

LEMMA GetcStep ==
    ASSUME IInv, NEW p \in Readers, Getc(p)
    PROVE  IInv' /\ Nothing
<1>1. 1 \in Nat /\ 1 > 0 /\ FALSE \in BOOLEAN
  OBVIOUS
<1> QED
  BY <1>1, EntersStep DEF Getc

LEMMA ReadStep ==
    ASSUME IInv, NEW p \in Readers, NEW count \in Counts, Read(p, count)
    PROVE  IInv' /\ Nothing
<1>1. Calls(p) /\ UNCHANGED <<ring, sem, got>> /\ Unchanged
  BY DEF Read
<1>2. count \in Nat /\ icount \in Int
  BY TtyInAssumption DEF IInv, TypeOK
<1>3. CASE tyimode = "cooked"
  <2> DEFINE left == IF count = 0 THEN 1 ELSE count
  <2>1. left \in Nat /\ left > 0 /\ TRUE \in BOOLEAN
    BY <1>2
  <2>2. Enter(p, left, TRUE)
    BY <1>3 DEF Read
  <2> HIDE DEF left
  <2> QED
    BY <1>1, <2>1, <2>2, EntersStep
<1>4. CASE tyimode # "cooked"
  <2> DEFINE left == IF count = 0 THEN icount ELSE count
  <2>1. count > 0 \/ icount > 0
    BY <1>4 DEF Read
  <2>2. left \in Nat /\ left > 0 /\ FALSE \in BOOLEAN
    BY <1>2, <2>1
  <2>3. Enter(p, left, FALSE)
    BY <1>4 DEF Read
  <2> HIDE DEF left
  <2> QED
    BY <1>1, <2>2, <2>3, EntersStep
<1> QED
  BY <1>3, <1>4

(* The character at the head goes to p, which has read on or is done.      *)
Taken(p) == /\ Typed # <<>> /\ Typed' = Tail(Typed) /\ Line' = Line
            /\ got' = [got EXCEPT ![p] =
                         IF tyimode = "cooked" /\ Head(Typed) = "eof" THEN "EOF" ELSE Head(Typed)]

LEMMA Extracted ==
    ASSUME IInv, NEW p \in Readers, kont[p].left > 0, Extract(p)
    PROVE  /\ kont' \in Konts /\ Alone(p) /\ cpu' \in {NONE, p}
           /\ kont'[p].at \in {"user", "wait"}
           /\ kont'[p].at = "wait" <=> cpu' = p
           /\ kont'[p].at # "user" => kont'[p].left > 0
           /\ got' \in [Procs -> Keys \cup {NONE, "nul", "nl", "EOF"}]
           /\ tyihead' = Wrap(tyihead + 1) /\ tyihead' \in Slots
<1> DEFINE c == IF tyimode = "cooked" /\ tyibuff[tyihead] = "eof" THEN "EOF" ELSE tyibuff[tyihead]
<1>1. /\ got' = [got EXCEPT ![p] = c]
      /\ tyihead' = Wrap(tyihead + 1)
      /\ \/ cpu' = NONE /\ kont' = [kont EXCEPT ![p] = User]
         \/ /\ ~Done(p, c)
            /\ cpu' = p
            /\ kont' = [kont EXCEPT ![p].at = "wait", ![p].first = FALSE, ![p].left = @ - 1]
  BY DEF Extract
<1>2. c \in Text \cup {"EOF"}
  <2>1. tyibuff \in Rings /\ tyihead \in Slots
    BY RingTypes DEF IInv
  <2> QED
    BY <2>1 DEF Rings
<1> HIDE DEF c
<1>3. /\ kont \in Konts /\ p \in Procs /\ NONE # p
      /\ got \in [Procs -> Keys \cup {NONE, "nul", "nl", "EOF"}]
  BY Sizes DEF IInv, TypeOK, Konts
<1>4. tyihead' \in Slots
  <2>1. tyihead \in Slots
    BY RingTypes DEF IInv
  <2> QED
    BY <1>1, <2>1, Sizes DEF Wrap, Slots
<1>5. got' \in [Procs -> Keys \cup {NONE, "nul", "nl", "EOF"}]
  BY <1>1, <1>2, <1>3 DEF Text
<1>6. CASE cpu' = NONE /\ kont' = [kont EXCEPT ![p] = User]
  <2>1. kont' \in Konts /\ Alone(p) /\ kont'[p].at = "user"
    BY <1>3, <1>6 DEF Konts, User, Alone
  <2> QED
    BY <1>1, <1>3, <1>4, <1>5, <1>6, <2>1
<1>7. CASE /\ ~Done(p, c)
           /\ cpu' = p
           /\ kont' = [kont EXCEPT ![p].at = "wait", ![p].first = FALSE, ![p].left = @ - 1]
  <2>1. kont[p].left \in Nat /\ kont[p].left # 1
    BY <1>3, <1>7 DEF Done, Konts
  <2>2. kont[p].left - 1 \in Nat /\ kont[p].left - 1 > 0
    BY <2>1
  <2> DEFINE n == kont[p].left - 1
  <2>3. n \in Nat /\ n > 0
    BY <2>2
  <2>4. kont' = [kont EXCEPT ![p].at = "wait", ![p].first = FALSE, ![p].left = n]
    BY <1>3, <1>7 DEF Konts
  <2> HIDE DEF n
  <2>5. kont' \in Konts /\ Alone(p) /\ kont'[p].at = "wait" /\ kont'[p].left = n
    BY <1>3, <2>3, <2>4 DEF Konts, Alone
  <2> QED
    BY <1>1, <1>3, <1>4, <1>5, <1>7, <2>3, <2>5
<1> QED
  BY <1>1, <1>6, <1>7

LEMMA GetcTakesStep ==
    ASSUME IInv, NEW p \in Readers, GetcTakes(p)
    PROVE  IInv' /\ lost = "no" /\ Taken(p)
<1>1. /\ cpu = p /\ kont[p].at = "wait" /\ icount > 0 /\ icount' = icount - 1 /\ Extract(p)
      /\ UNCHANGED <<tyibuff, tyitail, iwait, tyicursor, tyimode, tyiecho, screen, clean,
                     suspended, keyed, lost>>
  BY DEF GetcTakes, Unchanged
<1>2. TypeOK /\ Sem /\ Calling /\ p \in Procs /\ NONE # p /\ icount \in Int
  BY Sizes DEF IInv, TypeOK
<1>3. lost = "no" /\ kont[p].left > 0
  BY <1>1, <1>2 DEF Calling
<1>4. /\ kont' \in Konts /\ Alone(p) /\ cpu' \in {NONE, p}
      /\ kont'[p].at \in {"user", "wait"}
      /\ kont'[p].at = "wait" <=> cpu' = p
      /\ kont'[p].at # "user" => kont'[p].left > 0
      /\ got' \in [Procs -> Keys \cup {NONE, "nul", "nl", "EOF"}]
      /\ tyihead' = Wrap(tyihead + 1) /\ tyihead' \in Slots
  BY <1>1, <1>3, Extracted
<1>5. iwait = <<>>
  BY <1>1, <1>2, LenProperties DEF Sem, TypeOK
<1>6. Woken' = Woken /\ Queued' = Queued
  BY <1>1, <1>2, <1>4 DEF Woken, Queued, Alone
<1>7. Sem'
  BY <1>1, <1>2, <1>5, <1>6 DEF Sem
<1>8. Avail' = Avail - 1 /\ Avail > 0 /\ Avail \in Nat
  BY <1>1, <1>2 DEF Avail
<1>9. Unread' = Unread - 1 /\ Unread > 0
  <2> DEFINE w == Cardinality(Woken)
  <2>1. w \in Nat /\ Unread = Avail + w
    BY <1>2, Counted DEF Counting, Unread
  <2>2. Unread' = Avail' + w
    BY <1>6 DEF Unread
  <2> HIDE DEF w
  <2> QED
    BY <1>8, <2>1, <2>2
<1>10. Calling'
  <2>1. \A q \in Procs : kont'[q].at = "wait" <=> cpu' = q
    BY <1>1, <1>2, <1>4, Sizes DEF Calling, Alone
  <2>2. \A q \in Readers : kont'[q].at # "user" => kont'[q].left > 0
    BY <1>2, <1>4, Sizes DEF Calling, Alone
  <2> QED
    BY <1>1, <1>3, <2>1, <2>2 DEF Calling
<1>11. TypeOK'
  BY <1>1, <1>2, <1>4 DEF TypeOK, Slots, Konts
<1>12. LineLen' = LineLen
  BY <1>1 DEF LineLen
<1>13. /\ Filled' /\ Typed # <<>> /\ Head(Typed) = tyibuff[tyihead]
       /\ Typed' = Tail(Typed) /\ Line' = Line
  BY <1>1, <1>3, <1>4, <1>7, <1>9, <1>11, <1>12, TakenView
<1>14. got' = [got EXCEPT ![p] = IF tyimode = "cooked" /\ tyibuff[tyihead] = "eof" THEN "EOF"
                                 ELSE tyibuff[tyihead]]
  BY <1>1 DEF Extract
<1> QED
  BY <1>3, <1>7, <1>10, <1>11, <1>13, <1>14 DEF IInv, Taken

LEMMA GetcWakesStep ==
    ASSUME IInv, NEW p \in Readers, GetcWakes(p)
    PROVE  IInv' /\ lost = "no" /\ Taken(p)
<1>1. /\ lost = "no" /\ cpu = NONE /\ p \in Woken /\ kont[p].at = "woken" /\ Extract(p)
      /\ UNCHANGED <<tyibuff, tyitail, icount, iwait, tyicursor, tyimode, tyiecho, screen, clean,
                     suspended, keyed, lost>>
  BY DEF GetcWakes, Unchanged, Woken, sem
<1>2. TypeOK /\ Sem /\ Calling /\ p \in Procs /\ NONE # p
  BY Sizes DEF IInv
<1>3. kont[p].left > 0
  BY <1>1, <1>2 DEF Calling
<1>4. /\ kont' \in Konts /\ Alone(p) /\ cpu' \in {NONE, p}
      /\ kont'[p].at \in {"user", "wait"}
      /\ kont'[p].at = "wait" <=> cpu' = p
      /\ kont'[p].at # "user" => kont'[p].left > 0
      /\ got' \in [Procs -> Keys \cup {NONE, "nul", "nl", "EOF"}]
      /\ tyihead' = Wrap(tyihead + 1) /\ tyihead' \in Slots
  BY <1>1, <1>3, Extracted
<1>5. Woken' = Woken \ {p} /\ Queued' = Queued
  BY <1>1, <1>2, <1>4 DEF Woken, Queued, Alone
<1>6. /\ IsFiniteSet(Woken') /\ Cardinality(Woken') = Cardinality(Woken) - 1
      /\ Cardinality(Woken) \in Nat /\ Cardinality(Woken') \in Nat
  <2>1. IsFiniteSet(Woken)
    BY <1>2 DEF Sem
  <2>2. IsFiniteSet(Woken \ {p}) /\ Cardinality(Woken \ {p}) = Cardinality(Woken) - 1
    BY <1>1, <2>1, FS_RemoveElement
  <2> QED
    BY <1>5, <2>1, <2>2, FS_CardinalityType
<1>7. Sem'
  BY <1>1, <1>2, <1>5, <1>6 DEF Sem
<1>8. Unread' = Unread - 1 /\ Unread > 0
  <2>1. Avail \in Nat /\ Avail' = Avail
    BY <1>1, <1>2, Counted DEF Counting, Avail
  <2> QED
    BY <1>6, <2>1 DEF Unread
<1>9. Calling'
  <2>1. \A q \in Procs : kont'[q].at = "wait" <=> cpu' = q
    BY <1>1, <1>2, <1>4, Sizes DEF Calling, Alone
  <2>2. \A q \in Readers : kont'[q].at # "user" => kont'[q].left > 0
    BY <1>2, <1>4, Sizes DEF Calling, Alone
  <2> QED
    BY <1>1, <2>1, <2>2 DEF Calling
<1>10. TypeOK'
  BY <1>1, <1>2, <1>4 DEF TypeOK, Slots, Konts
<1>11. LineLen' = LineLen
  BY <1>1 DEF LineLen
<1>12. /\ Filled' /\ Typed # <<>> /\ Head(Typed) = tyibuff[tyihead]
       /\ Typed' = Tail(Typed) /\ Line' = Line
  BY <1>1, <1>4, <1>7, <1>8, <1>10, <1>11, TakenView
<1>13. got' = [got EXCEPT ![p] = IF tyimode = "cooked" /\ tyibuff[tyihead] = "eof" THEN "EOF"
                                 ELSE tyibuff[tyihead]]
  BY <1>1 DEF Extract
<1> QED
  BY <1>1, <1>7, <1>9, <1>10, <1>12, <1>13 DEF IInv, Taken

LEMMA Negative == \A i \in Int, n \in Nat : i + n = 0 => i = -n
  OBVIOUS

LEMMA QueuesStep ==
    ASSUME IInv, lost = "no", NEW p \in Procs, kont[p].at \in {"user", "wait"},
           kont[p].at = "wait" <=> cpu = p, cpu \in {NONE, p},
           p \in Readers => kont[p].left > 0,
           kont' = [kont EXCEPT ![p].at = "queued"], Waits(p)
    PROVE  IInv' /\ Nothing
<1>1. /\ icount <= 0 /\ icount' = icount - 1 /\ iwait' = Append(iwait, p) /\ cpu' = NONE
      /\ UNCHANGED <<ring, got, tyicursor, tyimode, tyiecho, screen, clean, suspended, keyed,
                     lost>>
  BY DEF Waits, Unchanged
<1>2. TypeOK /\ Sem /\ Calling /\ kont \in Konts /\ NONE # p /\ icount \in Int
  BY Sizes DEF IInv, TypeOK, Konts
<1>3. /\ kont' \in Konts /\ Alone(p) /\ kont'[p].at = "queued" /\ kont'[p].left = kont[p].left
  BY <1>2 DEF Konts, Alone
<1>4. Woken' = Woken /\ Queued' = Queued \cup {p} /\ p \notin Queued
  BY <1>3 DEF Woken, Queued, Alone
<1>5. /\ iwait' \in Seq(Procs) /\ Len(iwait') = Len(iwait) + 1 /\ IsInjective(iwait')
      /\ Range(iwait') = Queued' /\ Len(iwait) \in Nat
  <2>1. iwait \in Seq(Procs) /\ IsInjective(iwait) /\ Range(iwait) = Queued
    BY <1>2 DEF TypeOK, Sem
  <2> QED
    BY <1>1, <1>4, <2>1, AppendRange, LenProperties
<1>6. icount' = -Len(iwait') /\ iwait' # <<>>
  <2>1. icount = -Len(iwait)
    <3>1. CASE iwait = <<>>
      <4>1. Len(iwait) = 0 /\ icount = 0
        BY <1>1, <1>2, <3>1 DEF Sem
      <4>2. icount + Len(iwait) = 0 /\ icount \in Int /\ Len(iwait) \in Nat
        BY <1>2, <1>5, <4>1
      <4> QED
        BY <4>2, Negative
    <3>2. CASE iwait # <<>>
      BY <1>2, <3>2 DEF Sem
    <3> QED
      BY <3>1, <3>2
  <2>2. Len(iwait') # 0
    BY <1>5
  <2> QED
    BY <1>1, <1>2, <1>5, <2>1, <2>2, EmptySeq
<1>7. Sem'
  BY <1>2, <1>4, <1>5, <1>6 DEF Sem
<1>8. Unread' = Unread
  <2>1. Avail' = Avail
    BY <1>1, <1>2 DEF Avail
  <2> QED
    BY <1>4, <2>1 DEF Unread
<1>9. Calling'
  <2>1. \A q \in Procs : kont'[q].at = "wait" <=> cpu' = q
    BY <1>1, <1>2, <1>3, Sizes DEF Calling, Alone
  <2>2. \A q \in Readers : kont'[q].at # "user" => kont'[q].left > 0
    BY <1>2, <1>3, Sizes DEF Calling, Alone
  <2> QED
    BY <1>1, <2>1, <2>2 DEF Calling
<1>10. TypeOK'
  <2>1. icount' \in Int /\ cpu' \in Readers \cup {NONE}
    BY <1>1, <1>2
  <2> QED
    BY <1>1, <1>2, <1>3, <1>5, <2>1 DEF TypeOK, ring, Konts
<1>11. LineLen' = LineLen
  BY <1>1 DEF LineLen
<1>12. Filled' /\ Typed' = Typed /\ Line' = Line
  BY <1>1, <1>7, <1>8, <1>10, <1>11, SameView
<1> QED
  BY <1>7, <1>9, <1>10, <1>12 DEF IInv, Nothing

LEMMA GetcWaitsStep ==
    ASSUME IInv, NEW p \in Readers, GetcWaits(p)
    PROVE  IInv' /\ Nothing
<1>1. /\ cpu = p /\ kont[p].at = "wait" /\ kont' = [kont EXCEPT ![p].at = "queued"] /\ Waits(p)
      /\ p \in Procs /\ NONE # p
  BY Sizes DEF GetcWaits
<1>2. lost = "no" /\ kont[p].left > 0
  BY <1>1 DEF IInv, Calling
<1> QED
  BY <1>1, <1>2, QueuesStep

LEMMA NextcWaitsStep ==
    ASSUME IInv, NEW p \in Peekers, NextcWaits(p)
    PROVE  IInv' /\ Nothing
<1>1. /\ lost = "no" /\ cpu = NONE /\ kont[p].at = "user" /\ Waits(p)
      /\ kont' = [kont EXCEPT ![p].at = "queued"] /\ p \in Procs /\ p \notin Readers /\ NONE # p
  BY Sizes DEF NextcWaits, Calls
<1> QED
  BY <1>1, QueuesStep

LEMMA NextcWakesStep ==
    ASSUME IInv, NEW p \in Peekers, NextcWakes(p)
    PROVE  IInv' /\ Nothing
<1>1. /\ lost = "no" /\ cpu = NONE /\ p \in Woken /\ kont[p].at = "woken"
      /\ icount' = icount + 1
      /\ UNCHANGED <<ring, cpu, got, tyicursor, tyimode, tyiecho, screen, clean, suspended,
                     keyed, lost>>
  BY DEF NextcWakes, Unchanged, Woken
<1>2. /\ TypeOK /\ Sem /\ Calling /\ kont \in Konts /\ icount \in Int /\ p \in Procs
      /\ p \notin Readers /\ iwait \in Seq(Procs) /\ Len(iwait) \in Nat
  BY Sizes, LenProperties DEF IInv, TypeOK, Konts
<1> DEFINE m == IF iwait = <<>> THEN 0 ELSE 1
           F == {iwait[i] : i \in 1 .. m}
<1>3. /\ m \in 0 .. Len(iwait) /\ m <= 1 /\ (m >= Len(iwait) \/ m >= 1) /\ m \in Nat
  BY <1>2, EmptySeq
<1>4. iwait' = SubSeq(iwait, m + 1, Len(iwait))
  <2>1. CASE iwait = <<>>
    <3>1. iwait' = <<>> /\ m + 1 = 1 /\ Len(iwait) = 0
      BY <2>1 DEF NextcWakes
    <3>2. SubSeq(iwait, 1, 0) = <<>>
      BY SubSeqEmpty
    <3> QED
      BY <3>1, <3>2
  <2>2. CASE iwait # <<>>
    <3>1. iwait' = Tail(iwait) /\ m + 1 = 2
      BY <2>2 DEF NextcWakes
    <3> QED
      BY <1>2, <2>2, <3>1, TailIsSubSeq
  <2> QED
    BY <2>1, <2>2
<1>5. \A q \in Procs : q \in F <=> (iwait # <<>> /\ q = Head(iwait))
  <2>1. CASE iwait = <<>>
    BY <2>1
  <2>2. CASE iwait # <<>>
    <3>1. F = {iwait[1]} /\ Head(iwait) = iwait[1]
      BY <1>2, <2>2
    <3> QED
      BY <2>2, <3>1
  <2> QED
    BY <2>1, <2>2
<1> HIDE DEF m
<1>6. /\ iwait' \in Seq(Procs) /\ IsInjective(iwait')
      /\ Range(iwait') = Queued \ F
      /\ F \subseteq Queued
      /\ iwait' = <<>> => icount' >= 0
      /\ iwait' # <<>> => icount' = -Len(iwait')
      /\ Avail' = Avail + 1 - m
      /\ IsFiniteSet(F) /\ Cardinality(F) = m
  <2>1. 1 \in Nat /\ 1 > 0
    OBVIOUS
  <2> QED
    BY <1>1, <1>2, <1>3, <1>4, <2>1, Released
<1> HIDE DEF F
<1>7. /\ p \notin F
      /\ \A q \in F : q \in Procs /\ kont[q].at = "queued"
  BY <1>1, <1>6 DEF Queued
<1>8. kont' = [q \in Procs |-> CASE q = p -> User
                                [] iwait # <<>> /\ q = Head(iwait) -> [kont[q] EXCEPT !.at = "woken"]
                                [] OTHER -> kont[q]]
  BY DEF NextcWakes
<1>9. /\ kont'[p] = User
      /\ \A q \in F : kont'[q] = [kont[q] EXCEPT !.at = "woken"]
      /\ \A q \in Procs : q # p /\ q \notin F => kont'[q] = kont[q]
      /\ kont' = [q \in Procs |-> kont'[q]]
  BY <1>2, <1>5, <1>7, <1>8
<1>10. /\ kont'[p].at = "user"
       /\ \A q \in F : kont'[q].at = "woken" /\ kont'[q].left = kont[q].left
       /\ kont' \in Konts
  <2>1. User \in [at : {"user", "wait", "queued", "woken"}, left : Nat,
                   line : BOOLEAN, first : BOOLEAN] /\ User.at = "user"
    BY DEF User
  <2>2. \A q \in F : /\ kont'[q] \in [at : {"user", "wait", "queued", "woken"}, left : Nat,
                                       line : BOOLEAN, first : BOOLEAN]
                     /\ kont'[q].at = "woken" /\ kont'[q].left = kont[q].left
    <3> SUFFICES ASSUME NEW q \in F
                 PROVE  /\ kont'[q] \in [at : {"user", "wait", "queued", "woken"}, left : Nat,
                                       line : BOOLEAN, first : BOOLEAN]
                        /\ kont'[q].at = "woken" /\ kont'[q].left = kont[q].left
      OBVIOUS
    <3>1. kont[q] \in [at : {"user", "wait", "queued", "woken"}, left : Nat,
                       line : BOOLEAN, first : BOOLEAN]
      BY <1>2, <1>7 DEF Konts
    <3>2. kont'[q] = [kont[q] EXCEPT !.at = "woken"]
      BY <1>9
    <3> QED
      BY <3>1, <3>2
  <2>3. \A q \in Procs : kont'[q] \in [at : {"user", "wait", "queued", "woken"}, left : Nat,
                                       line : BOOLEAN, first : BOOLEAN]
    BY <1>2, <1>9, <2>1, <2>2 DEF Konts
  <2> QED
    BY <1>9, <2>1, <2>2, <2>3 DEF Konts
<1>11. Queued' = Queued \ F
  BY <1>1, <1>2, <1>7, <1>9, <1>10 DEF Queued
<1>12. Woken' = (Woken \ {p}) \cup F /\ (Woken \ {p}) \cap F = {}
  <2>1. Woken \cap F = {}
    BY <1>7 DEF Woken
  <2> QED
    BY <1>1, <1>2, <1>7, <1>9, <1>10, <2>1 DEF Woken
<1>13. /\ IsFiniteSet(Woken') /\ Cardinality(Woken') = Cardinality(Woken) - 1 + m
       /\ Cardinality(Woken) \in Nat
  <2> DEFINE W == Woken \ {p}
             w == Cardinality(Woken)
  <2>1. IsFiniteSet(Woken) /\ Cardinality({}) = 0
    BY <1>2, FS_EmptySet DEF Sem
  <2>2. IsFiniteSet(W) /\ Cardinality(W) = w - 1 /\ w \in Nat
    BY <1>1, <2>1, FS_RemoveElement, FS_CardinalityType
  <2>3. Woken' = W \cup F /\ W \cap F = {}
    BY <1>12
  <2> HIDE DEF W, w
  <2>4. /\ IsFiniteSet(W \cup F)
        /\ Cardinality(W \cup F) = Cardinality(W) + Cardinality(F) - Cardinality(W \cap F)
    BY <2>2, <1>6, FS_Union
  <2>5. /\ IsFiniteSet(Woken') /\ Cardinality(Woken') = (w - 1) + m - 0
    BY <1>6, <2>1, <2>2, <2>3, <2>4
  <2>6. Cardinality(Woken') = w - 1 + m
    BY <1>3, <2>2, <2>5
  <2> QED
    BY <2>2, <2>5, <2>6 DEF w
<1>14. Sem'
  BY <1>6, <1>11, <1>13 DEF Sem
<1>15. Unread' = Unread
  <2> DEFINE a == Avail
             w == Cardinality(Woken)
  <2>1. a \in Nat /\ w \in Nat /\ Avail' = a + 1 - m /\ Cardinality(Woken') = w - 1 + m
    BY <1>2, <1>6, <1>13, Counted DEF Counting
  <2>2. Unread = a + w /\ Unread' = Avail' + Cardinality(Woken')
    BY DEF Unread
  <2> HIDE DEF a, w
  <2> QED
    BY <1>3, <2>1, <2>2
<1>16. Calling'
  <2>1. \A q \in Procs : kont[q].at # "wait"
    BY <1>1, <1>2, Sizes DEF Calling
  <2>2. \A q \in Procs : kont'[q].at # "wait"
    BY <1>9, <1>10, <2>1
  <2>3. \A q \in Readers : kont'[q].at # "user" => kont'[q].left > 0
    <3> SUFFICES ASSUME NEW q \in Readers, kont'[q].at # "user" PROVE kont'[q].left > 0
      OBVIOUS
    <3>1. q \in Procs /\ q # p
      BY <1>2, Sizes
    <3>2. CASE q \in F
      BY <1>2, <1>7, <1>10, <3>2 DEF Calling
    <3>3. CASE q \notin F
      BY <1>2, <1>9, <3>1, <3>3 DEF Calling
    <3> QED
      BY <3>2, <3>3
  <2> QED
    BY <1>1, <2>2, <2>3, Sizes DEF Calling
<1>17. TypeOK'
  <2>1. icount' \in Int
    BY <1>1, <1>2
  <2> QED
    BY <1>1, <1>2, <1>6, <1>10, <2>1 DEF TypeOK, ring, Konts
<1>18. LineLen' = LineLen
  BY <1>1 DEF LineLen
<1>19. Filled' /\ Typed' = Typed /\ Line' = Line
  BY <1>1, <1>14, <1>15, <1>17, <1>18, SameView
<1> QED
  BY <1>14, <1>16, <1>17, <1>19 DEF IInv, Nothing

LEMMA SetModeStep ==
    ASSUME IInv, NEW m \in Modes, SetMode(m)
    PROVE  IInv' /\ Nothing
<1>1. /\ lost = "no" /\ cpu = NONE /\ tyimode' = m
      /\ UNCHANGED <<ring, sem, tyicursor, tyiecho, screen, clean, kont, cpu, suspended,
                     got, keyed, lost>>
  BY DEF SetMode
<1>2. TypeOK /\ Sem /\ Calling /\ m \in {"raw", "cbreak", "cooked"}
  BY TtyInAssumption DEF IInv
<1>3. Sem' /\ Calling' /\ Unread' = Unread
  BY <1>1, <1>2, Quiet
<1>4. TypeOK'
  BY <1>1, <1>2 DEF TypeOK, ring, sem
<1>5. LineLen' = LineLen
  BY <1>1 DEF LineLen
<1>6. Filled' /\ Typed' = Typed /\ Line' = Line
  BY <1>1, <1>3, <1>4, <1>5, SameView
<1> QED
  BY <1>3, <1>4, <1>6 DEF IInv, Nothing

LEMMA SetEchoStep ==
    ASSUME IInv, NEW e \in BOOLEAN, SetEcho(e)
    PROVE  IInv' /\ Nothing
<1>1. /\ lost = "no" /\ cpu = NONE /\ tyiecho' = e /\ clean' = FALSE
      /\ UNCHANGED <<ring, sem, tyicursor, tyimode, screen, kont, cpu, suspended, got,
                     keyed, lost>>
  BY DEF SetEcho
<1>2. TypeOK /\ Sem /\ Calling
  BY DEF IInv
<1>3. Sem' /\ Calling' /\ Unread' = Unread
  BY <1>1, <1>2, Quiet
<1>4. TypeOK'
  BY <1>1, <1>2 DEF TypeOK, ring, sem
<1>5. LineLen' = LineLen
  BY <1>1 DEF LineLen
<1>6. Filled' /\ Typed' = Typed /\ Line' = Line
  BY <1>1, <1>3, <1>4, <1>5, SameView
<1> QED
  BY <1>3, <1>4, <1>6 DEF IInv, Nothing

LEMMA StutterStep ==
    ASSUME IInv, UNCHANGED vars
    PROVE  IInv' /\ Nothing
<1>1. UNCHANGED <<ring, sem, tyicursor, tyimode, tyiecho, screen, clean, kont, cpu,
                  suspended, got, keyed, lost>>
  BY DEF vars
<1>2. TypeOK /\ Sem /\ Calling
  BY DEF IInv
<1>3. Sem' /\ Calling' /\ Unread' = Unread
  BY <1>1, <1>2, Quiet DEF Calling
<1>4. TypeOK'
  BY <1>1, <1>2 DEF TypeOK, ring, sem
<1>5. LineLen' = LineLen
  BY <1>1 DEF LineLen
<1>6. Filled' /\ Typed' = Typed /\ Line' = Line
  BY <1>1, <1>3, <1>4, <1>5, SameView
<1> QED
  BY <1>3, <1>4, <1>6 DEF IInv, Nothing

--------------------------------------------------------------------------------
(* The invariant holds throughout.                                         *)

LEMMA InitFacts ==
    ASSUME Init
    PROVE  IInv /\ Typed = <<>> /\ Line = <<>>
<1>1. /\ tyibuff = [i \in 0 .. IBUFLEN - 1 |-> "nul"] /\ tyihead = 0 /\ tyitail = 0
      /\ icount = 0 /\ iwait = <<>> /\ tyicursor = 0 /\ tyimode = "cooked" /\ tyiecho = TRUE
      /\ clean = TRUE /\ kont = [p \in Procs |-> User] /\ cpu = NONE /\ suspended = FALSE
      /\ got = [p \in Procs |-> NONE] /\ keyed = <<NONE, FALSE>> /\ lost = "no"
  BY DEF Init
<1>2. /\ User \in [at : {"user", "wait", "queued", "woken"}, left : Nat,
                   line : BOOLEAN, first : BOOLEAN]
      /\ User.at = "user"
  BY DEF User
<1>3. \A p \in Procs : kont[p].at = "user"
  BY <1>1, <1>2
<1>4. Woken = {} /\ Queued = {}
  BY <1>3 DEF Woken, Queued
<1>5. Sem
  <2>1. IsFiniteSet({})
    BY FS_EmptySet
  <2>2. IsInjective(<<>>) /\ Range(<<>>) = {}
    BY DEF IsInjective, Range
  <2> QED
    BY <1>1, <1>4, <2>1, <2>2 DEF Sem
<1>6. Calling
  BY <1>1, <1>3, Sizes DEF Calling
<1>7. TypeOK
  <2>1. 0 \in 0 .. IBUFLEN - 1 /\ 0 \in 0 .. IBUFLEN
    BY Sizes
  <2>2. tyibuff \in [0 .. IBUFLEN - 1 -> Keys \cup {"nul", "nl"}]
    BY <1>1
  <2>3. kont \in Konts /\ got \in [Procs -> Keys \cup {NONE, "nul", "nl", "EOF"}]
    BY <1>1, <1>2 DEF Konts
  <2>4. iwait \in Seq(Procs) /\ icount \in Int
    BY <1>1
  <2> QED
    BY <1>1, <2>1, <2>2, <2>3, <2>4 DEF TypeOK, Konts
<1>8. Unread = 0 /\ LineLen = 0
  <2>1. Cardinality({}) = 0
    BY FS_EmptySet
  <2> QED
    BY <1>1, <1>4, <2>1 DEF Unread, Avail, LineLen
<1>9. Filled
  <2>1. 0 \in Slots
    BY Sizes DEF Slots
  <2>2. Slot(0, 0) = 0 /\ 0 + 0 = 0 /\ 0 <= IBUFLEN
    BY <2>1, SlotZero, Sizes
  <2> QED
    BY <1>1, <1>8, <2>2 DEF Filled
<1>10. IInv
  BY <1>5, <1>6, <1>7, <1>9 DEF IInv
<1> QED
  BY <1>1, <1>8, <1>10, Texts, EmptySeq

LEMMA NextInv == ASSUME IInv, [Next]_vars PROVE IInv'
<1>1. CASE Handler
  BY <1>1, RawKeyStep, CbreakKeyStep, LineKeyStep, CharKeyStep, KillLineStep, EraseKeyStep,
     HandlerEndsStep DEF Handler
<1>2. CASE \E p \in Readers : \/ Getc(p) \/ GetcTakes(p) \/ GetcWaits(p) \/ GetcWakes(p)
                              \/ \E n \in Counts : Read(p, n)
  BY <1>2, GetcStep, GetcTakesStep, GetcWaitsStep, GetcWakesStep, ReadStep
<1>3. CASE \E p \in Peekers : NextcWaits(p) \/ NextcWakes(p)
  BY <1>3, NextcWaitsStep, NextcWakesStep
<1>4. CASE \E m \in Modes : SetMode(m)
  BY <1>4, SetModeStep
<1>5. CASE \E e \in BOOLEAN : SetEcho(e)
  BY <1>5, SetEchoStep
<1>6. CASE UNCHANGED vars
  BY <1>6, StutterStep
<1> QED
  BY <1>1, <1>2, <1>3, <1>4, <1>5, <1>6 DEF Next

LEMMA Agreed == IInv => RingAgrees
<1> SUFFICES ASSUME IInv, lost = "no"
             PROVE  /\ Unread + LineLen <= IBUFLEN
                    /\ tyitail = (tyihead + Unread + LineLen) % IBUFLEN
                    /\ iwait # <<>> => icount = -Len(iwait)
  BY DEF IInv, RingAgrees
<1>1. Unread + LineLen <= IBUFLEN /\ tyitail = Slot(tyihead, Unread + LineLen)
  BY DEF IInv, Filled
<1>2. tyihead + (Unread + LineLen) = tyihead + Unread + LineLen
  BY Counted DEF IInv, TypeOK, Counting
<1>3. tyitail = (tyihead + Unread + LineLen) % IBUFLEN
  BY <1>1, <1>2 DEF Slot
<1> QED
  BY <1>1, <1>3 DEF IInv, Sem

(* The semaphore and the pointers of the ring agree in every state: what   *)
(* lies between head and tail is what the semaphore counts, what woken     *)
(* readers are about to take and the line being edited, and it fits        *)
(* (ttyhandle_in.c against ttygetc.c).                                     *)
THEOREM PointersAgree == Spec => []RingAgrees
<1>1. Init => IInv
  BY InitFacts
<1>2. IInv /\ [Next]_vars => IInv'
  BY NextInv
<1> QED
  BY <1>1, <1>2, Agreed, PTL DEF Spec

--------------------------------------------------------------------------------
(* The ring is a line editor.                                              *)

LEMMA Loses == ASSUME lost' # "no" PROVE Abstract!Next
  BY DEF Abstract!Next, Abstract!Lose

(* A key that lost nothing does to the line and to what was typed what the *)
(* line editor does.                                                       *)
LEMMA Types ==
    ASSUME NEW k \in Keys, lost = "no", lost' = "no", keyed' = <<k, ~keyed[2]>>, tyimode' = tyimode,
           got' = got, Abstract!Deliver(k) \/ Abstract!Edit(k)
    PROVE  Abstract!Next
  BY DEF Abstract!Next, Abstract!Type

LEMMA Stays ==
    ASSUME Nothing, lost' = lost, keyed' = keyed, tyimode' = tyimode, got' = got
    PROVE  UNCHANGED Abstract!vars
  BY DEF Abstract!vars, Nothing, Typed

LEMMA RawTypes == ASSUME IInv, NEW k \in Keys, RawKey(k) PROVE Abstract!Next
<1>1. CASE lost' # "no"
  BY <1>1, Loses
<1>2. CASE lost' = "no"
  <2>1. /\ lost = "no" /\ keyed' = <<k, ~keyed[2]>> /\ tyimode = "raw" /\ tyimode' = tyimode /\ got' = got
    BY DEF RawKey, Arrives
  <2>2. Delivered(k) /\ Len(Typed) = Unread
    BY <1>2, <2>1, RawKeyStep, Texts
  <2>3. Abstract!Deliver(k)
    BY <2>1, <2>2 DEF Abstract!Deliver, Delivered, NoLine, Typed
  <2> QED
    BY <1>2, <2>1, <2>3, Types
<1> QED
  BY <1>1, <1>2

LEMMA CbreakTypes == ASSUME IInv, NEW k \in Keys, CbreakKey(k) PROVE Abstract!Next
<1>1. CASE lost' # "no"
  BY <1>1, Loses
<1>2. CASE lost' = "no"
  <2>1. /\ lost = "no" /\ keyed' = <<k, ~keyed[2]>> /\ tyimode = "cbreak" /\ tyimode' = tyimode
        /\ got' = got
    BY DEF CbreakKey, Arrives
  <2>2. Delivered(Mapped(k)) /\ Len(Typed) = Unread
    BY <1>2, <2>1, CbreakKeyStep, Texts
  <2>3. Abstract!Deliver(k)
    BY <2>1, <2>2 DEF Abstract!Deliver, Delivered, NoLine, Typed, Mapped
  <2> QED
    BY <1>2, <2>1, <2>3, Types
<1> QED
  BY <1>1, <1>2

LEMMA LineTypes == ASSUME IInv, NEW k \in Keys, LineKey(k) PROVE Abstract!Next
<1>1. CASE lost' # "no"
  BY <1>1, Loses
<1>2. CASE lost' = "no"
  <2>1. /\ lost = "no" /\ keyed' = <<k, ~keyed[2]>> /\ tyimode = "cooked" /\ tyimode' = tyimode
        /\ got' = got /\ k \in {"nl", "cr"}
    BY DEF LineKey, Cooked, Arrives
  <2>2. Typed' = Typed \o Append(Line, "nl") /\ Line' = <<>>
    BY <1>2, LineKeyStep
  <2>3. Abstract!Edit(k)
    BY <2>1, <2>2 DEF Abstract!Edit, Typed
  <2> QED
    BY <1>2, <2>1, <2>3, Types
<1> QED
  BY <1>1, <1>2

LEMMA CharTypes == ASSUME IInv, NEW k \in Keys, CharKey(k) PROVE Abstract!Next
<1>1. CASE lost' # "no"
  BY <1>1, Loses
<1>2. CASE lost' = "no"
  <2>1. /\ lost = "no" /\ keyed' = <<k, ~keyed[2]>> /\ tyimode = "cooked" /\ tyimode' = tyimode
        /\ got' = got /\ k \notin {"nl", "cr", "bs", "kill"}
    BY DEF CharKey, Cooked, Arrives
  <2>2. Charred(k) /\ Len(Typed) = Unread /\ Len(Line) = LineLen
    BY <1>2, <2>1, CharKeyStep, Texts
  <2>3. ASSUME Nothing /\ Unread + LineLen >= IBUFLEN - 1
        PROVE  Abstract!Edit(k)
    BY <2>1, <2>2, <2>3 DEF Abstract!Edit, Nothing, Typed
  <2>4. ASSUME Nothing /\ k = "eof" /\ Line # <<>>
        PROVE  Abstract!Edit(k)
    BY <2>1, <2>4 DEF Abstract!Edit, Nothing, Typed
  <2>5. ASSUME k = "eof" /\ NoLine /\ Typed' = Append(Typed, k)
        PROVE  Abstract!Edit(k)
    BY <2>1, <2>5 DEF Abstract!Edit, NoLine, Typed
  <2>6. ASSUME k # "eof" /\ Line' = Append(Line, k) /\ Typed' = Typed
        PROVE  Abstract!Edit(k)
    BY <2>1, <2>6 DEF Abstract!Edit, Typed
  <2>7. Abstract!Edit(k)
    BY <2>2, <2>3, <2>4, <2>5, <2>6 DEF Charred
  <2> QED
    BY <1>2, <2>1, <2>7, Types
<1> QED
  BY <1>1, <1>2

LEMMA KillTypes == ASSUME IInv, KillLine PROVE Abstract!Next
<1>1. CASE lost' # "no"
  BY <1>1, Loses
<1>2. CASE lost' = "no"
  <2>1. /\ "kill" \in Keys /\ lost = "no" /\ keyed' = <<"kill", ~keyed[2]>> /\ tyimode = "cooked"
        /\ tyimode' = tyimode /\ got' = got
    BY DEF KillLine, Cooked, Arrives
  <2>2. Typed' = Typed /\ Line' = <<>>
    BY <1>2, KillLineStep
  <2>3. Abstract!Edit("kill")
    BY <2>1, <2>2 DEF Abstract!Edit, Typed
  <2> QED
    BY <1>2, <2>1, <2>3, Types
<1> QED
  BY <1>1, <1>2

LEMMA EraseTypes == ASSUME IInv, EraseKey PROVE Abstract!Next
<1>1. CASE lost' # "no"
  BY <1>1, Loses
<1>2. CASE lost' = "no"
  <2>1. /\ "bs" \in Keys /\ lost = "no" /\ keyed' = <<"bs", ~keyed[2]>> /\ tyimode = "cooked"
        /\ tyimode' = tyimode /\ got' = got
    BY DEF EraseKey, Cooked, Arrives
  <2>2. Typed' = Typed /\ Erased
    BY <1>2, EraseKeyStep
  <2>3. Abstract!Edit("bs")
    BY <2>1, <2>2 DEF Abstract!Edit, Erased, Typed
  <2> QED
    BY <1>2, <2>1, <2>3, Types
<1> QED
  BY <1>1, <1>2

LEMMA Takes ==
    ASSUME NEW p \in Readers, Taken(p), lost = "no", Unchanged
    PROVE  Abstract!Next
<1>1. /\ keyed' = keyed /\ tyimode' = tyimode /\ lost' = lost /\ p \in Procs
  BY Sizes DEF Unchanged
<1>2. Abstract!Take(p)
  BY <1>1 DEF Abstract!Take, Taken, Typed
<1> QED
  BY <1>1, <1>2 DEF Abstract!Next

LEMMA CallsStay ==
    ASSUME Nothing, Unchanged, got' = got
    PROVE  UNCHANGED Abstract!vars
  BY Stays DEF Unchanged

LEMMA ReaderTypes ==
    ASSUME IInv, NEW p \in Readers,
           \/ Getc(p) \/ GetcTakes(p) \/ GetcWaits(p) \/ GetcWakes(p)
           \/ \E n \in Counts : Read(p, n)
    PROVE  Abstract!Next \/ UNCHANGED Abstract!vars
<1>1. CASE Getc(p)
  BY <1>1, GetcStep, CallsStay DEF Getc
<1>2. CASE GetcTakes(p)
  <2>1. Taken(p) /\ lost = "no" /\ Unchanged
    BY <1>2, GetcTakesStep DEF GetcTakes
  <2> QED
    BY <2>1, Takes
<1>3. CASE GetcWaits(p)
  BY <1>3, GetcWaitsStep, CallsStay DEF GetcWaits, Waits
<1>4. CASE GetcWakes(p)
  <2>1. Taken(p) /\ lost = "no" /\ Unchanged
    BY <1>4, GetcWakesStep DEF GetcWakes
  <2> QED
    BY <2>1, Takes
<1>5. CASE \E n \in Counts : Read(p, n)
  BY <1>5, ReadStep, CallsStay DEF Read
<1> QED
  BY <1>1, <1>2, <1>3, <1>4, <1>5

LEMMA PeekerTypes ==
    ASSUME IInv, NEW p \in Peekers, NextcWaits(p) \/ NextcWakes(p)
    PROVE  UNCHANGED Abstract!vars
<1>1. CASE NextcWaits(p)
  BY <1>1, NextcWaitsStep, CallsStay DEF NextcWaits, Waits
<1>2. CASE NextcWakes(p)
  BY <1>2, NextcWakesStep, CallsStay DEF NextcWakes
<1> QED
  BY <1>1, <1>2

LEMMA StepTypes ==
    ASSUME IInv, [Next]_vars
    PROVE  Abstract!Next \/ UNCHANGED Abstract!vars
<1>1. CASE \E k \in Keys : RawKey(k) \/ CbreakKey(k) \/ LineKey(k) \/ CharKey(k)
  BY <1>1, RawTypes, CbreakTypes, LineTypes, CharTypes
<1>2. CASE KillLine \/ EraseKey
  BY <1>2, KillTypes, EraseTypes
<1>3. CASE HandlerEnds
  BY <1>3, HandlerEndsStep, Stays DEF HandlerEnds
<1>4. CASE \E p \in Readers : \/ Getc(p) \/ GetcTakes(p) \/ GetcWaits(p) \/ GetcWakes(p)
                              \/ \E n \in Counts : Read(p, n)
  BY <1>4, ReaderTypes
<1>5. CASE \E p \in Peekers : NextcWaits(p) \/ NextcWakes(p)
  BY <1>5, PeekerTypes
<1>6. CASE \E m \in Modes : SetMode(m)
  <2> PICK m \in Modes : SetMode(m)
    BY <1>6
  <2>1. /\ tyimode' = m /\ m \in {"raw", "cbreak", "cooked"}
        /\ got' = got /\ keyed' = keyed /\ lost' = lost
    BY TtyInAssumption DEF SetMode
  <2>2. Nothing
    BY SetModeStep
  <2>3. Abstract!SetMode
    BY <2>1, <2>2 DEF Abstract!SetMode, Nothing, Typed
  <2> QED
    BY <2>3 DEF Abstract!Next
<1>7. CASE \E e \in BOOLEAN : SetEcho(e)
  <2> PICK e \in BOOLEAN : SetEcho(e)
    BY <1>7
  <2>1. Nothing /\ lost' = lost /\ keyed' = keyed /\ tyimode' = tyimode /\ got' = got
    BY SetEchoStep DEF SetEcho
  <2> QED
    BY <2>1, Stays
<1>8. CASE UNCHANGED vars
  <2>1. Nothing /\ lost' = lost /\ keyed' = keyed /\ tyimode' = tyimode /\ got' = got
    BY <1>8, StutterStep DEF vars
  <2> QED
    BY <2>1, Stays
<1> QED
  BY <1>1, <1>2, <1>3, <1>4, <1>5, <1>6, <1>7, <1>8 DEF Next, Handler

(* Until a character is lost, keys edit the pending line only and are      *)
(* dropped only for want of room, and programs take the characters in the  *)
(* order they were typed, a whole line at a time, whichever way the        *)
(* interrupt handler, the calls and the wake-ups interleave.               *)
THEOREM LineInputImplemented == Spec => ImplementsLineInput
<1>1. Init => IInv /\ Abstract!Init
  BY InitFacts DEF Init, Abstract!Init, Typed, NONE
<1>2. IInv /\ [Next]_vars => IInv' /\ [Abstract!Next]_(Abstract!vars)
  BY NextInv, StepTypes
<1> QED
  BY <1>1, <1>2, PTL DEF Spec, ImplementsLineInput, Abstract!Spec
--------------------------------------------------------------------------------
(* The screen: what a fold over one and over two outputs is, and what      *)
(* FlattenSeq puts together.                                               *)

(* The line on the screen after some more outputs.                         *)
After(s, outs) == FoldLeft(Show, s, outs)

LEMMA AfterOne == ASSUME NEW s, NEW x PROVE After(s, <<x>>) = Show(s, x)
<1> DEFINE Iter(h) == h = [t \in SUBSET {1} |->
                             IF t = {} THEN s
                             ELSE Show(h[t \ {Max(t)}], <<x>>[Max(t)])]
           iter == CHOOSE h : Iter(h)
<1>1. DOMAIN <<x>> = {1} /\ <<x>>[1] = x
  OBVIOUS
<1>2. After(s, <<x>>) = iter[{1}]
  BY <1>1 DEF After, FoldLeft, MapThenFoldSet
<1>3. Max({1}) = 1
  BY DEF Max
<1>4. \E h : Iter(h)
  <2> DEFINE h == [t \in SUBSET {1} |-> IF t = {} THEN s ELSE Show(s, x)]
  <2>1. ASSUME NEW t \in SUBSET {1}
        PROVE  h[t] = IF t = {} THEN s ELSE Show(h[t \ {Max(t)}], <<x>>[Max(t)])
    <3>1. t = {} \/ t = {1}
      OBVIOUS
    <3>2. CASE t = {}
      BY <3>2
    <3>3. CASE t = {1}
      <4>1. t \ {Max(t)} = {} /\ Max(t) = 1
        BY <1>3, <3>3
      <4>2. h[{}] = s /\ h[t] = Show(s, x)
        BY <3>3
      <4> HIDE DEF h
      <4> QED
        BY <1>1, <3>3, <4>1, <4>2
    <3> QED
      BY <3>1, <3>2, <3>3
  <2>2. h = [t \in SUBSET {1} |-> h[t]]
    OBVIOUS
  <2> HIDE DEF h
  <2>3. Iter(h)
    BY <2>1, <2>2
  <2> QED
    BY <2>3
<1>5. Iter(iter)
  BY <1>4
<1> HIDE DEF iter
<1>6. \A t \in SUBSET {1} : iter[t] = IF t = {} THEN s
                                      ELSE Show(iter[t \ {Max(t)}], <<x>>[Max(t)])
  BY <1>5
<1>7. iter[{}] = s
  BY <1>6
<1>8. {1} \ {1} = {} /\ {1} # {}
  OBVIOUS
<1>9. iter[{1}] = Show(iter[{1} \ {Max({1})}], <<x>>[Max({1})])
  BY <1>6
<1> QED
  BY <1>1, <1>2, <1>3, <1>7, <1>8, <1>9

LEMMA AfterTwo == ASSUME NEW s, NEW x, NEW y
                 PROVE  After(s, <<x, y>>) = Show(Show(s, x), y)
<1> DEFINE xy == <<x, y>>
           Iter(h) == h = [t \in SUBSET {1, 2} |->
                             IF t = {} THEN s
                             ELSE Show(h[t \ {Max(t)}], xy[Max(t)])]
           iter == CHOOSE h : Iter(h)
<1>1. DOMAIN xy = {1, 2} /\ xy[1] = x /\ xy[2] = y
  OBVIOUS
<1>2. After(s, xy) = iter[{1, 2}]
  BY <1>1 DEF After, FoldLeft, MapThenFoldSet
<1>3. Max({1}) = 1 /\ Max({2}) = 2 /\ Max({1, 2}) = 2
  BY DEF Max
<1>4. \E h : Iter(h)
  <2> DEFINE h == [t \in SUBSET {1, 2} |->
                     IF t = {} THEN s ELSE IF t = {1} THEN Show(s, x)
                     ELSE IF t = {2} THEN Show(s, y) ELSE Show(Show(s, x), y)]
  <2>1. h = [t \in SUBSET {1, 2} |-> h[t]]
    OBVIOUS
  <2>2. {1} # {2} /\ {1, 2} # {1} /\ {1, 2} # {2} /\ {1} # {} /\ {2} # {} /\ {1, 2} # {}
    OBVIOUS
  <2>3. /\ h[{}] = s /\ h[{1}] = Show(s, x) /\ h[{2}] = Show(s, y)
        /\ h[{1, 2}] = Show(Show(s, x), y)
    BY <2>2
  <2> HIDE DEF h, xy
  <2>4. ASSUME NEW t \in SUBSET {1, 2}
        PROVE  h[t] = IF t = {} THEN s ELSE Show(h[t \ {Max(t)}], xy[Max(t)])
    <3>1. t = {} \/ t = {1} \/ t = {2} \/ t = {1, 2}
      OBVIOUS
    <3>2. CASE t = {}
      BY <2>3, <3>2
    <3>3. CASE t = {1}
      <4>1. t \ {Max(t)} = {} /\ Max(t) = 1 /\ t # {}
        BY <1>3, <3>3
      <4> QED
        BY <1>1, <2>3, <3>3, <4>1
    <3>4. CASE t = {2}
      <4>1. t \ {Max(t)} = {} /\ Max(t) = 2 /\ t # {}
        BY <1>3, <3>4
      <4> QED
        BY <1>1, <2>3, <3>4, <4>1
    <3>5. CASE t = {1, 2}
      <4>1. t \ {Max(t)} = {1} /\ Max(t) = 2 /\ t # {}
        BY <1>3, <3>5
      <4> QED
        BY <1>1, <2>3, <3>5, <4>1
    <3> QED
      BY <3>1, <3>2, <3>3, <3>4, <3>5
  <2>5. Iter(h)
    BY <2>1, <2>4
  <2> QED
    BY <2>5
<1>5. Iter(iter)
  BY <1>4
<1> HIDE DEF iter, xy
<1>6. \A t \in SUBSET {1, 2} : iter[t] = IF t = {} THEN s
                                         ELSE Show(iter[t \ {Max(t)}], xy[Max(t)])
  BY <1>5
<1>7. iter[{}] = s
  BY <1>6
<1>8. {1} \ {1} = {} /\ {1} # {} /\ {1, 2} \ {2} = {1} /\ {1, 2} # {}
  OBVIOUS
<1>9. /\ iter[{1}] = Show(iter[{1} \ {Max({1})}], xy[Max({1})])
      /\ iter[{1, 2}] = Show(iter[{1, 2} \ {Max({1, 2})}], xy[Max({1, 2})])
  BY <1>6, <1>8
<1>10. After(s, xy) = Show(Show(s, x), y)
  BY <1>1, <1>2, <1>3, <1>7, <1>8, <1>9
<1> QED
  BY <1>10 DEF xy

(* What FlattenSeq computes, from the texts put together so far.           *)
LEMMA FlattenIs ==
    ASSUME NEW S, NEW seqs \in Seq(Seq(S)), NEW h \in [0 .. Len(seqs) -> Seq(S)],
           h[0] = <<>>, \A i \in 1 .. Len(seqs) : h[i] = h[i - 1] \o seqs[i]
    PROVE  FlattenSeq(seqs) = h[Len(seqs)]
<1> DEFINE n == Len(seqs)
           K == Seq(S)
           none == <<>>
           Joins(g) == g = [i \in 1 .. Len(seqs) |->
                               IF i = 1 THEN seqs[i] ELSE g[i - 1] \o seqs[i]]
           flatten == CHOOSE g : Joins(g)
<1>1. n \in Nat /\ \A i \in 1 .. n : seqs[i] \in K
  BY LenProperties, ElementOfSeq
<1>2. \A x \in K : none \o x = x
  BY ConcatEmptySeq, EmptySeq
<1>3. CASE n = 0
  <2>1. seqs = <<>>
    BY <1>3, EmptySeq
  <2> QED
    BY <1>3, <2>1 DEF FlattenSeq
<1>4. CASE n # 0
  <2>1. FlattenSeq(seqs) = flatten[n]
    BY <1>4 DEF FlattenSeq
  <2>2. h[0] = none /\ h \in [0 .. n -> K] /\ \A i \in 1 .. n : h[i] = h[i - 1] \o seqs[i]
    OBVIOUS
  <2> HIDE DEF K, none
  <2>3. \E g : Joins(g)
    <3> DEFINE g == [i \in 1 .. n |-> h[i]]
    <3>1. ASSUME NEW i \in 1 .. n
          PROVE  g[i] = IF i = 1 THEN seqs[i] ELSE g[i - 1] \o seqs[i]
      <4>1. g[i] = h[i - 1] \o seqs[i]
        BY <2>2
      <4>2. CASE i = 1
        <5>1. h[i - 1] = none /\ none \o seqs[i] = seqs[i]
          BY <1>1, <1>2, <2>2, <4>2
        <5> HIDE DEF g
        <5> QED
          BY <4>1, <4>2, <5>1
      <4>3. CASE i # 1
        <5>1. i - 1 \in 1 .. n
          BY <1>1, <4>3
        <5>2. g[i - 1] = h[i - 1]
          BY <5>1
        <5> HIDE DEF g
        <5> QED
          BY <4>1, <4>3, <5>2
      <4> QED
        BY <4>2, <4>3
    <3>2. g = [i \in 1 .. n |-> IF i = 1 THEN seqs[i] ELSE g[i - 1] \o seqs[i]]
      BY <3>1
    <3> HIDE DEF g
    <3> QED
      BY <3>2
  <2>4. Joins(flatten)
    BY <2>3
  <2> HIDE DEF flatten
  <2>5. \A i \in 1 .. n : flatten[i] = IF i = 1 THEN seqs[i] ELSE flatten[i - 1] \o seqs[i]
    BY <2>4
  <2> DEFINE T == {i \in 0 .. n : i = 0 \/ flatten[i] = h[i]}
  <2>6. \A i \in 1 .. n : i - 1 \in T => i \in T
    <3> SUFFICES ASSUME NEW i \in 1 .. n, i - 1 \in T
                 PROVE  flatten[i] = h[i]
      OBVIOUS
    <3>1. h[i] = h[i - 1] \o seqs[i]
      BY <2>2
    <3>2. CASE i = 1
      <4>1. h[i - 1] = none /\ none \o seqs[i] = seqs[i]
        BY <1>1, <1>2, <2>2, <3>2
      <4> QED
        BY <2>5, <3>1, <3>2, <4>1
    <3>3. CASE i # 1
      <4>1. i - 1 # 0
        BY <3>3
      <4>2. flatten[i - 1] = h[i - 1]
        BY <4>1
      <4> QED
        BY <2>5, <3>1, <3>3, <4>2
    <3> QED
      BY <3>2, <3>3
  <2>7. 0 \in T
    BY <1>1
  <2>8. n \in 0 .. n
    BY <1>1
  <2> HIDE DEF T, n
  <2>9. \A i \in 0 .. n : i \in T
    BY <1>1, <2>6, <2>7, Ascent
  <2> QED
    BY <1>4, <2>1, <2>8, <2>9 DEF T, n
<1> QED
  BY <1>3, <1>4

(* One text more is put behind the others.                                 *)
LEMMA FlattenAppend ==
    ASSUME NEW S, NEW seqs \in Seq(Seq(S)), NEW e \in Seq(S)
    PROVE  /\ FlattenSeq(seqs) \in Seq(S)
           /\ FlattenSeq(Append(seqs, e)) = FlattenSeq(seqs) \o e
<1> DEFINE n == Len(seqs)
           K == Seq(S)
           more == Append(seqs, e)
           step == [i \in 1 .. n + 1 |-> [x \in K |-> x \o more[i]]]
           none == <<>>
<1>1. /\ n \in Nat /\ more \in Seq(K) /\ Len(more) = n + 1
      /\ \A i \in 1 .. n : more[i] = seqs[i]
      /\ more[n + 1] = e
  BY LenProperties, AppendProperties
<1>2. none \in K /\ \A x, y \in K : x \o y \in K
  BY ConcatProperties, EmptySeq
<1>3. \A i \in 1 .. n + 1 : more[i] \in K
  BY <1>1, ElementOfSeq
<1> HIDE DEF more, K, none
<1>4. step \in [1 .. n + 1 -> [K -> K]]
  BY <1>2, <1>3
<1>5. \A i \in 1 .. n + 1 : \A x \in K : step[i][x] = x \o more[i]
  OBVIOUS
<1> HIDE DEF step
<1> DEFINE m == n + 1
<1>6. m \in Nat /\ m = n + 1
  BY <1>1
<1> HIDE DEF m, n
<1>7. PICK h \in [0 .. m -> K] : Iterated(h, m, none, step)
  BY <1>2, <1>4, <1>6, Iterates
<1>8. /\ h[0] = none
      /\ \A i \in 1 .. m : h[i - 1] \in K /\ h[i] = h[i - 1] \o more[i]
  <2>1. h[0] = none /\ \A i \in 1 .. m : h[i] = step[i][h[i - 1]]
    BY <1>7 DEF Iterated
  <2>2. \A i \in 1 .. m : h[i - 1] \in K
    <3>1. \A i \in 1 .. m : i - 1 \in 0 .. m
      BY <1>6
    <3> QED
      BY <1>7, <3>1
  <2> QED
    BY <1>5, <1>6, <2>1, <2>2
<1>9. FlattenSeq(more) = h[m]
  <2>1. Len(more) = m
    BY <1>1, <1>6
  <2> QED
    BY <1>1, <1>8, <2>1, FlattenIs DEF K, none
<1>10. FlattenSeq(seqs) = h[n]
  <2> DEFINE g == [i \in 0 .. n |-> h[i]]
  <2>1. \A i \in 0 .. n : i \in 0 .. m
    BY <1>1, <1>6
  <2>2. g \in [0 .. n -> K] /\ g[0] = none /\ g[n] = h[n]
    BY <1>1, <1>8, <2>1
  <2>3. \A i \in 1 .. n : g[i] = g[i - 1] \o seqs[i]
    <3> SUFFICES ASSUME NEW i \in 1 .. n PROVE g[i] = g[i - 1] \o seqs[i]
      OBVIOUS
    <3>1. i \in 1 .. m /\ i - 1 \in 0 .. n /\ i \in 0 .. n
      BY <1>1, <1>6
    <3>2. h[i] = h[i - 1] \o more[i] /\ more[i] = seqs[i]
      BY <1>1, <1>8, <3>1
    <3>3. g[i] = h[i] /\ g[i - 1] = h[i - 1]
      BY <3>1
    <3> QED
      BY <3>2, <3>3
  <2> HIDE DEF g
  <2>4. FlattenSeq(seqs) = g[n]
    BY <2>2, <2>3, FlattenIs DEF n, K, none
  <2> QED
    BY <2>2, <2>4
<1>11. m \in 1 .. m /\ m - 1 = n
  BY <1>1, <1>6
<1>12. h[m] = h[n] \o e /\ h[n] \in K
  BY <1>1, <1>6, <1>8, <1>11
<1> QED
  BY <1>9, <1>10, <1>12 DEF more, K

--------------------------------------------------------------------------------
(* What the user sees.                                                     *)

Printed == Keys \ {"nl", "cr", "bs", "kill", "eof"}
Glyphs  == Text \cup {"^", "CR", "NL"}

Shows(text) == FlattenSeq([i \in DOMAIN text |-> Echo(text[i])])

LEMMA Echoes == \A c \in Text : Echo(c) \in Seq(Glyphs)
<1> SUFFICES ASSUME NEW c \in Text PROVE Echo(c) \in Seq(Glyphs)
  OBVIOUS
<1>1. c \in Glyphs /\ "^" \in Glyphs /\ "CR" \in Glyphs /\ "NL" \in Glyphs
  BY DEF Glyphs
<1>2. Echo(c) \in {<<"CR", "NL">>, <<"^", c>>, <<c>>}
  BY DEF Echo
<1>3. <<"CR", "NL">> \in Seq(Glyphs) /\ <<"^", c>> \in Seq(Glyphs) /\ <<c>> \in Seq(Glyphs)
  BY <1>1
<1> QED
  BY <1>2, <1>3

LEMMA ShowsNothing == Shows(<<>>) = <<>>
<1> DEFINE e == [i \in DOMAIN <<>> |-> Echo(<<>>[i])]
<1>1. e = <<>>
  OBVIOUS
<1> HIDE DEF e
<1>2. FlattenSeq(e) = <<>>
  BY <1>1 DEF FlattenSeq
<1> QED
  BY <1>2 DEF Shows, e

LEMMA ShowsMore ==
    ASSUME NEW text \in Seq(Text), NEW c \in Text
    PROVE  Shows(text) \in Seq(Glyphs) /\ Shows(Append(text, c)) = Shows(text) \o Echo(c)
<1> DEFINE n == Len(text)
           more == Append(text, c)
           old == [i \in DOMAIN text |-> Echo(text[i])]
           new == [i \in DOMAIN more |-> Echo(more[i])]
           E == Seq(Glyphs)
<1>1. /\ n \in Nat /\ DOMAIN text = 1 .. n /\ DOMAIN more = 1 .. n + 1
      /\ \A i \in 1 .. n : more[i] = text[i] /\ text[i] \in Text
      /\ more[n + 1] = c
  BY LenProperties, AppendProperties, ElementOfSeq
<1>2. Echo(c) \in E /\ \A i \in 1 .. n : Echo(text[i]) \in E
  BY <1>1, Echoes
<1> HIDE DEF more, n, E
<1>3. old \in [1 .. n -> E] /\ \A i \in 1 .. n : old[i] = Echo(text[i])
  BY <1>1, <1>2
<1>4. new = [i \in 1 .. n + 1 |-> Echo(more[i])]
  BY <1>1
<1> HIDE DEF old, new
<1>5. old \in Seq(E) /\ Len(old) = n
  BY <1>1, <1>3
<1>6. new = Append(old, Echo(c))
  <2>1. Append(old, Echo(c)) = [i \in 1 .. n + 1 |-> IF i = n + 1 THEN Echo(c) ELSE old[i]]
    <3> DEFINE a == Append(old, Echo(c))
    <3>1. /\ a \in Seq(E) /\ Len(a) = n + 1 /\ a[n + 1] = Echo(c)
          /\ \A i \in 1 .. n : a[i] = old[i]
      BY <1>2, <1>5, AppendProperties
    <3> HIDE DEF a
    <3>2. DOMAIN a = 1 .. n + 1 /\ a = [i \in 1 .. n + 1 |-> a[i]]
      BY <3>1, LenProperties
    <3>3. \A i \in 1 .. n + 1 : a[i] = IF i = n + 1 THEN Echo(c) ELSE old[i]
      BY <1>1, <3>1
    <3>4. a = [i \in 1 .. n + 1 |-> IF i = n + 1 THEN Echo(c) ELSE old[i]]
      BY <3>2, <3>3
    <3> QED
      BY <3>4 DEF a
  <2>2. \A i \in 1 .. n + 1 : Echo(more[i]) = IF i = n + 1 THEN Echo(c) ELSE old[i]
    BY <1>1, <1>3
  <2> QED
    BY <1>4, <2>1, <2>2
<1>7. FlattenSeq(old) \in E /\ FlattenSeq(Append(old, Echo(c))) = FlattenSeq(old) \o Echo(c)
  BY <1>2, <1>5, FlattenAppend DEF E
<1> QED
  BY <1>6, <1>7 DEF Shows, old, new, more, E

LEMMA Shown1 ==
    ASSUME NEW s \in Seq(Glyphs), NEW k \in Printed
    PROVE  After(s, Echo(k)) = s \o Echo(k)
<1>1. k \in {"a", "b", "ctl"} /\ k \in Glyphs /\ "^" \in Glyphs
  BY TtyInAssumption DEF Printed, Glyphs, Text
<1>2. CASE k = "ctl"
  <2>1. Echo(k) = <<"^", k>>
    BY <1>2 DEF Echo
  <2>2. After(s, <<"^", k>>) = Append(Append(s, "^"), k)
    <3>1. Show(s, "^") = Append(s, "^")
      BY DEF Show
    <3>2. Show(Append(s, "^"), k) = Append(Append(s, "^"), k)
      BY <1>2 DEF Show
    <3>3. After(s, <<"^", k>>) = Show(Show(s, "^"), k)
      BY AfterTwo
    <3> QED
      BY <3>1, <3>2, <3>3
  <2>3. Append(Append(s, "^"), k) = s \o <<"^", k>>
    BY <1>1
  <2> QED
    BY <2>1, <2>2, <2>3
<1>3. CASE k # "ctl"
  <2>1. Echo(k) = <<k>>
    BY <1>1, <1>3 DEF Echo
  <2>2. After(s, <<k>>) = Append(s, k)
    BY <1>1, AfterOne DEF Show
  <2>3. Append(s, k) = s \o <<k>>
    BY <1>1
  <2> QED
    BY <2>1, <2>2, <2>3
<1> QED
  BY <1>2, <1>3

LEMMA Backspace == \A s \in Seq(Glyphs), x \in Glyphs : Show(Append(s, x), "BS") = s
<1> SUFFICES ASSUME NEW s \in Seq(Glyphs), NEW x \in Glyphs PROVE Show(Append(s, x), "BS") = s
  OBVIOUS
<1> DEFINE t == Append(s, x)
           n == Len(s)
<1>1. /\ t \in Seq(Glyphs) /\ Len(t) = n + 1 /\ n \in Nat /\ t # <<>>
      /\ \A i \in 1 .. n : t[i] = s[i]
      /\ s = [i \in 1 .. n |-> s[i]]
  BY AppendProperties, LenProperties
<1>2. Show(t, "BS") = SubSeq(t, 1, Len(t) - 1)
  BY <1>1 DEF Show
<1> HIDE DEF t, n
<1>3. Len(t) - 1 = n
  BY <1>1
<1>4. SubSeq(t, 1, n) = [i \in 1 .. n |-> t[i]]
  BY <1>1
<1> QED
  BY <1>1, <1>2, <1>3, <1>4 DEF t

LEMMA Unshown1 ==
    ASSUME NEW s \in Seq(Glyphs), NEW k \in Printed
    PROVE  After(s \o Echo(k), Erase(k)) = s
<1>1. k \in {"a", "b", "ctl"} /\ k \in Glyphs /\ "^" \in Glyphs
  BY TtyInAssumption DEF Printed, Glyphs, Text
<1>2. CASE k = "ctl"
  <2>1. Echo(k) = <<"^", k>> /\ Erase(k) = <<"BS", "BS">>
    BY <1>2 DEF Echo, Erase
  <2>2. s \o <<"^", k>> = Append(Append(s, "^"), k) /\ Append(s, "^") \in Seq(Glyphs)
    BY <1>1
  <2>3. Show(Append(Append(s, "^"), k), "BS") = Append(s, "^")
    BY <1>1, <2>2, Backspace
  <2>4. Show(Append(s, "^"), "BS") = s
    BY <1>1, Backspace
  <2> DEFINE t == Append(Append(s, "^"), k)
  <2>5. After(t, <<"BS", "BS">>) = Show(Show(t, "BS"), "BS")
    BY AfterTwo
  <2> QED
    BY <2>1, <2>2, <2>3, <2>4, <2>5
<1>3. CASE k # "ctl"
  <2>1. Echo(k) = <<k>> /\ Erase(k) = <<"BS">>
    BY <1>1, <1>3 DEF Echo, Erase
  <2>2. s \o <<k>> = Append(s, k)
    BY <1>1
  <2>3. Show(Append(s, k), "BS") = s
    BY <1>1, Backspace
  <2> QED
    BY <2>1, <2>2, <2>3, AfterOne
<1> QED
  BY <1>2, <1>3

LEMMA NewLine == ASSUME NEW s PROVE After(s, <<"CR", "NL">>) = <<>>
<1>1. After(s, <<"CR", "NL">>) = Show(Show(s, "CR"), "NL")
  BY AfterTwo
<1>2. \A t : Show(t, "NL") = <<>>
  BY DEF Show
<1> QED
  BY <1>1, <1>2

LEMMA Bell == ASSUME NEW s PROVE After(s, <<"BELL">>) = s
<1>1. After(s, <<"BELL">>) = Show(s, "BELL")
  BY AfterOne
<1> QED
  BY <1>1 DEF Show

(* The pending line holds characters that are shown as they are or as ^X,  *)
(* and, unless something else has been written, the screen shows them.     *)
Visible == lost = "no" => /\ Line \in Seq(Printed)
                          /\ clean => tyiecho /\ screen = Shows(Line)

LEMMA PrintedText == /\ Printed \subseteq Text
                     /\ \A text \in Seq(Printed) : text \in Seq(Text)
  BY DEF Printed, Text

LEMMA Kept ==
    ASSUME Visible, lost = "no", UNCHANGED <<screen, clean, tyiecho>>,
           lost' = "no" => Line' = Line
    PROVE  Visible'
  BY DEF Visible, Shows

LEMMA Blank ==
    ASSUME Line' = <<>>, clean' => tyiecho' /\ screen' = <<>>
    PROVE  Visible'
<1>1. <<>> \in Seq(Printed)
  OBVIOUS
<1>2. Shows(Line)' = <<>>
  <2>1. Shows(Line') = <<>>
    BY ShowsNothing
  <2> QED
    BY <2>1 DEF Shows
<1> QED
  BY <1>1, <1>2 DEF Visible

LEMMA Gone == ASSUME lost' # "no" PROVE Visible'
  BY DEF Visible

LEMMA CallsKept == ASSUME Visible, lost = "no", Nothing, Unchanged PROVE Visible'
  BY Kept DEF Nothing, Unchanged

LEMMA RawVisible == ASSUME IInv, Visible, NEW k \in Keys, RawKey(k) PROVE Visible'
<1>1. lost = "no" /\ UNCHANGED <<screen, clean, tyiecho>>
  BY DEF RawKey, Arrives
<1>2. lost' = "no" => Line' = Line
  BY RawKeyStep DEF Delivered, NoLine
<1> QED
  BY <1>1, <1>2, Kept

LEMMA CbreakVisible == ASSUME IInv, Visible, NEW k \in Keys, CbreakKey(k) PROVE Visible'
<1>1. lost = "no" /\ tyiecho' = tyiecho
  BY DEF CbreakKey, Arrives
<1>2. lost' = "no" => Line' = Line /\ Line' = <<>>
  BY CbreakKeyStep DEF Delivered, NoLine
<1>3. CASE Avail >= IBUFLEN
  <2>1. screen' = After(screen, <<"BELL">>) /\ clean' = clean
    BY <1>3 DEF CbreakKey, Put, After
  <2> QED
    BY <1>1, <1>2, <2>1, Bell, Kept
<1>4. CASE ~(Avail >= IBUFLEN)
  <2>1. clean' = FALSE
    BY <1>4 DEF CbreakKey
  <2> QED
    BY <1>2, <2>1, Blank, Gone
<1> QED
  BY <1>3, <1>4

LEMMA LineVisible == ASSUME IInv, Visible, NEW k \in Keys, LineKey(k) PROVE Visible'
<1>1. /\ tyiecho' = tyiecho /\ clean' = tyiecho
      /\ tyiecho => screen' = After(screen, <<"CR", "NL">>)
  BY DEF LineKey, Cooked, Arrives, Echoing, Echo, Put, After
<1>2. lost' = "no" => Line' = <<>>
  BY LineKeyStep
<1> QED
  BY <1>1, <1>2, NewLine, Blank, Gone

LEMMA KillVisible == ASSUME IInv, Visible, KillLine PROVE Visible'
<1>1. /\ tyiecho' = tyiecho /\ clean' = tyiecho /\ screen' = After(screen, <<"CR", "NL">>)
  BY DEF KillLine, Cooked, Arrives, Put, After
<1>2. lost' = "no" => Line' = <<>>
  BY KillLineStep
<1> QED
  BY <1>1, <1>2, NewLine, Blank, Gone

LEMMA FrontOf ==
    ASSUME NEW S, NEW text \in Seq(S), NEW n, n = Len(text), n > 0
    PROVE  LET front == SubSeq(text, 1, n - 1)
           IN  /\ front \in Seq(S) /\ Len(front) = n - 1
               /\ \A i \in 1 .. n - 1 : front[i] = text[i]
<1> DEFINE m == n - 1
<1>1. n \in Nat /\ m \in Nat /\ m <= Len(text) /\ \A i \in 1 .. m : text[i] \in S
  BY LenProperties, ElementOfSeq
<1> HIDE DEF m
<1>2. SubSeq(text, 1, m) = [i \in 1 .. m |-> text[i]]
  BY <1>1
<1>3. /\ SubSeq(text, 1, m) \in Seq(S) /\ Len(SubSeq(text, 1, m)) = m
      /\ \A i \in 1 .. m : SubSeq(text, 1, m)[i] = text[i]
  BY <1>1, <1>2
<1> QED
  BY <1>3 DEF m

LEMMA EraseVisible == ASSUME IInv, Visible, EraseKey PROVE Visible'
<1>1. /\ lost = "no" /\ tyiecho' = tyiecho /\ clean' = clean
  BY DEF EraseKey, Cooked, Arrives
<1>2. CASE lost' # "no"
  BY <1>2, Gone
<1>3. CASE lost' = "no"
  <2>1. Erased
    BY <1>3, EraseKeyStep
  <2>2. CASE Line = <<>> /\ Line' = Line
    <3>1. ~(tyicursor > 0)
      <4> SUFFICES ASSUME tyicursor > 0 PROVE FALSE
        OBVIOUS
      <4>1. lost' = Stale
        BY DEF EraseKey
      <4>2. ~suspended
        BY <1>3, <4>1 DEF Stale
      <4>3. LineLen = tyicursor /\ LineLen = 0
        <5>1. Len(Line) = LineLen
          BY <1>1, Texts
        <5> QED
          BY <2>2, <4>2, <5>1 DEF LineLen
      <4> QED
        BY <4>3
    <3>2. screen' = screen
      BY <3>1 DEF EraseKey
    <3> QED
      BY <1>1, <2>2, <3>2, Kept
  <2>3. CASE /\ Line # <<>> /\ Line' = SubSeq(Line, 1, Len(Line) - 1)
             /\ tyicursor > 0 /\ tyibuff[tyitail'] = Line[Len(Line)]
    <3> DEFINE n == Len(Line)
               front == SubSeq(Line, 1, n - 1)
               c == Line[n]
    <3>1. Line \in Seq(Printed) /\ n \in Nat /\ n > 0
      BY <1>1, <2>3, LenProperties, EmptySeq DEF Visible
    <3>2. /\ front \in Seq(Printed) /\ c \in Printed /\ Line = Append(front, c)
      <4>1. n \in 1 .. n
        BY <3>1
      <4>2. c \in Printed
        BY <3>1, <4>1, ElementOfSeq
      <4>3. /\ front \in Seq(Printed) /\ Len(front) = n - 1
            /\ \A i \in 1 .. n - 1 : front[i] = Line[i]
        BY <3>1, FrontOf
      <4> DEFINE a == Append(front, c)
      <4> HIDE DEF front, c
      <4>4. /\ a \in Seq(Printed) /\ Len(a) = n - 1 + 1 /\ a[n - 1 + 1] = c
            /\ \A i \in 1 .. n - 1 : a[i] = front[i]
        BY <4>2, <4>3, AppendProperties
      <4>5. n - 1 + 1 = n
        BY <3>1
      <4> HIDE DEF a, n
      <4>6. \A i \in 1 .. n : a[i] = Line[i]
        <5> SUFFICES ASSUME NEW i \in 1 .. n PROVE a[i] = Line[i]
          OBVIOUS
        <5>1. i \in 1 .. n - 1 \/ i = n
          BY <3>1
        <5> QED
          BY <4>3, <4>4, <4>5, <5>1 DEF c
      <4>7. a = Line
        BY <3>1, <4>4, <4>5, <4>6, SeqEqual DEF n
      <4> QED
        BY <4>2, <4>3, <4>7 DEF a
    <3>3. Line' = front /\ tyibuff[tyitail'] = c
      BY <2>3
    <3>4. tyiecho => screen' = After(screen, Erase(c))
      BY <2>3, <3>3 DEF EraseKey, Put, After
    <3> HIDE DEF c, front, n
    <3>5. Shows(Line) = Shows(front) \o Echo(c) /\ Shows(front) \in Seq(Glyphs)
      BY <3>2, PrintedText, ShowsMore
    <3>6. clean' => tyiecho' /\ screen' = Shows(front)
      BY <1>1, <3>2, <3>4, <3>5, Unshown1 DEF Visible
    <3>7. Shows(Line)' = Shows(front)
      BY <3>3 DEF Shows
    <3> QED
      BY <3>2, <3>3, <3>6, <3>7 DEF Visible
  <2> QED
    BY <2>1, <2>2, <2>3 DEF Erased
<1> QED
  BY <1>2, <1>3

LEMMA CharVisible == ASSUME IInv, Visible, NEW k \in Keys, CharKey(k) PROVE Visible'
<1>1. lost = "no" /\ tyiecho' = tyiecho /\ k \notin {"nl", "cr", "bs", "kill"}
  BY DEF CharKey, Cooked, Arrives
<1>2. CASE lost' # "no"
  BY <1>2, Gone
<1>3. CASE lost' = "no" /\ Avail + tyicursor >= IBUFLEN - 1
  <2>1. screen' = After(screen, <<"BELL">>) /\ clean' = clean /\ Line' = Line
    BY <1>3, BellStep DEF After, Nothing
  <2> QED
    BY <1>1, <2>1, Bell, Kept
<1>4. CASE lost' = "no" /\ ~(Avail + tyicursor >= IBUFLEN - 1) /\ k = "eof"
  <2>1. clean' = FALSE /\ Charred(k)
    BY <1>4, EofKeyStep
  <2>2. Line' = Line
    BY <1>4, <2>1 DEF Charred, Nothing, NoLine
  <2> QED
    BY <1>1, <2>1, <2>2 DEF Visible
<1>5. CASE lost' = "no" /\ ~(Avail + tyicursor >= IBUFLEN - 1) /\ k # "eof"
  <2>1. clean' = clean /\ Echoing(k) /\ Line' = Append(Line, k)
    BY <1>5, PlainKeyStep
  <2>2. tyiecho => screen' = After(screen, Echo(k))
    BY <2>1 DEF Echoing, Put, After
  <2>3. k \in Printed /\ Line \in Seq(Printed) /\ Line' \in Seq(Printed)
    <3>1. k \in Printed /\ Line \in Seq(Printed)
      BY <1>1, <1>5 DEF Printed, Visible
    <3> QED
      BY <2>1, <3>1, AppendProperties
  <2>4. Shows(Line)' = Shows(Line) \o Echo(k) /\ Shows(Line) \in Seq(Glyphs)
    <3>1. Shows(Append(Line, k)) = Shows(Line) \o Echo(k) /\ Shows(Line) \in Seq(Glyphs)
      BY <2>3, PrintedText, ShowsMore
    <3>2. Shows(Line)' = Shows(Append(Line, k))
      BY <2>1 DEF Shows
    <3> QED
      BY <3>1, <3>2
  <2>5. clean' => tyiecho' /\ screen' = Shows(Line)'
    BY <1>1, <2>1, <2>2, <2>3, <2>4, Shown1 DEF Visible
  <2> QED
    BY <2>3, <2>5 DEF Visible
<1> QED
  BY <1>2, <1>3, <1>4, <1>5

LEMMA ReaderVisible ==
    ASSUME IInv, Visible, NEW p \in Readers,
           \/ Getc(p) \/ GetcTakes(p) \/ GetcWaits(p) \/ GetcWakes(p)
           \/ \E n \in Counts : Read(p, n)
    PROVE  Visible'
<1>1. lost = "no"
  <2>1. GetcWaits(p) => lost = "no"
    BY Sizes DEF GetcWaits, IInv, Calling
  <2>2. Getc(p) \/ (\E n \in Counts : Read(p, n)) => lost = "no"
    BY DEF Getc, Read, Calls
  <2> QED
    BY <2>1, <2>2, GetcTakesStep, GetcWakesStep
<1>2. Unchanged
  BY DEF Getc, Read, GetcTakes, GetcWaits, GetcWakes, Waits
<1>3. Line' = Line
  BY GetcStep, ReadStep, GetcTakesStep, GetcWaitsStep, GetcWakesStep DEF Nothing, Taken
<1> QED
  BY <1>1, <1>2, <1>3, Kept DEF Unchanged

LEMMA StepVisible == ASSUME IInv, Visible, [Next]_vars PROVE Visible'
<1>1. CASE \E k \in Keys : RawKey(k) \/ CbreakKey(k) \/ LineKey(k) \/ CharKey(k)
  BY <1>1, RawVisible, CbreakVisible, LineVisible, CharVisible
<1>2. CASE KillLine \/ EraseKey
  BY <1>2, KillVisible, EraseVisible
<1>3. CASE HandlerEnds
  BY <1>3, HandlerEndsStep, Kept DEF HandlerEnds, Nothing
<1>4. CASE \E p \in Readers : \/ Getc(p) \/ GetcTakes(p) \/ GetcWaits(p) \/ GetcWakes(p)
                              \/ \E n \in Counts : Read(p, n)
  BY <1>4, ReaderVisible
<1>5. CASE \E p \in Peekers : NextcWaits(p) \/ NextcWakes(p)
  <2> PICK p \in Peekers : NextcWaits(p) \/ NextcWakes(p)
    BY <1>5
  <2>1. lost = "no" /\ Unchanged
    BY DEF NextcWaits, NextcWakes, Calls, Waits
  <2> QED
    BY <2>1, NextcWaitsStep, NextcWakesStep, CallsKept
<1>6. CASE \E m \in Modes : SetMode(m)
  BY <1>6, SetModeStep, Kept DEF SetMode, Nothing
<1>7. CASE \E e \in BOOLEAN : SetEcho(e)
  <2> PICK e \in BOOLEAN : SetEcho(e)
    BY <1>7
  <2>1. lost = "no" /\ clean' = FALSE /\ Line' = Line
    BY SetEchoStep DEF SetEcho, Nothing
  <2> QED
    BY <2>1 DEF Visible
<1>8. CASE UNCHANGED vars
  <2>1. Line' = Line /\ lost' = lost /\ UNCHANGED <<screen, clean, tyiecho>>
    BY <1>8, StutterStep DEF vars, Nothing
  <2> QED
    BY <2>1, Kept, Gone
<1> QED
  BY <1>1, <1>2, <1>3, <1>4, <1>5, <1>6, <1>7, <1>8 DEF Next, Handler

(* While echo is on and nothing but the line has been written since it     *)
(* began, the screen shows the line as it stands in the ring, whatever has *)
(* been erased, ^X for a control character included (echoch() against      *)
(* erase1()).                                                              *)
THEOREM ScreenRight == Spec => []ScreenShowsLine
<1>1. Init => IInv /\ Visible
  <2> SUFFICES ASSUME Init PROVE IInv /\ Visible
    OBVIOUS
  <2>1. IInv /\ Line = <<>> /\ screen = <<>> /\ tyiecho
    BY InitFacts DEF Init
  <2>2. <<>> \in Seq(Printed)
    OBVIOUS
  <2> QED
    BY <2>1, <2>2, ShowsNothing DEF Visible
<1>2. IInv /\ Visible /\ [Next]_vars => IInv' /\ Visible'
  BY NextInv, StepVisible
<1>3. Visible => ScreenShowsLine
  BY DEF Visible, ScreenShowsLine, Shows
<1> QED
  BY <1>1, <1>2, <1>3, PTL DEF Spec
================================================================================
