---------------------------- MODULE XinuLists_proofs ----------------------------
(***************************************************************************)
(* What the list operators of XinuLists do to who is on a list, and to how *)
(* long each has to wait, for lists of any length over any set of          *)
(* processes P.                                                            *)
(***************************************************************************)
EXTENDS XinuLists, SequenceTheorems, WellFoundedInduction, TLAPS

Entries(P) == [pid : P, key : Int]

--------------------------------------------------------------------------------
(* Induction over data, in the form the provers can use: with sets.        *)

LEMMA Least ==
    ASSUME NEW T, T \subseteq Nat, T # {}
    PROVE  \E m \in T : \A x \in T : m <= x
<1>1. PICK m \in T : \A y \in T : ~ (<<y, m>> \in OpToRel(<, Nat))
  BY NatLessThanWellFounded, WFMin
<1>2. \A y \in T : ~ (y < m)
  BY <1>1 DEF OpToRel
<1> QED
  BY <1>2

LEMMA Ascent ==
    ASSUME NEW n \in Nat, NEW T, 0 \in T, \A i \in 1 .. n : i - 1 \in T => i \in T
    PROVE  \A i \in 0 .. n : i \in T
<1>1. SUFFICES ASSUME {i \in 0 .. n : i \notin T} # {} PROVE FALSE
  OBVIOUS
<1> DEFINE U == {i \in 0 .. n : i \notin T}
<1>2. PICK m \in 0 .. n : m \notin T /\ \A x \in U : m <= x
  <2>1. U \subseteq Nat /\ U # {}
    BY <1>1
  <2>2. \E m \in U : \A x \in U : m <= x
    <3> HIDE DEF U
    <3> QED
      BY <2>1, Least
  <2> QED
    BY <2>2
<1>3. m # 0 /\ m - 1 \in 0 .. n /\ m \in 1 .. n
  BY <1>2
<1>4. m - 1 \in T
  BY <1>2, <1>3
<1> QED
  BY <1>2, <1>3, <1>4

(* A function on 0 .. n whose values come each from the one before.        *)
Iterated(h, n, a, step) == h[0] = a /\ \A i \in 1 .. n : h[i] = step[i][h[i - 1]]

LEMMA Iterates ==
    ASSUME NEW n \in Nat, NEW K, NEW a \in K, NEW step \in [1 .. n -> [K -> K]]
    PROVE  \E h \in [0 .. n -> K] : Iterated(h, n, a, step)
<1> DEFINE Partial(m) == \E h \in [0 .. m -> K] :
                            h[0] = a /\ \A i \in 1 .. m : h[i] = step[i][h[i - 1]]
           T == {m \in 0 .. n : Partial(m)}
<1>1. 0 \in T
  <2> DEFINE h == [i \in 0 .. 0 |-> a]
  <2>1. h \in [0 .. 0 -> K] /\ h[0] = a /\ \A i \in 1 .. 0 : FALSE
    OBVIOUS
  <2>2. Partial(0)
    <3> HIDE DEF h
    <3> QED
      BY <2>1
  <2> HIDE DEF Partial
  <2> QED
    BY <2>2
<1>2. ASSUME NEW m \in 1 .. n, m - 1 \in T PROVE m \in T
  <2>1. PICK h \in [0 .. m - 1 -> K] :
            h[0] = a /\ \A i \in 1 .. m - 1 : h[i] = step[i][h[i - 1]]
    BY <1>2
  <2> DEFINE x == step[m][h[m - 1]]
             g == [i \in 0 .. m |-> IF i = m THEN x ELSE h[i]]
  <2>2. x \in K
    <3>1. m - 1 \in 0 .. m - 1
      OBVIOUS
    <3>2. h[m - 1] \in K
      BY <2>1, <3>1
    <3> QED
      BY <3>2
  <2>3. g \in [0 .. m -> K] /\ g[0] = a /\ g[m] = x
        /\ \A i \in 0 .. m - 1 : g[i] = h[i]
    <3> HIDE DEF x
    <3>1. \A i \in 0 .. m : i = m \/ i \in 0 .. m - 1
      OBVIOUS
    <3> QED
      BY <2>1, <2>2, <3>1
  <2> HIDE DEF g
  <2>4. ASSUME NEW i \in 1 .. m PROVE g[i] = step[i][g[i - 1]]
    <3>1. g[i - 1] = h[i - 1]
      BY <2>3
    <3>2. CASE i = m
      BY <2>3, <3>1, <3>2
    <3>3. CASE i # m
      <4>1. i \in 1 .. m - 1
        BY <3>3
      <4> QED
        BY <2>1, <2>3, <3>1, <4>1
    <3> QED
      BY <3>2, <3>3
  <2>5. Partial(m)
    BY <2>3, <2>4
  <2> HIDE DEF Partial
  <2> QED
    BY <2>5
<1>3. n \in T
  <2> HIDE DEF T
  <2>1. \A i \in 0 .. n : i \in T
    BY <1>1, <1>2, Ascent
  <2> QED
    BY <2>1
<1> QED
  BY <1>3 DEF Iterated

--------------------------------------------------------------------------------
(* Inserting and removing in the middle.                                   *)

(* What inserting does to a list, in one word: a prover has less to unfold.*)
Placed(list, at, e, new) ==
    /\ Len(new) = Len(list) + 1
    /\ \A i \in 1 .. Len(list) + 1 :
          new[i] = IF i < at THEN list[i] ELSE IF i = at THEN e ELSE list[i - 1]

LEMMA InsertAtPlaces ==
    ASSUME NEW S, NEW list \in Seq(S), NEW at \in 1 .. Len(list) + 1, NEW e \in S
    PROVE  /\ InsertAt(list, at, e) \in Seq(S)
           /\ Placed(list, at, e, InsertAt(list, at, e))
<1> DEFINE a == SubSeq(list, 1, at - 1)
           b == SubSeq(list, at, Len(list))
           new == InsertAt(list, at, e)
<1>1. Len(list) \in Nat /\ at \in Int /\ \A i \in 1 .. Len(list) : list[i] \in S
  BY LenProperties, ElementOfSeq
<1>2. /\ a \in Seq(S) /\ Len(a) = at - 1
      /\ \A i \in 1 .. at - 1 : a[i] = list[i]
  <2>1. \A i \in 1 .. at - 1 : list[i] \in S
    BY <1>1
  <2> QED
    BY <1>1, <2>1, SubSeqProperties
<1>3. /\ b \in Seq(S) /\ Len(b) = Len(list) - at + 1
      /\ \A i \in 1 .. Len(list) - at + 1 : b[i] = list[at + i - 1]
  <2>1. \A i \in at .. Len(list) : list[i] \in S
    BY <1>1
  <2> QED
    BY <1>1, <2>1, SubSeqProperties
<1>4. <<e>> \in Seq(S) /\ Len(<<e>>) = 1 /\ <<e>>[1] = e
  OBVIOUS
<1>5. /\ a \o <<e>> \in Seq(S) /\ Len(a \o <<e>>) = at
      /\ \A i \in 1 .. at : (a \o <<e>>)[i] = IF i < at THEN list[i] ELSE e
  <2> HIDE DEF a
  <2> QED
    BY <1>1, <1>2, <1>4, ConcatProperties
<1>6. new = (a \o <<e>>) \o b
  BY DEF InsertAt
<1> HIDE DEF a, b, new
<1>7. /\ new \in Seq(S) /\ Len(new) = at + Len(b)
      /\ \A i \in 1 .. at + Len(b) :
            new[i] = IF i <= at THEN (a \o <<e>>)[i] ELSE b[i - at]
  <2> DEFINE c == a \o <<e>>
  <2>1. c \in Seq(S) /\ Len(c) = at /\ new = c \o b /\ b \in Seq(S)
    BY <1>3, <1>5, <1>6
  <2> HIDE DEF c
  <2>2. /\ new \in Seq(S) /\ Len(new) = at + Len(b)
        /\ \A i \in 1 .. at + Len(b) : new[i] = IF i <= at THEN c[i] ELSE b[i - at]
    BY <2>1, ConcatProperties
  <2> QED
    BY <2>2 DEF c
<1>8. ASSUME NEW i \in 1 .. Len(list) + 1
      PROVE  new[i] = IF i < at THEN list[i] ELSE IF i = at THEN e ELSE list[i - 1]
  <2> DEFINE c == a \o <<e>>
  <2>0. /\ \A j \in 1 .. at : c[j] = IF j < at THEN list[j] ELSE e
        /\ \A j \in 1 .. at + Len(b) : new[j] = IF j <= at THEN c[j] ELSE b[j - at]
    BY <1>5, <1>7
  <2> HIDE DEF c
  <2>1. CASE i <= at
    <3>1. i \in 1 .. at /\ i \in 1 .. at + Len(b)
      BY <2>1, <1>1, <1>3
    <3> QED
      BY <3>1, <2>0, <2>1, <1>1
  <2>2. CASE i > at
    <3>1. i - at \in 1 .. Len(list) - at + 1 /\ new[i] = b[i - at]
      BY <2>2, <1>1, <1>3, <2>0
    <3>2. b[i - at] = list[at + (i - at) - 1] /\ at + (i - at) - 1 = i - 1
      BY <3>1, <1>1, <1>3
    <3> QED
      BY <3>1, <3>2, <2>2, <1>1
  <2> QED
    BY <2>1, <2>2, <1>1
<1> QED
  BY <1>1, <1>3, <1>7, <1>8 DEF new, Placed

LEMMA InsertAtProps ==
    ASSUME NEW S, NEW list \in Seq(S), NEW at \in 1 .. Len(list) + 1, NEW e \in S
    PROVE  LET new == InsertAt(list, at, e)
           IN  /\ new \in Seq(S)
               /\ Len(new) = Len(list) + 1
               /\ \A i \in 1 .. Len(list) + 1 :
                     new[i] = IF i < at THEN list[i] ELSE IF i = at THEN e ELSE list[i - 1]
<1>1. /\ InsertAt(list, at, e) \in Seq(S)
      /\ Placed(list, at, e, InsertAt(list, at, e))
  BY InsertAtPlaces
<1> QED
  BY <1>1 DEF Placed

LEMMA RemoveAtProps ==
    ASSUME NEW S, NEW list \in Seq(S), NEW at \in 1 .. Len(list)
    PROVE  LET new == RemoveAt(list, at)
           IN  /\ new \in Seq(S)
               /\ Len(new) = Len(list) - 1
               /\ \A i \in 1 .. Len(list) - 1 :
                     new[i] = IF i < at THEN list[i] ELSE list[i + 1]
<1> DEFINE a == SubSeq(list, 1, at - 1)
           b == SubSeq(list, at + 1, Len(list))
           new == RemoveAt(list, at)
<1>1. Len(list) \in Nat /\ at \in Int /\ \A i \in 1 .. Len(list) : list[i] \in S
  BY LenProperties, ElementOfSeq
<1>2. /\ a \in Seq(S) /\ Len(a) = at - 1
      /\ \A i \in 1 .. at - 1 : a[i] = list[i]
  <2>1. \A i \in 1 .. at - 1 : list[i] \in S
    BY <1>1
  <2> QED
    BY <1>1, <2>1, SubSeqProperties
<1>3. /\ b \in Seq(S) /\ Len(b) = Len(list) - at
      /\ \A i \in 1 .. Len(list) - at : b[i] = list[at + i]
  <2>1. \A i \in at + 1 .. Len(list) : list[i] \in S
    BY <1>1
  <2>2. at + 1 \in Int /\ Len(list) - (at + 1) + 1 = Len(list) - at
        /\ \A i \in Int : (at + 1) + i - 1 = at + i
    BY <1>1
  <2>3. /\ b \in Seq(S) /\ Len(b) = IF at + 1 <= Len(list) THEN Len(list) - (at + 1) + 1 ELSE 0
        /\ \A i \in 1 .. Len(list) - (at + 1) + 1 : b[i] = list[(at + 1) + i - 1]
    <3> DEFINE m == at + 1
               n == Len(list)
    <3>1. m \in Int /\ n \in Int /\ \A i \in m .. n : list[i] \in S
      BY <1>1, <2>1
    <3> HIDE DEF m, n
    <3>2. /\ SubSeq(list, m, n) \in Seq(S)
          /\ Len(SubSeq(list, m, n)) = IF m <= n THEN n - m + 1 ELSE 0
          /\ \A i \in 1 .. n - m + 1 : SubSeq(list, m, n)[i] = list[m + i - 1]
      BY <3>1, SubSeqProperties
    <3> QED
      BY <3>2 DEF m, n
  <2>4. Len(b) = Len(list) - at
    BY <1>1, <2>3
  <2>5. ASSUME NEW i \in 1 .. Len(list) - at PROVE b[i] = list[at + i]
    <3>1. i \in 1 .. Len(list) - (at + 1) + 1 /\ (at + 1) + i - 1 = at + i
      BY <1>1
    <3>2. b[i] = list[(at + 1) + i - 1]
      BY <3>1, <2>3
    <3> QED
      BY <3>1, <3>2
  <2> QED
    BY <2>3, <2>4, <2>5
<1>4. new = a \o b
  BY DEF RemoveAt
<1> HIDE DEF a, b, new
<1>5. /\ new \in Seq(S) /\ Len(new) = Len(a) + Len(b)
      /\ \A i \in 1 .. Len(a) + Len(b) :
            new[i] = IF i <= Len(a) THEN a[i] ELSE b[i - Len(a)]
  BY <1>2, <1>3, <1>4, ConcatProperties
<1>6. ASSUME NEW i \in 1 .. Len(list) - 1
      PROVE  new[i] = IF i < at THEN list[i] ELSE list[i + 1]
  <2>0. new[i] = IF i <= at - 1 THEN a[i] ELSE b[i - (at - 1)]
    <3>1. i \in 1 .. Len(a) + Len(b) /\ Len(a) = at - 1
      BY <1>1, <1>2, <1>3
    <3> QED
      BY <3>1, <1>5
  <2>1. CASE i < at
    <3>1. i \in 1 .. at - 1
      BY <2>1, <1>1
    <3> QED
      BY <3>1, <2>1, <2>0, <1>1, <1>2
  <2>2. CASE i >= at
    <3>1. i - (at - 1) \in 1 .. Len(list) - at /\ new[i] = b[i - (at - 1)]
      BY <2>0, <2>2, <1>1
    <3>2. b[i - (at - 1)] = list[at + (i - (at - 1))] /\ at + (i - (at - 1)) = i + 1
      BY <3>1, <1>1, <1>3
    <3> QED
      BY <3>1, <3>2, <2>2, <1>1
  <2> QED
    BY <2>1, <2>2, <1>1
<1> QED
  BY <1>1, <1>2, <1>3, <1>5, <1>6 DEF new

--------------------------------------------------------------------------------
(* Who is on a list.                                                       *)

LEMMA ListTypes ==
    ASSUME NEW P, NEW list \in Seq(Entries(P))
    PROVE  /\ Len(list) \in Nat /\ DOMAIN list = 1 .. Len(list)
           /\ \A i \in 1 .. Len(list) :
                 list[i] \in Entries(P) /\ list[i].pid \in P /\ list[i].key \in Int
<1>1. \A i \in 1 .. Len(list) : list[i] \in Entries(P)
  BY ElementOfSeq
<1>2. \A i \in 1 .. Len(list) : list[i].pid \in P /\ list[i].key \in Int
  BY <1>1 DEF Entries
<1> QED
  BY <1>1, <1>2, LenProperties

(* Two lists of the same processes in the same order.                      *)
LEMMA SamePids ==
    ASSUME NEW P, NEW old \in Seq(Entries(P)), NEW new \in Seq(Entries(P)),
           Len(new) = Len(old), \A i \in 1 .. Len(old) : new[i].pid = old[i].pid
    PROVE  PidsOf(new) = PidsOf(old) /\ (Once(new) <=> Once(old))
<1>1. DOMAIN new = 1 .. Len(old) /\ DOMAIN old = 1 .. Len(old)
  BY ListTypes
<1> QED
  BY <1>1 DEF PidsOf, Once

LEMMA InsertAtPids ==
    ASSUME NEW P, NEW list \in Seq(Entries(P)), NEW at \in 1 .. Len(list) + 1,
           NEW e \in Entries(P)
    PROVE  LET new == InsertAt(list, at, e)
           IN  /\ new \in Seq(Entries(P))
               /\ PidsOf(new) = PidsOf(list) \cup {e.pid}
               /\ Once(list) /\ e.pid \notin PidsOf(list) => Once(new)
<1> DEFINE new == InsertAt(list, at, e)
<1>1. /\ new \in Seq(Entries(P)) /\ Len(new) = Len(list) + 1
      /\ \A i \in 1 .. Len(list) + 1 :
            new[i] = IF i < at THEN list[i] ELSE IF i = at THEN e ELSE list[i - 1]
  <2> DEFINE S == Entries(P)
  <2>1. list \in Seq(S) /\ e \in S /\ at \in 1 .. Len(list) + 1
    OBVIOUS
  <2> HIDE DEF S
  <2>2. /\ new \in Seq(S) /\ Len(new) = Len(list) + 1
        /\ \A i \in 1 .. Len(list) + 1 :
              new[i] = IF i < at THEN list[i] ELSE IF i = at THEN e ELSE list[i - 1]
    BY <2>1, InsertAtProps
  <2> QED
    BY <2>2 DEF S
<1> HIDE DEF new
<1>2. /\ Len(list) \in Nat /\ at \in Int
      /\ DOMAIN list = 1 .. Len(list) /\ DOMAIN new = 1 .. Len(list) + 1
  BY <1>1, ListTypes
<1>3. ASSUME NEW i \in 1 .. Len(list) + 1, i # at
      PROVE  \E j \in 1 .. Len(list) : new[i] = list[j] /\ j = IF i < at THEN i ELSE i - 1
  BY <1>1, <1>2, <1>3
<1>4. ASSUME NEW j \in 1 .. Len(list)
      PROVE  \E i \in 1 .. Len(list) + 1 : new[i] = list[j]
  <2>1. CASE j < at
    BY <2>1, <1>1, <1>2
  <2>2. CASE j >= at
    <3>1. j + 1 \in 1 .. Len(list) + 1 /\ ~(j + 1 < at) /\ j + 1 # at /\ (j + 1) - 1 = j
      BY <2>2, <1>2
    <3> QED
      BY <3>1, <1>1
  <2> QED
    BY <2>1, <2>2, <1>2
<1>5. PidsOf(new) = PidsOf(list) \cup {e.pid}
  <2>1. PidsOf(new) \subseteq PidsOf(list) \cup {e.pid}
    <3> SUFFICES ASSUME NEW i \in 1 .. Len(list) + 1
                 PROVE  new[i].pid \in PidsOf(list) \cup {e.pid}
      BY <1>2 DEF PidsOf
    <3>1. CASE i = at
      BY <3>1, <1>1, <1>2
    <3>2. CASE i # at
      BY <3>2, <1>2, <1>3 DEF PidsOf
    <3> QED
      BY <3>1, <3>2
  <2>2. PidsOf(list) \subseteq PidsOf(new)
    BY <1>2, <1>4 DEF PidsOf
  <2>3. e.pid \in PidsOf(new)
    <3>1. at \in DOMAIN new /\ new[at] = e
      BY <1>1, <1>2
    <3> QED
      BY <3>1 DEF PidsOf
  <2> QED
    BY <2>1, <2>2, <2>3
<1>6. ASSUME Once(list), e.pid \notin PidsOf(list) PROVE Once(new)
  <2> SUFFICES ASSUME NEW i \in 1 .. Len(list) + 1, NEW j \in 1 .. Len(list) + 1,
                      new[i].pid = new[j].pid
               PROVE  i = j
    BY <1>2 DEF Once
  <2>1. new[at].pid = e.pid
    BY <1>1, <1>2
  <2>2. \A x \in 1 .. Len(list) + 1 : x # at => new[x].pid # e.pid
    BY <1>2, <1>3, <1>6 DEF PidsOf
  <2>3. CASE i = at \/ j = at
    BY <2>1, <2>2, <2>3
  <2>4. CASE i # at /\ j # at
    <3>1. PICK x \in 1 .. Len(list) : new[i] = list[x] /\ x = IF i < at THEN i ELSE i - 1
      BY <1>3, <2>4
    <3>2. PICK y \in 1 .. Len(list) : new[j] = list[y] /\ y = IF j < at THEN j ELSE j - 1
      BY <1>3, <2>4
    <3>3. x = y
      BY <3>1, <3>2, <1>2, <1>6 DEF Once
    <3> QED
      BY <3>1, <3>2, <3>3, <2>4, <1>2
  <2> QED
    BY <2>3, <2>4
<1> QED
  BY <1>1, <1>5, <1>6 DEF new

LEMMA RemoveAtPids ==
    ASSUME NEW P, NEW list \in Seq(Entries(P)), NEW at \in 1 .. Len(list), Once(list)
    PROVE  LET new == RemoveAt(list, at)
           IN  /\ new \in Seq(Entries(P))
               /\ PidsOf(new) = PidsOf(list) \ {list[at].pid}
               /\ Once(new)
<1> DEFINE new == RemoveAt(list, at)
<1>1. /\ new \in Seq(Entries(P)) /\ Len(new) = Len(list) - 1
      /\ \A i \in 1 .. Len(list) - 1 : new[i] = IF i < at THEN list[i] ELSE list[i + 1]
  BY RemoveAtProps
<1> HIDE DEF new
<1>2. /\ Len(list) \in Nat /\ at \in Int
      /\ DOMAIN list = 1 .. Len(list) /\ DOMAIN new = 1 .. Len(list) - 1
  BY <1>1, ListTypes
<1>3. ASSUME NEW i \in 1 .. Len(list) - 1
      PROVE  \E j \in 1 .. Len(list) :
                new[i] = list[j] /\ j # at /\ j = IF i < at THEN i ELSE i + 1
  BY <1>1, <1>2
<1>4. ASSUME NEW j \in 1 .. Len(list), j # at
      PROVE  \E i \in 1 .. Len(list) - 1 : new[i] = list[j]
  <2>1. CASE j < at
    BY <2>1, <1>1, <1>2
  <2>2. CASE j > at
    <3>1. j - 1 \in 1 .. Len(list) - 1 /\ ~(j - 1 < at) /\ (j - 1) + 1 = j
      BY <2>2, <1>2
    <3> QED
      BY <3>1, <1>1
  <2> QED
    BY <2>1, <2>2, <1>2, <1>4
<1>5. PidsOf(new) = PidsOf(list) \ {list[at].pid}
  <2>1. PidsOf(new) \subseteq PidsOf(list) \ {list[at].pid}
    <3> SUFFICES ASSUME NEW i \in 1 .. Len(list) - 1
                 PROVE  new[i].pid \in PidsOf(list) \ {list[at].pid}
      BY <1>2 DEF PidsOf
    <3>1. PICK j \in 1 .. Len(list) : new[i] = list[j] /\ j # at
      BY <1>3
    <3>2. list[j].pid # list[at].pid
      BY <1>2, <3>1 DEF Once
    <3> QED
      BY <1>2, <3>1, <3>2 DEF PidsOf
  <2>2. PidsOf(list) \ {list[at].pid} \subseteq PidsOf(new)
    BY <1>2, <1>4 DEF PidsOf
  <2> QED
    BY <2>1, <2>2
<1>6. Once(new)
  <2> SUFFICES ASSUME NEW i \in 1 .. Len(list) - 1, NEW j \in 1 .. Len(list) - 1,
                      new[i].pid = new[j].pid
               PROVE  i = j
    BY <1>2 DEF Once
  <2>1. PICK x \in 1 .. Len(list) : new[i] = list[x] /\ x = IF i < at THEN i ELSE i + 1
    BY <1>3
  <2>2. PICK y \in 1 .. Len(list) : new[j] = list[y] /\ y = IF j < at THEN j ELSE j + 1
    BY <1>3
  <2>3. x = y
    BY <2>1, <2>2, <1>2 DEF Once
  <2> QED
    BY <2>1, <2>2, <2>3, <1>2
<1> QED
  BY <1>1, <1>5, <1>6 DEF new

--------------------------------------------------------------------------------
(* The operators of the lists.                                             *)

(* insert() finds a place, adds the process and nobody else.               *)
LEMMA InsertPids ==
    ASSUME NEW P, NEW list \in Seq(Entries(P)), NEW pid \in P, NEW key \in Int
    PROVE  LET new == Insert(list, pid, key)
           IN  /\ new \in Seq(Entries(P))
               /\ PidsOf(new) = PidsOf(list) \cup {pid}
               /\ Once(list) /\ pid \notin PidsOf(list) => Once(new)
<1> DEFINE Place(i) == /\ \A j \in 1 .. i - 1 : list[j].key >= key
                       /\ i <= Len(list) => list[i].key < key
           T == {i \in 1 .. Len(list) + 1 : i <= Len(list) => list[i].key < key}
           at == CHOOSE i \in 1 .. Len(list) + 1 : Place(i)
<1>1. Len(list) \in Nat /\ \A i \in 1 .. Len(list) : list[i].key \in Int
  BY ListTypes
<1>2. \E i \in 1 .. Len(list) + 1 : Place(i)
  <2>1. T \subseteq Nat /\ Len(list) + 1 \in T
    BY <1>1
  <2>2. PICK m \in T : \A x \in T : m <= x
    <3> HIDE DEF T
    <3> QED
      BY <2>1, Least
  <2>3. ASSUME NEW j \in 1 .. m - 1 PROVE list[j].key >= key
    <3>1. j \in 1 .. Len(list) + 1 /\ j <= Len(list) /\ ~(m <= j) /\ j \in 1 .. Len(list)
      BY <1>1, <2>2
    <3>2. ~(list[j].key < key)
      BY <3>1, <2>2
    <3> QED
      BY <3>1, <3>2, <1>1
  <2> QED
    BY <2>2, <2>3
<1>3. at \in 1 .. Len(list) + 1
  BY <1>2
<1>4. Entry(pid, key) \in Entries(P) /\ Entry(pid, key).pid = pid
  BY DEF Entry, Entries
<1>5. Insert(list, pid, key) = InsertAt(list, at, Entry(pid, key))
  BY DEF Insert
<1> HIDE DEF at
<1> QED
  BY <1>3, <1>4, <1>5, InsertAtPids

(* getitem() takes the process out of the place where it stands.           *)
LEMMA GetitemAt ==
    ASSUME NEW P, NEW list \in Seq(Entries(P)), NEW at \in 1 .. Len(list), Once(list)
    PROVE  Getitem(list, list[at].pid) = RemoveAt(list, at)
<1> DEFINE pid == list[at].pid
<1>1. DOMAIN list = 1 .. Len(list) /\ Len(list) \in Nat
  BY ListTypes
<1>2. list[at].pid = pid
  OBVIOUS
<1> HIDE DEF pid
<1>3. {i \in 1 .. Len(list) : list[i].pid = pid} = {at}
  BY <1>1, <1>2 DEF Once
<1>4. Min({at}) = at
  BY <1>1 DEF Min
<1>5. SelectInSeq(list, LAMBDA e : e.pid = pid) = at
  BY <1>3, <1>4 DEF SelectInSeq
<1>6. Getitem(list, pid) = RemoveAt(list, at)
  BY <1>2, <1>5 DEF Getitem, RemoveFirstMatch
<1> QED
  BY <1>6 DEF pid

(* getitem() removes the process, wherever it stands, and nobody else.     *)
LEMMA GetitemPids ==
    ASSUME NEW P, NEW list \in Seq(Entries(P)), NEW pid \in PidsOf(list), Once(list)
    PROVE  LET new == Getitem(list, pid)
           IN  /\ new \in Seq(Entries(P))
               /\ PidsOf(new) = PidsOf(list) \ {pid}
               /\ Once(new)
<1>1. PICK at \in 1 .. Len(list) : list[at].pid = pid
  BY ListTypes DEF PidsOf
<1>2. Getitem(list, pid) = RemoveAt(list, at)
  BY <1>1, GetitemAt
<1> QED
  BY <1>1, <1>2, RemoveAtPids

(* A process that is on the list stands somewhere on it.                   *)
LEMMA PosOfRange ==
    ASSUME NEW P, NEW list \in Seq(Entries(P)), NEW pid \in PidsOf(list)
    PROVE  PosOf(list, pid) \in 1 .. Len(list) /\ list[PosOf(list, pid)].pid = pid
BY ListTypes DEF PosOf, PidsOf

(* An entry gets another key.                                              *)
LEMMA ChangeKey ==
    ASSUME NEW P, NEW list \in Seq(Entries(P)), NEW i \in 1 .. Len(list),
           NEW e \in Entries(P), e.pid = list[i].pid
    PROVE  LET new == [list EXCEPT ![i] = e]
           IN  /\ new \in Seq(Entries(P)) /\ Len(new) = Len(list)
               /\ PidsOf(new) = PidsOf(list) /\ (Once(new) <=> Once(list))
<1> DEFINE S == Entries(P)
           new == [list EXCEPT ![i] = e]
<1>1. /\ new \in Seq(S) /\ Len(new) = Len(list)
      /\ \A j \in 1 .. Len(list) : new[j] = IF j = i THEN e ELSE list[j]
  <2>1. list \in Seq(S) /\ e \in S
    OBVIOUS
  <2> HIDE DEF S
  <2> QED
    BY <2>1, ExceptSeq
<1>2. \A j \in 1 .. Len(list) : new[j].pid = list[j].pid
  BY <1>1
<1>3. PidsOf(new) = PidsOf(list) /\ (Once(new) <=> Once(list))
  <2> HIDE DEF new
  <2> QED
    BY <1>1, <1>2, SamePids DEF S
<1> QED
  BY <1>1, <1>3

(* unsleep() does as getitem() does.                                       *)
LEMMA UnsleepPids ==
    ASSUME NEW P, NEW list \in Seq(Entries(P)), NEW pid \in PidsOf(list), Once(list)
    PROVE  LET new == Unsleep(list, pid)
           IN  /\ new \in Seq(Entries(P))
               /\ PidsOf(new) = PidsOf(list) \ {pid}
               /\ Once(new)
<1> DEFINE i == PosOf(list, pid)
           key == list[i + 1].key + list[i].key
           credited == [list EXCEPT ![i + 1].key = key]
<1>1. i \in 1 .. Len(list) /\ Len(list) \in Nat
      /\ \A j \in 1 .. Len(list) : list[j].key \in Int
  BY PosOfRange, ListTypes
<1>2. CASE i < Len(list)
  <2>1. i + 1 \in 1 .. Len(list) /\ key \in Int
    BY <1>1, <1>2
  <2>2. Unsleep(list, pid) = Getitem(credited, pid)
    BY <1>2 DEF Unsleep
  <2>3. credited \in Seq(Entries(P)) /\ PidsOf(credited) = PidsOf(list) /\ Once(credited)
    <3> DEFINE j == i + 1
               e == [list[j] EXCEPT !.key = key]
    <3>1. j \in 1 .. Len(list) /\ list[j] \in Entries(P)
      BY <2>1, ListTypes
    <3>2. e \in Entries(P) /\ e.pid = list[j].pid
      BY <2>1, <3>1 DEF Entries
    <3>3. credited = [list EXCEPT ![j] = e]
      OBVIOUS
    <3>4. /\ [list EXCEPT ![j] = e] \in Seq(Entries(P))
          /\ PidsOf([list EXCEPT ![j] = e]) = PidsOf(list)
          /\ Once([list EXCEPT ![j] = e])
      <4> HIDE DEF j, e
      <4> QED
        BY <3>1, <3>2, ChangeKey
    <3> QED
      BY <3>3, <3>4
  <2> HIDE DEF credited
  <2> QED
    BY <2>2, <2>3, GetitemPids
<1>3. CASE ~(i < Len(list))
  BY <1>3, GetitemPids DEF Unsleep
<1> QED
  BY <1>2, <1>3

(* A delay is the delay before it and one key more.                        *)
LEMMA DelaySums ==
    ASSUME NEW P, NEW list \in Seq(Entries(P))
    PROVE  /\ Delay(list, 0) = 0
           /\ \A i \in 1 .. Len(list) : Delay(list, i) = Delay(list, i - 1) + list[i].key
<1> DEFINE Sums(h) == h = [i \in 0 .. Len(list) |->
                              IF i = 0 THEN 0 ELSE h[i - 1] + list[i].key]
           sum == CHOOSE h : Sums(h)
           step == [i \in 1 .. Len(list) |-> [x \in Int |-> x + list[i].key]]
<1>1. Len(list) \in Nat /\ \A i \in 1 .. Len(list) : list[i].key \in Int
  BY ListTypes
<1>2. step \in [1 .. Len(list) -> [Int -> Int]]
  BY <1>1
<1>3. \A x \in Int : \A i \in 1 .. Len(list) : step[i][x] = x + list[i].key
  OBVIOUS
<1> HIDE DEF step
<1>4. PICK h \in [0 .. Len(list) -> Int] :
          h[0] = 0 /\ \A i \in 1 .. Len(list) : h[i] = step[i][h[i - 1]]
  <2> DEFINE len == Len(list)
             zero == 0
             Z == Int
  <2>1. len \in Nat /\ step \in [1 .. len -> [Z -> Z]] /\ zero \in Z
    BY <1>1, <1>2
  <2> HIDE DEF len, zero, Z
  <2>2. \E h \in [0 .. len -> Z] : Iterated(h, len, zero, step)
    BY <2>1, Iterates
  <2> QED
    BY <2>2 DEF len, zero, Z, Iterated
<1>5. \E f : Sums(f)
  <2>1. ASSUME NEW i \in 0 .. Len(list)
        PROVE  h[i] = IF i = 0 THEN 0 ELSE h[i - 1] + list[i].key
    <3>1. CASE i = 0
      BY <1>4, <3>1
    <3>2. CASE i # 0
      <4>1. i \in 1 .. Len(list) /\ i - 1 \in 0 .. Len(list)
        BY <1>1, <3>2
      <4>2. h[i - 1] \in Int
        BY <1>4, <4>1
      <4> QED
        BY <1>3, <1>4, <3>2, <4>1, <4>2
    <3> QED
      BY <3>1, <3>2
  <2>2. h = [i \in 0 .. Len(list) |-> IF i = 0 THEN 0 ELSE h[i - 1] + list[i].key]
    BY <1>4, <2>1
  <2> QED
    BY <2>2
<1>6. Sums(sum)
  BY <1>5
<1>7. \A n : Delay(list, n) = sum[n]
  BY DEF Delay
<1>8. \A i \in 0 .. Len(list) : sum[i] = IF i = 0 THEN 0 ELSE sum[i - 1] + list[i].key
  <2> HIDE DEF sum
  <2> QED
    BY <1>6
<1> HIDE DEF sum
<1>9. sum[0] = 0 /\ \A i \in 1 .. Len(list) : sum[i] = sum[i - 1] + list[i].key
  BY <1>1, <1>8
<1> QED
  BY <1>7, <1>9

(* The delays on a list are numbers.                                       *)
LEMMA DelayInt ==
    ASSUME NEW P, NEW list \in Seq(Entries(P)), NEW n \in 0 .. Len(list)
    PROVE  Delay(list, n) \in Int
<1> DEFINE U == {m \in 0 .. Len(list) : Delay(list, m) \in Int}
<1>1. Len(list) \in Nat /\ \A i \in 1 .. Len(list) : list[i].key \in Int
  BY ListTypes
<1>2. /\ Delay(list, 0) = 0
      /\ \A i \in 1 .. Len(list) : Delay(list, i) = Delay(list, i - 1) + list[i].key
  BY DelaySums
<1>3. 0 \in U
  BY <1>1, <1>2
<1>4. ASSUME NEW i \in 1 .. Len(list), i - 1 \in U PROVE i \in U
  BY <1>1, <1>2, <1>4
<1> HIDE DEF U
<1>5. \A i \in 0 .. Len(list) : i \in U
  BY <1>1, <1>3, <1>4, Ascent
<1> QED
  BY <1>5 DEF U

LEMMA ChangedKeys ==
    ASSUME NEW P, NEW list \in Seq(Entries(P)), NEW i \in 1 .. Len(list), NEW k \in Int
    PROVE  LET new == [list EXCEPT ![i].key = k]
           IN  /\ new \in Seq(Entries(P)) /\ Len(new) = Len(list)
               /\ \A j \in 1 .. Len(list) : new[j].pid = list[j].pid
               /\ \A j \in 1 .. Len(list) : j # i => new[j] = list[j]
               /\ new[i].key = k
<1> DEFINE S == Entries(P)
           e == [list[i] EXCEPT !.key = k]
           new == [list EXCEPT ![i] = e]
<1>1. list[i] \in Entries(P)
  BY ListTypes
<1>2. e \in Entries(P) /\ e.pid = list[i].pid /\ e.key = k
  BY <1>1 DEF Entries
<1>3. [list EXCEPT ![i].key = k] = new
  OBVIOUS
<1>4. list \in Seq(S) /\ e \in S
  BY <1>2
<1> HIDE DEF S, e
<1>5. /\ new \in Seq(S) /\ Len(new) = Len(list)
      /\ \A j \in 1 .. Len(list) : new[j] = IF j = i THEN e ELSE list[j]
  BY <1>4, ExceptSeq
<1> HIDE DEF new
<1>6. /\ new \in Seq(Entries(P)) /\ Len(new) = Len(list)
      /\ \A j \in 1 .. Len(list) : new[j].pid = list[j].pid
      /\ \A j \in 1 .. Len(list) : j # i => new[j] = list[j]
      /\ new[i].key = k
  BY <1>2, <1>5 DEF S
<1> QED
  BY <1>3, <1>6

(* Where insertd() stops.                                                  *)
LEMMA InsertdPlace ==
    ASSUME NEW P, NEW list \in Seq(Entries(P)), NEW key \in Int
    PROVE  \E i \in 1 .. Len(list) + 1 :
               /\ \A j \in 1 .. i - 1 : Delay(list, j) <= key
               /\ i <= Len(list) => Delay(list, i) > key
<1> DEFINE Place(i) == /\ \A j \in 1 .. i - 1 : Delay(list, j) <= key
                       /\ i <= Len(list) => Delay(list, i) > key
           T == {i \in 1 .. Len(list) + 1 : i <= Len(list) => Delay(list, i) > key}
<1>1. /\ Len(list) \in Nat
      /\ \A i \in 0 .. Len(list) : Delay(list, i) \in Int
  BY ListTypes, DelayInt
<1>2. T \subseteq Nat /\ Len(list) + 1 \in T
  BY <1>1
<1>3. PICK m \in T : \A x \in T : m <= x
  <2> HIDE DEF T
  <2> QED
    BY <1>2, Least
<1>4. ASSUME NEW j \in 1 .. m - 1 PROVE Delay(list, j) <= key
  <2>1. /\ j \in 1 .. Len(list) + 1 /\ j <= Len(list) /\ ~(m <= j)
        /\ j \in 0 .. Len(list)
    BY <1>1, <1>3
  <2>2. ~(Delay(list, j) > key)
    BY <2>1, <1>3
  <2> QED
    BY <2>1, <2>2, <1>1
<1> QED
  BY <1>3, <1>4

(* new is what insertd() makes of a list, if it puts the process at entry  *)
(* at: behind those that are due no later; the first behind it gives up    *)
(* what it has left.                                                       *)
InsertedAt(list, pid, key, at, new) ==
    LET rest == key - Delay(list, at - 1)
    IN  /\ \A j \in 1 .. at - 1 : Delay(list, j) <= key
        /\ at <= Len(list) => Delay(list, at) > key
        /\ Len(new) = Len(list) + 1
        /\ \A i \in 1 .. at - 1 : new[i] = list[i]
        /\ new[at].pid = pid /\ new[at].key = rest
        /\ \A i \in at .. Len(list) :
              /\ new[i + 1].pid = list[i].pid
              /\ new[i + 1].key = IF i = at THEN list[i].key - rest ELSE list[i].key

LEMMA InsertdEntries ==
    ASSUME NEW P, NEW list \in Seq(Entries(P)), NEW pid \in P, NEW key \in Int
    PROVE  /\ Insertd(list, pid, key) \in Seq(Entries(P))
           /\ \E at \in 1 .. Len(list) + 1 :
                 InsertedAt(list, pid, key, at, Insertd(list, pid, key))
<1> DEFINE Place(i) == /\ \A j \in 1 .. i - 1 : Delay(list, j) <= key
                       /\ i <= Len(list) => Delay(list, i) > key
           at == CHOOSE i \in 1 .. Len(list) + 1 : Place(i)
           rest == key - Delay(list, at - 1)
           short == list[at].key - rest
           behind == IF at <= Len(list) THEN [list EXCEPT ![at].key = short] ELSE list
           new == InsertAt(behind, at, Entry(pid, rest))
<1>1. /\ Len(list) \in Nat /\ \A i \in 1 .. Len(list) : list[i].key \in Int
      /\ \A i \in 0 .. Len(list) : Delay(list, i) \in Int
  BY ListTypes, DelayInt
<1>2. at \in 1 .. Len(list) + 1 /\ Place(at)
  BY InsertdPlace
<1>3. Insertd(list, pid, key) = new
  BY DEF Insertd
<1> HIDE DEF at
<1>4. rest \in Int
  <2>1. at - 1 \in 0 .. Len(list)
    BY <1>1, <1>2
  <2> QED
    BY <2>1, <1>1
<1> HIDE DEF rest
<1>5. /\ behind \in Seq(Entries(P)) /\ Len(behind) = Len(list)
      /\ \A i \in 1 .. Len(list) : behind[i].pid = list[i].pid
      /\ \A i \in 1 .. Len(list) : i # at => behind[i] = list[i]
      /\ at <= Len(list) => behind[at].key = list[at].key - rest
  <2>1. CASE at <= Len(list)
    <3>1. at \in 1 .. Len(list) /\ short \in Int
      BY <2>1, <1>1, <1>2, <1>4
    <3>2. behind = [list EXCEPT ![at].key = short]
      BY <2>1
    <3>3. short = list[at].key - rest
      OBVIOUS
    <3> HIDE DEF short, behind
    <3> QED
      BY <3>1, <3>2, <3>3, ChangedKeys
  <2>2. CASE ~(at <= Len(list))
    BY <2>2, <1>1, <1>2
  <2> QED
    BY <2>1, <2>2
<1>6. Entry(pid, rest) \in Entries(P) /\ Entry(pid, rest).pid = pid /\ Entry(pid, rest).key = rest
  BY <1>4 DEF Entry, Entries
<1> HIDE DEF behind
<1>7. /\ new \in Seq(Entries(P)) /\ Len(new) = Len(list) + 1
      /\ \A i \in 1 .. Len(list) + 1 :
            new[i] = IF i < at THEN behind[i] ELSE IF i = at THEN Entry(pid, rest)
                     ELSE behind[i - 1]
  <2> DEFINE S == Entries(P)
             e == Entry(pid, rest)
  <2>1. behind \in Seq(S) /\ e \in S /\ at \in 1 .. Len(behind) + 1
    BY <1>2, <1>5, <1>6
  <2> HIDE DEF S, e
  <2>2. LET x == InsertAt(behind, at, e)
        IN  /\ x \in Seq(S) /\ Len(x) = Len(behind) + 1
            /\ \A i \in 1 .. Len(behind) + 1 :
                  x[i] = IF i < at THEN behind[i] ELSE IF i = at THEN e ELSE behind[i - 1]
    BY <2>1, InsertAtProps
  <2> QED
    BY <1>5, <2>2 DEF S, e
<1> HIDE DEF new
<1>8. \A i \in 1 .. at - 1 : new[i] = list[i]
  <2>1. \A i \in 1 .. at - 1 :
            i \in 1 .. Len(list) + 1 /\ i < at /\ i \in 1 .. Len(list) /\ i # at
    BY <1>1, <1>2
  <2> QED
    BY <1>5, <1>7, <2>1
<1>9. new[at].pid = pid /\ new[at].key = rest
  BY <1>2, <1>6, <1>7
<1>10. \A i \in at .. Len(list) :
          /\ new[i + 1].pid = list[i].pid
          /\ new[i + 1].key = IF i = at THEN list[i].key - rest ELSE list[i].key
  <2> SUFFICES ASSUME NEW i \in at .. Len(list)
               PROVE  /\ new[i + 1].pid = list[i].pid
                      /\ new[i + 1].key = IF i = at THEN list[i].key - rest ELSE list[i].key
    OBVIOUS
  <2>1. i + 1 \in 1 .. Len(list) + 1 /\ i \in 1 .. Len(list) /\ ~(i + 1 < at) /\ i + 1 # at
        /\ (i + 1) - 1 = i
    BY <1>1, <1>2
  <2>2. new[i + 1] = behind[i]
    BY <1>7, <2>1
  <2> QED
    BY <1>5, <2>1, <2>2
<1>11. InsertedAt(list, pid, key, at, new)
  BY <1>2, <1>7, <1>8, <1>9, <1>10 DEF InsertedAt, rest
<1> QED
  BY <1>2, <1>3, <1>7, <1>11

(* insertd() adds the process and nobody else.                             *)
LEMMA InsertdPids ==
    ASSUME NEW P, NEW list \in Seq(Entries(P)), NEW pid \in P, NEW key \in Int
    PROVE  LET new == Insertd(list, pid, key)
           IN  /\ new \in Seq(Entries(P))
               /\ PidsOf(new) = PidsOf(list) \cup {pid}
               /\ Once(list) /\ pid \notin PidsOf(list) => Once(new)
<1> DEFINE new == Insertd(list, pid, key)
<1>1. PICK at \in 1 .. Len(list) + 1 : InsertedAt(list, pid, key, at, new)
  BY InsertdEntries
<1>2. /\ new \in Seq(Entries(P)) /\ Len(new) = Len(list) + 1
      /\ \A i \in 1 .. at - 1 : new[i] = list[i]
      /\ new[at].pid = pid
      /\ \A i \in at .. Len(list) : new[i + 1].pid = list[i].pid
  <2>1. new \in Seq(Entries(P))
    BY InsertdEntries
  <2> HIDE DEF new
  <2> QED
    BY <1>1, <2>1 DEF InsertedAt
<1> HIDE DEF new
<1> DEFINE From(i) == IF i < at THEN i ELSE i - 1
<1>3. /\ Len(list) \in Nat /\ at \in Int
      /\ DOMAIN list = 1 .. Len(list) /\ DOMAIN new = 1 .. Len(list) + 1
  BY <1>2, ListTypes
<1>4. \A i \in 1 .. Len(list) + 1 :
          i # at => From(i) \in 1 .. Len(list) /\ new[i].pid = list[From(i)].pid
  <2> SUFFICES ASSUME NEW i \in 1 .. Len(list) + 1, i # at
               PROVE  From(i) \in 1 .. Len(list) /\ new[i].pid = list[From(i)].pid
    OBVIOUS
  <2>1. CASE i < at
    <3>1. i \in 1 .. at - 1 /\ i \in 1 .. Len(list)
      BY <1>3, <2>1
    <3> QED
      BY <1>2, <2>1, <3>1
  <2>2. CASE ~(i < at)
    <3>1. i - 1 \in at .. Len(list) /\ (i - 1) + 1 = i /\ i - 1 \in 1 .. Len(list)
      BY <1>3, <2>2
    <3>2. new[(i - 1) + 1].pid = list[i - 1].pid
      BY <1>2, <3>1
    <3> QED
      BY <2>2, <3>1, <3>2
  <2> QED
    BY <2>1, <2>2
<1>5. \A j \in 1 .. Len(list) : \E i \in 1 .. Len(list) + 1 : i # at /\ From(i) = j
  <2> SUFFICES ASSUME NEW j \in 1 .. Len(list)
               PROVE  \E i \in 1 .. Len(list) + 1 : i # at /\ From(i) = j
    OBVIOUS
  <2>1. CASE j < at
    BY <1>3, <2>1
  <2>2. CASE ~(j < at)
    <3>1. j + 1 \in 1 .. Len(list) + 1 /\ j + 1 # at /\ From(j + 1) = j
      BY <1>3, <2>2
    <3> QED
      BY <3>1
  <2> QED
    BY <2>1, <2>2
<1>6. \A i, j \in 1 .. Len(list) + 1 : i # at /\ j # at /\ From(i) = From(j) => i = j
  BY <1>3
<1> HIDE DEF From
<1>7. PidsOf(new) = PidsOf(list) \cup {pid}
  <2>1. ASSUME NEW p \in PidsOf(new) PROVE p \in PidsOf(list) \cup {pid}
    BY <1>2, <1>3, <1>4 DEF PidsOf
  <2>2. ASSUME NEW p \in PidsOf(list) PROVE p \in PidsOf(new)
    <3>1. PICK j \in 1 .. Len(list) : list[j].pid = p
      BY <1>3 DEF PidsOf
    <3>2. PICK i \in 1 .. Len(list) + 1 : i # at /\ From(i) = j
      BY <1>5
    <3>3. new[i].pid = p
      BY <1>4, <3>1, <3>2
    <3> QED
      BY <1>3, <3>3 DEF PidsOf
  <2>3. pid \in PidsOf(new)
    BY <1>2, <1>3 DEF PidsOf
  <2> QED
    BY <2>1, <2>2, <2>3
<1>8. ASSUME Once(list), pid \notin PidsOf(list) PROVE Once(new)
  <2>1. \A i \in 1 .. Len(list) + 1 : i # at => new[i].pid # pid
    BY <1>3, <1>4, <1>8 DEF PidsOf
  <2>2. ASSUME NEW i \in 1 .. Len(list) + 1, NEW j \in 1 .. Len(list) + 1,
               new[i].pid = new[j].pid
        PROVE  i = j
    <3>1. CASE i = at \/ j = at
      BY <1>2, <2>1, <2>2, <3>1
    <3>2. CASE i # at /\ j # at
      <4>1. From(i) = From(j)
        BY <1>3, <1>4, <1>8, <2>2, <3>2 DEF Once
      <4> QED
        BY <1>6, <3>2, <4>1
    <3> QED
      BY <3>1, <3>2
  <2> QED
    BY <1>3, <2>2 DEF Once
<1> QED
  BY <1>2, <1>7, <1>8 DEF new

(* How many elements SubSeq takes.                                         *)
LEMMA Behind ==
    ASSUME NEW len \in Nat, NEW n \in 0 .. len, NEW m,
           m = IF n + 1 <= len THEN len - (n + 1) + 1 ELSE 0
    PROVE  m = len - n
<1>1. CASE n + 1 <= len
  BY <1>1
<1>2. CASE ~(n + 1 <= len)
  BY <1>2
<1> QED
  BY <1>1, <1>2

(* What is behind the front of a list.                                     *)
LEMMA SplitEntries ==
    ASSUME NEW P, NEW list \in Seq(Entries(P)), NEW n \in 0 .. Len(list)
    PROVE  LET rest == SubSeq(list, n + 1, Len(list))
           IN  /\ rest \in Seq(Entries(P)) /\ Len(rest) = Len(list) - n
               /\ \A i \in 1 .. Len(list) - n : rest[i] = list[n + i]
<1> DEFINE rest == SubSeq(list, n + 1, Len(list))
<1>1. Len(list) \in Nat /\ DOMAIN list = 1 .. Len(list) /\ n \in Int /\ n + 1 \in Int
  BY ListTypes
<1>2. /\ rest \in Seq(Entries(P)) /\ Len(rest) = Len(list) - n
      /\ \A i \in 1 .. Len(list) - n : rest[i] = list[n + i]
  <2> DEFINE S == Entries(P)
  <2>1. \A i \in n + 1 .. Len(list) : list[i] \in S
    BY <1>1, ListTypes
  <2> HIDE DEF S
  <2>2. /\ rest \in Seq(S)
        /\ Len(rest) = IF n + 1 <= Len(list) THEN Len(list) - (n + 1) + 1 ELSE 0
        /\ \A i \in 1 .. Len(list) - (n + 1) + 1 : rest[i] = list[(n + 1) + i - 1]
    BY <1>1, <2>1, SubSeqProperties
  <2> HIDE DEF rest
  <2>3. Len(rest) = Len(list) - n
    BY <1>1, <2>2, Behind
  <2>4. ASSUME NEW i \in 1 .. Len(list) - n PROVE rest[i] = list[n + i]
    <3>1. i \in 1 .. Len(list) - (n + 1) + 1 /\ (n + 1) + i - 1 = n + i
      BY <1>1
    <3>2. rest[i] = list[(n + 1) + i - 1]
      BY <3>1, <2>2
    <3> QED
      BY <3>1, <3>2
  <2> QED
    BY <2>2, <2>3, <2>4 DEF S
<1> QED
  BY <1>2

(* Who is behind the front of a list.                                      *)
LEMMA SplitPids ==
    ASSUME NEW P, NEW list \in Seq(Entries(P)), NEW n \in 0 .. Len(list), Once(list)
    PROVE  LET rest == SubSeq(list, n + 1, Len(list))
           IN  /\ rest \in Seq(Entries(P))
               /\ PidsOf(rest) = {list[i].pid : i \in n + 1 .. Len(list)}
               /\ Once(rest)
<1> DEFINE rest == SubSeq(list, n + 1, Len(list))
<1>1. Len(list) \in Nat /\ DOMAIN list = 1 .. Len(list) /\ n \in Int /\ n + 1 \in Int
  BY ListTypes
<1>2. /\ rest \in Seq(Entries(P)) /\ Len(rest) = Len(list) - n
      /\ \A i \in 1 .. Len(list) - n : rest[i] = list[n + i]
  BY SplitEntries
<1> HIDE DEF rest
<1>3. DOMAIN rest = 1 .. Len(list) - n
  BY <1>2, ListTypes
<1>4. PidsOf(rest) = {list[i].pid : i \in n + 1 .. Len(list)}
  <2>1. \A i \in 1 .. Len(list) - n : n + i \in n + 1 .. Len(list)
    BY <1>1
  <2>2. ASSUME NEW j \in n + 1 .. Len(list)
        PROVE  j - n \in 1 .. Len(list) - n /\ rest[j - n] = list[j]
    <3>1. j - n \in 1 .. Len(list) - n /\ n + (j - n) = j
      BY <1>1
    <3>2. rest[j - n] = list[n + (j - n)]
      BY <3>1, <1>2
    <3> QED
      BY <3>1, <3>2
  <2>3. PidsOf(rest) \subseteq {list[i].pid : i \in n + 1 .. Len(list)}
    BY <1>2, <1>3, <2>1 DEF PidsOf
  <2>4. {list[i].pid : i \in n + 1 .. Len(list)} \subseteq PidsOf(rest)
    <3> SUFFICES ASSUME NEW j \in n + 1 .. Len(list) PROVE list[j].pid \in PidsOf(rest)
      OBVIOUS
    <3>1. j - n \in DOMAIN rest /\ rest[j - n].pid = list[j].pid
      BY <2>2, <1>3
    <3> QED
      BY <3>1 DEF PidsOf
  <2> QED
    BY <2>3, <2>4
<1>5. Once(rest)
  <2> SUFFICES ASSUME NEW i \in 1 .. Len(list) - n, NEW j \in 1 .. Len(list) - n,
                      rest[i].pid = rest[j].pid
               PROVE  i = j
    BY <1>3 DEF Once
  <2>1. n + i \in DOMAIN list /\ n + j \in DOMAIN list
    BY <1>1
  <2>2. n + i = n + j
    BY <2>1, <1>2 DEF Once
  <2> QED
    BY <2>2, <1>1
<1> QED
  BY <1>2, <1>4, <1>5 DEF rest

(* The first process of a list is taken off.                               *)
LEMMA TailPids ==
    ASSUME NEW P, NEW list \in Seq(Entries(P)), Once(list), list # <<>>
    PROVE  /\ Head(list).pid \in P /\ Head(list).pid \in PidsOf(list)
           /\ Head(list).key \in Int
           /\ Tail(list) \in Seq(Entries(P))
           /\ PidsOf(Tail(list)) = PidsOf(list) \ {Head(list).pid}
           /\ Once(Tail(list))
<1>1. Len(list) \in Nat /\ DOMAIN list = 1 .. Len(list) /\ 1 \in 1 .. Len(list)
  <2>1. Len(list) # 0
    BY EmptySeq
  <2> QED
    BY <2>1, ListTypes
<1>2. Head(list) = list[1]
  BY <1>1
<1> DEFINE rest == SubSeq(list, 1 + 1, Len(list))
<1>3. Tail(list) = rest
  <2> DEFINE S == Entries(P)
  <2> HIDE DEF S
  <2>1. list \in Seq(S)
    BY DEF S
  <2> QED
    BY <2>1, TailIsSubSeq
<1>4. /\ rest \in Seq(Entries(P))
      /\ PidsOf(rest) = {list[i].pid : i \in 1 + 1 .. Len(list)}
      /\ Once(rest)
  <2>1. 1 \in 0 .. Len(list)
    BY <1>1
  <2> QED
    BY <2>1, SplitPids
<1> HIDE DEF rest
<1>5. {list[i].pid : i \in 1 + 1 .. Len(list)} = PidsOf(list) \ {list[1].pid}
  <2>1. \A i \in 1 .. Len(list) : i = 1 \/ i \in 1 + 1 .. Len(list)
    BY <1>1
  <2>2. \A i \in 1 + 1 .. Len(list) : i \in 1 .. Len(list) /\ i # 1
    BY <1>1
  <2> QED
    BY <1>1, <2>1, <2>2 DEF PidsOf, Once
<1>6. list[1].pid \in PidsOf(list)
  BY <1>1 DEF PidsOf
<1>7. list[1].pid \in P /\ list[1].key \in Int
  BY <1>1, ListTypes
<1> QED
  BY <1>2, <1>3, <1>4, <1>5, <1>6, <1>7

--------------------------------------------------------------------------------
(* Queues of processes.                                                    *)

LEMMA AppendRange ==
    ASSUME NEW P, NEW q \in Seq(P), NEW p \in P, IsInjective(q), p \notin Range(q)
    PROVE  /\ Append(q, p) \in Seq(P) /\ Len(Append(q, p)) = Len(q) + 1
           /\ IsInjective(Append(q, p))
           /\ Range(Append(q, p)) = Range(q) \cup {p}
<1> DEFINE r == Append(q, p)
<1>1. /\ r \in Seq(P) /\ Len(r) = Len(q) + 1 /\ Len(q) \in Nat
      /\ \A i \in 1 .. Len(q) : r[i] = q[i]
      /\ r[Len(q) + 1] = p
  BY AppendProperties, LenProperties
<1> HIDE DEF r
<1>2. DOMAIN q = 1 .. Len(q) /\ DOMAIN r = 1 .. Len(q) + 1
  BY <1>1, LenProperties
<1>3. \A i \in 1 .. Len(q) + 1 : i \in 1 .. Len(q) \/ i = Len(q) + 1
  BY <1>1
<1>4. IsInjective(r)
  BY <1>1, <1>2, <1>3 DEF IsInjective, Range
<1>5. Range(r) = Range(q) \cup {p}
  <2>1. Range(r) \subseteq Range(q) \cup {p}
    BY <1>1, <1>2, <1>3 DEF Range
  <2>2. Range(q) \cup {p} \subseteq Range(r)
    BY <1>1, <1>2 DEF Range
  <2> QED
    BY <2>1, <2>2
<1> QED
  BY <1>1, <1>4, <1>5 DEF r

LEMMA SplitRange ==
    ASSUME NEW P, NEW q \in Seq(P), NEW n \in 0 .. Len(q), IsInjective(q)
    PROVE  LET front == SubSeq(q, 1, n)
               rest == SubSeq(q, n + 1, Len(q))
           IN  /\ front \in Seq(P) /\ Len(front) = n
               /\ \A i \in 1 .. n : front[i] = q[i]
               /\ IsInjective(front)
               /\ rest \in Seq(P) /\ Len(rest) = Len(q) - n
               /\ \A i \in 1 .. Len(q) - n : rest[i] = q[n + i]
               /\ IsInjective(rest)
               /\ Range(front) = {q[i] : i \in 1 .. n}
               /\ Range(rest) = Range(q) \ Range(front)
<1> DEFINE front == SubSeq(q, 1, n)
           rest == SubSeq(q, n + 1, Len(q))
<1>1. /\ Len(q) \in Nat /\ DOMAIN q = 1 .. Len(q) /\ n \in Int /\ n + 1 \in Int
      /\ \A i \in 1 .. Len(q) : q[i] \in P
  BY LenProperties, ElementOfSeq
<1>2. /\ front \in Seq(P) /\ Len(front) = n
      /\ \A i \in 1 .. n : front[i] = q[i]
  <2>1. \A i \in 1 .. n : q[i] \in P
    BY <1>1
  <2>2. /\ front \in Seq(P) /\ Len(front) = IF 1 <= n THEN n - 1 + 1 ELSE 0
        /\ \A i \in 1 .. n - 1 + 1 : front[i] = q[1 + i - 1]
    BY <1>1, <2>1, SubSeqProperties
  <2> QED
    BY <1>1, <2>2
<1>3. /\ rest \in Seq(P) /\ Len(rest) = Len(q) - n
      /\ \A i \in 1 .. Len(q) - n : rest[i] = q[n + i]
  <2>1. \A i \in n + 1 .. Len(q) : q[i] \in P
    BY <1>1
  <2>2. /\ rest \in Seq(P)
        /\ Len(rest) = IF n + 1 <= Len(q) THEN Len(q) - (n + 1) + 1 ELSE 0
        /\ \A i \in 1 .. Len(q) - (n + 1) + 1 : rest[i] = q[(n + 1) + i - 1]
    BY <1>1, <2>1, SubSeqProperties
  <2> HIDE DEF rest
  <2>3. Len(rest) = Len(q) - n
    BY <1>1, <2>2, Behind
  <2>4. ASSUME NEW i \in 1 .. Len(q) - n PROVE rest[i] = q[n + i]
    <3>1. i \in 1 .. Len(q) - (n + 1) + 1 /\ (n + 1) + i - 1 = n + i
      BY <1>1
    <3>2. rest[i] = q[(n + 1) + i - 1]
      BY <3>1, <2>2
    <3> QED
      BY <3>1, <3>2
  <2> QED
    BY <2>2, <2>3, <2>4
<1> HIDE DEF front, rest
<1>4. DOMAIN front = 1 .. n /\ DOMAIN rest = 1 .. Len(q) - n
  BY <1>2, <1>3, LenProperties
<1>5. IsInjective(front)
  BY <1>1, <1>2, <1>4 DEF IsInjective
<1>6. IsInjective(rest)
  <2> SUFFICES ASSUME NEW i \in 1 .. Len(q) - n, NEW j \in 1 .. Len(q) - n, rest[i] = rest[j]
               PROVE  i = j
    BY <1>4 DEF IsInjective
  <2>1. n + i \in DOMAIN q /\ n + j \in DOMAIN q
    BY <1>1
  <2>2. n + i = n + j
    BY <2>1, <1>3 DEF IsInjective
  <2> QED
    BY <2>2, <1>1
<1>7. Range(front) = {q[i] : i \in 1 .. n}
  BY <1>2, <1>4 DEF Range
<1>8. Range(rest) = Range(q) \ Range(front)
  <2>1. ASSUME NEW i \in 1 .. Len(q) - n PROVE rest[i] \in Range(q) \ Range(front)
    <3>1. n + i \in DOMAIN q /\ rest[i] = q[n + i]
      BY <1>1, <1>3
    <3>2. \A j \in 1 .. n : j \in DOMAIN q /\ j # n + i
      BY <1>1
    <3> QED
      BY <3>1, <3>2, <1>7 DEF Range, IsInjective
  <2>2. ASSUME NEW j \in 1 .. Len(q), q[j] \notin Range(front) PROVE q[j] \in Range(rest)
    <3>1. j \notin 1 .. n
      BY <2>2, <1>7
    <3>2. j - n \in 1 .. Len(q) - n /\ n + (j - n) = j
      BY <3>1, <1>1
    <3>3. rest[j - n] = q[n + (j - n)]
      BY <3>2, <1>3
    <3> QED
      BY <3>2, <3>3, <1>4 DEF Range
  <2>3. Range(rest) \subseteq Range(q) \ Range(front)
    BY <2>1, <1>4 DEF Range
  <2>4. Range(q) \ Range(front) \subseteq Range(rest)
    BY <2>2, <1>1 DEF Range
  <2> QED
    BY <2>3, <2>4
<1> QED
  BY <1>2, <1>3, <1>5, <1>6, <1>7, <1>8 DEF front, rest

LEMMA RemoveFirstRange ==
    ASSUME NEW P, NEW q \in Seq(P), NEW p \in Range(q), IsInjective(q)
    PROVE  LET new == RemoveFirst(q, p)
           IN  /\ new \in Seq(P) /\ Len(new) = Len(q) - 1
               /\ IsInjective(new)
               /\ Range(new) = Range(q) \ {p}
<1>1. DOMAIN q = 1 .. Len(q) /\ Len(q) \in Nat
  BY LenProperties
<1>2. PICK at \in 1 .. Len(q) : q[at] = p
  BY <1>1 DEF Range
<1>3. {i \in 1 .. Len(q) : q[i] = p} = {at}
  BY <1>1, <1>2 DEF IsInjective
<1>4. Min({at}) = at
  BY <1>1, <1>2 DEF Min
<1>5. SelectInSeq(q, LAMBDA v : v = p) = at
  BY <1>3, <1>4 DEF SelectInSeq
<1> DEFINE new == RemoveAt(q, at)
<1>6. RemoveFirst(q, p) = new
  BY <1>2, <1>5 DEF RemoveFirst
<1>7. /\ new \in Seq(P) /\ Len(new) = Len(q) - 1
      /\ \A i \in 1 .. Len(q) - 1 : new[i] = IF i < at THEN q[i] ELSE q[i + 1]
  BY RemoveAtProps
<1> HIDE DEF new
<1>8. DOMAIN new = 1 .. Len(q) - 1 /\ at \in Int
  BY <1>7, LenProperties
<1>9. ASSUME NEW i \in 1 .. Len(q) - 1
      PROVE  \E j \in 1 .. Len(q) : new[i] = q[j] /\ j # at /\ j = IF i < at THEN i ELSE i + 1
  BY <1>1, <1>7, <1>8
<1>10. ASSUME NEW j \in 1 .. Len(q), j # at
       PROVE  \E i \in 1 .. Len(q) - 1 : new[i] = q[j]
  <2>1. CASE j < at
    BY <2>1, <1>1, <1>7
  <2>2. CASE j > at
    <3>1. j - 1 \in 1 .. Len(q) - 1 /\ ~(j - 1 < at) /\ (j - 1) + 1 = j
      BY <2>2, <1>1
    <3> QED
      BY <3>1, <1>7
  <2> QED
    BY <2>1, <2>2, <1>1, <1>10
<1>11. Range(new) = Range(q) \ {p}
  <2>1. Range(new) \subseteq Range(q) \ {p}
    BY <1>1, <1>2, <1>8, <1>9 DEF Range, IsInjective
  <2>2. Range(q) \ {p} \subseteq Range(new)
    BY <1>1, <1>2, <1>8, <1>10 DEF Range
  <2> QED
    BY <2>1, <2>2
<1>12. IsInjective(new)
  <2> SUFFICES ASSUME NEW i \in 1 .. Len(q) - 1, NEW j \in 1 .. Len(q) - 1, new[i] = new[j]
               PROVE  i = j
    BY <1>8 DEF IsInjective
  <2>1. PICK x \in 1 .. Len(q) : new[i] = q[x] /\ x = IF i < at THEN i ELSE i + 1
    BY <1>9
  <2>2. PICK y \in 1 .. Len(q) : new[j] = q[y] /\ y = IF j < at THEN j ELSE j + 1
    BY <1>9
  <2>3. x = y
    BY <2>1, <2>2, <1>1 DEF IsInjective
  <2> QED
    BY <2>1, <2>2, <2>3, <1>1
<1> QED
  BY <1>6, <1>7, <1>11, <1>12

--------------------------------------------------------------------------------
(* Delays.                                                                 *)

(* Two lists have the same keys for n entries, the one behind its entry a, *)
(* the other behind b: their delays keep their distance.                   *)
SameKeys(list, a, new, b, n) ==
    /\ a + n <= Len(list) /\ b + n <= Len(new)
    /\ \A i \in 1 .. n : new[b + i].key = list[a + i].key

LEMMA SameDelays ==
    ASSUME NEW P, NEW list \in Seq(Entries(P)), NEW new \in Seq(Entries(P)),
           NEW n \in Nat, NEW a \in Nat, NEW b \in Nat, SameKeys(list, a, new, b, n)
    PROVE  \A i \in 0 .. n :
               Delay(new, b + i) = Delay(list, a + i) + (Delay(new, b) - Delay(list, a))
<1> DEFINE c == Delay(new, b) - Delay(list, a)
<1>1. /\ a + n <= Len(list) /\ b + n <= Len(new)
      /\ \A i \in 1 .. n : new[b + i].key = list[a + i].key
  BY DEF SameKeys
<1>2. c \in Int /\ Delay(new, b) = Delay(list, a) + c
  <2>1. a \in 0 .. Len(list) /\ b \in 0 .. Len(new)
    BY <1>1, ListTypes
  <2>2. Delay(list, a) \in Int /\ Delay(new, b) \in Int
    BY <2>1, DelayInt
  <2> QED
    BY <2>2
<1> HIDE DEF c
<1> DEFINE U == {i \in 0 .. n : Delay(new, b + i) = Delay(list, a + i) + c}
<1>3. /\ Len(list) \in Nat /\ \A i \in 1 .. Len(list) : list[i].key \in Int
      /\ Len(new) \in Nat /\ \A i \in 1 .. Len(new) : new[i].key \in Int
  BY ListTypes
<1>4. /\ \A i \in 1 .. Len(list) : Delay(list, i) = Delay(list, i - 1) + list[i].key
      /\ \A i \in 1 .. Len(new) : Delay(new, i) = Delay(new, i - 1) + new[i].key
  BY DelaySums
<1>5. 0 \in U
  BY <1>3, <1>2
<1>6. ASSUME NEW i \in 1 .. n, i - 1 \in U PROVE i \in U
  <2>1. /\ a + i \in 1 .. Len(list) /\ b + i \in 1 .. Len(new)
        /\ (a + i) - 1 = a + (i - 1) /\ (b + i) - 1 = b + (i - 1)
        /\ a + (i - 1) \in 0 .. Len(list)
    BY <1>1, <1>3
  <2>2. /\ Delay(list, a + i) = Delay(list, a + (i - 1)) + list[a + i].key
        /\ Delay(new, b + i) = Delay(new, b + (i - 1)) + new[b + i].key
    BY <1>4, <2>1
  <2>3. new[b + i].key = list[a + i].key /\ list[a + i].key \in Int
    BY <1>1, <1>3, <2>1
  <2>4. Delay(list, a + (i - 1)) \in Int
    BY <2>1, DelayInt
  <2>5. Delay(new, b + (i - 1)) = Delay(list, a + (i - 1)) + c
    BY <1>6
  <2> QED
    BY <1>2, <2>2, <2>3, <2>4, <2>5
<1> HIDE DEF U
<1>7. \A i \in 0 .. n : i \in U
  BY <1>5, <1>6, Ascent
<1> QED
  BY <1>7 DEF U, c

(* Two lists have the same keys at the front.                              *)
LEMMA SameFront ==
    ASSUME NEW P, NEW list \in Seq(Entries(P)), NEW new \in Seq(Entries(P)),
           NEW n \in Nat, n <= Len(list), n <= Len(new),
           \A i \in 1 .. n : new[i].key = list[i].key
    PROVE  \A i \in 0 .. n : Delay(new, i) = Delay(list, i)
<1> DEFINE U == {i \in 0 .. n : Delay(new, i) = Delay(list, i)}
<1>1. \A i \in 1 .. n : i \in 1 .. Len(list) /\ i \in 1 .. Len(new)
  BY ListTypes
<1>2. /\ Delay(list, 0) = 0 /\ Delay(new, 0) = 0
      /\ \A i \in 1 .. n : Delay(list, i) = Delay(list, i - 1) + list[i].key
      /\ \A i \in 1 .. n : Delay(new, i) = Delay(new, i - 1) + new[i].key
  BY <1>1, DelaySums
<1>3. 0 \in U
  BY <1>2
<1>4. ASSUME NEW i \in 1 .. n, i - 1 \in U PROVE i \in U
  BY <1>2, <1>4
<1> HIDE DEF U
<1>5. \A i \in 0 .. n : i \in U
  BY <1>3, <1>4, Ascent
<1> QED
  BY <1>5 DEF U

(* The first on a list of delays has some time left, and nobody behind has *)
(* less than the one before.                                               *)
Running(list) ==
    \A i \in 1 .. Len(list) : list[i].key >= 0 /\ (i = 1 => list[i].key >= 1)

LEMMA RunningDelays ==
    ASSUME NEW P, NEW list \in Seq(Entries(P)), Running(list)
    PROVE  \A i \in 1 .. Len(list) : Delay(list, i) >= 1
<1> DEFINE U == {i \in 0 .. Len(list) : i = 0 \/ Delay(list, i) >= 1}
<1>1. Len(list) \in Nat /\ \A i \in 1 .. Len(list) : list[i].key \in Int
  BY ListTypes
<1>2. /\ Delay(list, 0) = 0
      /\ \A i \in 1 .. Len(list) : Delay(list, i) = Delay(list, i - 1) + list[i].key
      /\ \A i \in 0 .. Len(list) : Delay(list, i) \in Int
  BY DelaySums, DelayInt
<1>3. 0 \in U
  BY <1>1
<1>4. ASSUME NEW i \in 1 .. Len(list), i - 1 \in U PROVE i \in U
  <2>1. Delay(list, i) = Delay(list, i - 1) + list[i].key /\ list[i].key \in Int
        /\ Delay(list, i - 1) \in Int
    BY <1>1, <1>2
  <2>2. CASE i = 1
    BY <1>2, <2>1, <2>2 DEF Running
  <2>3. CASE i # 1
    <3>1. Delay(list, i - 1) >= 1 /\ list[i].key >= 0
      BY <1>4, <2>3 DEF Running
    <3> QED
      BY <2>1, <3>1
  <2> QED
    BY <2>2, <2>3
<1> HIDE DEF U
<1>5. \A i \in 0 .. Len(list) : i \in U
  BY <1>1, <1>3, <1>4, Ascent
<1> QED
  BY <1>1, <1>5 DEF U

(* What the process has left to wait.                                      *)
Left(list, p) == IF p \in PidsOf(list) THEN Delay(list, PosOf(list, p)) ELSE 0

LEMMA LeftAt ==
    ASSUME NEW P, NEW list \in Seq(Entries(P)), Once(list), NEW i \in 1 .. Len(list)
    PROVE  Left(list, list[i].pid) = Delay(list, i)
<1>1. DOMAIN list = 1 .. Len(list)
  BY ListTypes
<1>2. list[i].pid \in PidsOf(list)
  BY <1>1 DEF PidsOf
<1>3. PosOf(list, list[i].pid) = i
  BY <1>1, <1>2, PosOfRange DEF Once
<1> QED
  BY <1>2, <1>3 DEF Left

(* Whoever is inserted has its delay to wait, and everybody else as much   *)
(* as before.                                                              *)
LEMMA InsertdLeft ==
    ASSUME NEW P, NEW list \in Seq(Entries(P)), NEW pid \in P, NEW key \in Int,
           Running(list), Once(list), pid \notin PidsOf(list), key >= 1
    PROVE  LET new == Insertd(list, pid, key)
           IN  /\ Running(new)
               /\ \A p \in P : Left(new, p) = IF p = pid THEN key ELSE Left(list, p)
<1> DEFINE new == Insertd(list, pid, key)
<1>1. PICK at \in 1 .. Len(list) + 1 : InsertedAt(list, pid, key, at, new)
  BY InsertdEntries
<1>2. new \in Seq(Entries(P)) /\ PidsOf(new) = PidsOf(list) \cup {pid} /\ Once(new)
  <2>1. new \in Seq(Entries(P))
    BY InsertdPids
  <2>2. PidsOf(new) = PidsOf(list) \cup {pid}
    BY InsertdPids
  <2>3. Once(new)
    BY InsertdPids
  <2> QED
    BY <2>1, <2>2, <2>3
<1> HIDE DEF new
<1> DEFINE rest == key - Delay(list, at - 1)
<1>3. /\ \A j \in 1 .. at - 1 : Delay(list, j) <= key
      /\ at <= Len(list) => Delay(list, at) > key
      /\ new \in Seq(Entries(P)) /\ Len(new) = Len(list) + 1
      /\ \A i \in 1 .. at - 1 : new[i] = list[i]
      /\ new[at].pid = pid /\ new[at].key = rest
      /\ \A i \in at .. Len(list) :
            /\ new[i + 1].pid = list[i].pid
            /\ new[i + 1].key = IF i = at THEN list[i].key - rest ELSE list[i].key
  BY <1>1, <1>2 DEF InsertedAt
<1>4. /\ Len(list) \in Nat /\ at \in Nat \ {0}
      /\ DOMAIN list = 1 .. Len(list) /\ DOMAIN new = 1 .. Len(list) + 1
      /\ \A i \in 1 .. Len(list) : list[i].key \in Int
      /\ \A i \in 1 .. Len(list) + 1 : new[i].key \in Int
      /\ \A i \in 0 .. Len(list) : Delay(list, i) \in Int
      /\ \A i \in 0 .. Len(list) + 1 : Delay(new, i) \in Int
  BY <1>3, ListTypes, DelayInt
<1>5. /\ Delay(list, 0) = 0 /\ Delay(new, 0) = 0
      /\ \A i \in 1 .. Len(list) : Delay(list, i) = Delay(list, i - 1) + list[i].key
      /\ \A i \in 1 .. Len(list) + 1 : Delay(new, i) = Delay(new, i - 1) + new[i].key
  BY <1>3, DelaySums
<1>6. at - 1 \in 0 .. Len(list) /\ at - 1 \in Nat /\ Delay(list, at - 1) \in Int /\ rest \in Int
  BY <1>4
<1>7. \A i \in 0 .. at - 1 : Delay(new, i) = Delay(list, i)
  <2> DEFINE n == at - 1
  <2>1. /\ n \in Nat /\ n <= Len(list) /\ n <= Len(new) /\ new \in Seq(Entries(P))
        /\ \A i \in 1 .. n : new[i].key = list[i].key
    <3>1. n \in Nat /\ n <= Len(list) /\ n <= Len(new) /\ new \in Seq(Entries(P))
      BY <1>3, <1>4
    <3>2. \A i \in 1 .. n : new[i].key = list[i].key
      BY <1>3
    <3> QED
      BY <3>1, <3>2
  <2>2. \A i \in 0 .. n : Delay(new, i) = Delay(list, i)
    <3> HIDE DEF n
    <3> QED
      BY <2>1, SameFront
  <2> QED
    BY <2>2
<1>8. Delay(new, at) = key
  <2>1. at \in 1 .. Len(list) + 1 /\ at - 1 \in 0 .. at - 1 /\ new[at].key = rest
    BY <1>3, <1>4
  <2>2. Delay(new, at) = Delay(new, at - 1) + rest /\ Delay(new, at - 1) = Delay(list, at - 1)
    BY <1>5, <1>7, <2>1
  <2> QED
    BY <1>6, <2>2
<1>9. \A i \in at .. Len(list) : Delay(new, i + 1) = Delay(list, i)
  <2>1. CASE at <= Len(list)
    <3> DEFINE n == Len(list) - at
               b == at + 1
    <3>1. Delay(new, b) = Delay(list, at)
      <4>1. b \in 1 .. Len(list) + 1 /\ b - 1 = at /\ at \in at .. Len(list)
            /\ at \in 1 .. Len(list)
        BY <1>4, <2>1
      <4>2. new[b].key = list[at].key - rest
        BY <1>3, <4>1
      <4>3. /\ Delay(new, b) = Delay(new, at) + new[b].key
            /\ Delay(list, at) = Delay(list, at - 1) + list[at].key
        BY <1>5, <4>1
      <4>4. list[at].key \in Int
        BY <1>4, <4>1
      <4> QED
        BY <1>6, <1>8, <4>2, <4>3, <4>4
    <3>2. \A i \in 1 .. n : new[b + i].key = list[at + i].key
      <4> SUFFICES ASSUME NEW i \in 1 .. n PROVE new[b + i].key = list[at + i].key
        OBVIOUS
      <4>1. at + i \in at .. Len(list) /\ at + i # at /\ (at + i) + 1 = b + i
        BY <1>4
      <4> QED
        BY <1>3, <4>1
    <3>3. n \in Nat /\ at \in Nat /\ b \in Nat /\ SameKeys(list, at, new, b, n)
      BY <1>3, <1>4, <2>1, <3>2 DEF SameKeys
    <3>4. \A i \in at .. Len(list) : i - at \in 0 .. n /\ at + (i - at) = i
                                     /\ b + (i - at) = i + 1
                                     /\ Delay(list, i) \in Int
      <4>1. \A i \in at .. Len(list) : i \in 0 .. Len(list)
        BY <1>4
      <4>2. \A i \in at .. Len(list) : Delay(list, i) \in Int
        BY <1>4, <4>1
      <4>3. Len(list) \in Int /\ at \in Int
        BY <1>4
      <4> QED
        BY <4>2, <4>3
    <3> HIDE DEF n, b
    <3>5. \A i \in 0 .. n :
              Delay(new, b + i) = Delay(list, at + i) + (Delay(new, b) - Delay(list, at))
      BY <1>3, <3>3, SameDelays
    <3>6. at \in at .. Len(list)
      BY <1>4, <2>1
    <3> QED
      BY <3>1, <3>4, <3>5, <3>6
  <2>2. CASE ~(at <= Len(list))
    BY <1>4, <2>2
  <2> QED
    BY <2>1, <2>2
<1>10. Running(new)
  <2>1. ASSUME NEW i \in 1 .. Len(list) + 1
        PROVE  new[i].key >= 0 /\ (i = 1 => new[i].key >= 1)
    <3>1. CASE i < at
      <4>1. i \in 1 .. at - 1 /\ i \in 1 .. Len(list)
        BY <1>4, <3>1
      <4> QED
        BY <1>3, <4>1 DEF Running
    <3>2. CASE i = at
      <4>1. CASE at = 1
        BY <1>3, <1>5, <3>2, <4>1
      <4>2. CASE at # 1
        <5>1. at - 1 \in 1 .. at - 1
          BY <1>4, <4>2
        <5>2. Delay(list, at - 1) <= key /\ new[at].key = key - Delay(list, at - 1)
          BY <1>3, <5>1
        <5> QED
          BY <1>6, <3>2, <4>2, <5>2
      <4> QED
        BY <4>1, <4>2
    <3>3. CASE i = at + 1
      <4>1. at \in at .. Len(list) /\ at \in 1 .. Len(list) /\ at + 1 = i /\ i # 1
        BY <1>4, <3>3
      <4>2. new[i].key = list[at].key - rest /\ Delay(list, at) > key
            /\ Delay(list, at) = Delay(list, at - 1) + list[at].key /\ list[at].key \in Int
        <5>1. new[at + 1].key = list[at].key - rest /\ Delay(list, at) > key
          BY <1>3, <1>4, <4>1
        <5>2. Delay(list, at) = Delay(list, at - 1) + list[at].key
          BY <1>5, <4>1
        <5>3. list[at].key \in Int
          BY <1>4, <4>1
        <5> QED
          BY <4>1, <5>1, <5>2, <5>3
      <4> QED
        BY <1>6, <4>1, <4>2
    <3>4. CASE i > at + 1
      <4>1. i - 1 \in at .. Len(list) /\ i - 1 # at /\ i - 1 \in 1 .. Len(list)
            /\ (i - 1) + 1 = i /\ i # 1
        BY <1>4, <3>4
      <4>2. new[(i - 1) + 1].key = list[i - 1].key
        BY <1>3, <4>1
      <4> QED
        BY <4>1, <4>2 DEF Running
    <3> QED
      BY <1>4, <3>1, <3>2, <3>3, <3>4
  <2> QED
    BY <1>3, <2>1 DEF Running
<1>11. ASSUME NEW p \in P PROVE Left(new, p) = IF p = pid THEN key ELSE Left(list, p)
  <2>1. CASE p = pid
    <3>1. at \in 1 .. Len(new) /\ new[at].pid = p
      BY <1>3, <2>1
    <3> QED
      BY <1>3, <1>2, <1>8, <2>1, <3>1, LeftAt
  <2>2. CASE p # pid /\ p \in PidsOf(list)
    <3>1. PICK i \in 1 .. Len(list) : list[i].pid = p
      BY <1>4, <2>2 DEF PidsOf
    <3>2. Left(list, p) = Delay(list, i)
      BY <3>1, LeftAt
    <3>3. CASE i < at
      <4>1. i \in 1 .. at - 1 /\ i \in 0 .. at - 1 /\ i \in 1 .. Len(new)
        BY <1>3, <1>4, <3>3
      <4>2. new[i].pid = p
        BY <1>3, <3>1, <4>1
      <4>3. Left(new, p) = Delay(new, i)
        BY <1>3, <1>2, <4>1, <4>2, LeftAt
      <4> QED
        BY <1>7, <2>2, <3>2, <4>1, <4>3
    <3>4. CASE ~(i < at)
      <4>1. i \in at .. Len(list) /\ i + 1 \in 1 .. Len(new)
        BY <1>3, <1>4, <3>4
      <4>2. new[i + 1].pid = p
        BY <1>3, <3>1, <4>1
      <4>3. Left(new, p) = Delay(new, i + 1)
        BY <1>3, <1>2, <4>1, <4>2, LeftAt
      <4> QED
        BY <1>9, <2>2, <3>2, <4>1, <4>3
    <3> QED
      BY <3>3, <3>4
  <2>3. CASE p # pid /\ p \notin PidsOf(list)
    BY <1>2, <2>3 DEF Left
  <2> QED
    BY <2>1, <2>2, <2>3
<1> QED
  BY <1>10, <1>11 DEF new

(* What unsleep() leaves: the entry behind the process has its key as well.*)
LEMMA UnsleepEntries ==
    ASSUME NEW P, NEW list \in Seq(Entries(P)), Once(list), NEW at \in 1 .. Len(list)
    PROVE  LET new == Unsleep(list, list[at].pid)
           IN  /\ new \in Seq(Entries(P)) /\ Len(new) = Len(list) - 1
               /\ \A i \in 1 .. at - 1 : new[i] = list[i]
               /\ \A i \in at .. Len(list) - 1 :
                     /\ new[i].pid = list[i + 1].pid
                     /\ new[i].key = IF i = at THEN list[i + 1].key + list[i].key
                                     ELSE list[i + 1].key
<1> DEFINE pid == list[at].pid
           key == list[at + 1].key + list[at].key
           credited == IF at < Len(list) THEN [list EXCEPT ![at + 1].key = key] ELSE list
           new == RemoveAt(credited, at)
<1>1. /\ DOMAIN list = 1 .. Len(list) /\ Len(list) \in Nat
      /\ \A j \in 1 .. Len(list) : list[j].key \in Int
  BY ListTypes
<1>2. PosOf(list, pid) = at
  BY <1>1 DEF PosOf, Once
<1>3. Unsleep(list, pid) = Getitem(credited, pid)
  BY <1>2 DEF Unsleep
<1>4. /\ credited \in Seq(Entries(P)) /\ Len(credited) = Len(list)
      /\ \A j \in 1 .. Len(list) : credited[j].pid = list[j].pid
      /\ \A j \in 1 .. Len(list) : j # at + 1 => credited[j] = list[j]
      /\ at < Len(list) => credited[at + 1].key = list[at + 1].key + list[at].key
  <2>1. CASE at < Len(list)
    <3> DEFINE i == at + 1
    <3>1. i \in 1 .. Len(list) /\ key \in Int
      BY <1>1, <2>1
    <3>2. credited = [list EXCEPT ![i].key = key]
      BY <2>1
    <3>3. key = list[at + 1].key + list[at].key
      OBVIOUS
    <3> HIDE DEF i, key, credited
    <3>4. /\ credited \in Seq(Entries(P)) /\ Len(credited) = Len(list)
          /\ \A j \in 1 .. Len(list) : credited[j].pid = list[j].pid
          /\ \A j \in 1 .. Len(list) : j # i => credited[j] = list[j]
          /\ credited[i].key = key
      BY <3>1, <3>2, ChangedKeys
    <3> QED
      BY <3>3, <3>4 DEF i
  <2>2. CASE ~(at < Len(list))
    BY <2>2
  <2> QED
    BY <2>1, <2>2
<1> HIDE DEF credited
<1>5. Once(credited)
  BY <1>4, SamePids
<1>6. Getitem(credited, pid) = new
  <2>1. at \in 1 .. Len(credited) /\ credited[at].pid = pid
    BY <1>4
  <2> HIDE DEF pid, new
  <2> QED
    BY <1>4, <1>5, <2>1, GetitemAt DEF new
<1>7. /\ new \in Seq(Entries(P)) /\ Len(new) = Len(list) - 1
      /\ \A i \in 1 .. Len(list) - 1 : new[i] = IF i < at THEN credited[i] ELSE credited[i + 1]
  <2> DEFINE S == Entries(P)
  <2>1. credited \in Seq(S) /\ at \in 1 .. Len(credited)
    BY <1>4
  <2> HIDE DEF S
  <2>2. LET x == RemoveAt(credited, at)
        IN  /\ x \in Seq(S) /\ Len(x) = Len(credited) - 1
            /\ \A i \in 1 .. Len(credited) - 1 :
                  x[i] = IF i < at THEN credited[i] ELSE credited[i + 1]
    BY <2>1, RemoveAtProps
  <2> QED
    BY <1>4, <2>2 DEF S
<1> HIDE DEF new
<1>8. ASSUME NEW i \in 1 .. at - 1 PROVE new[i] = list[i]
  <2>1. i \in 1 .. Len(list) - 1 /\ i < at /\ i \in 1 .. Len(list) /\ i # at + 1
    BY <1>1
  <2> QED
    BY <1>4, <1>7, <2>1
<1>9. ASSUME NEW i \in at .. Len(list) - 1
      PROVE  /\ new[i].pid = list[i + 1].pid
             /\ new[i].key = IF i = at THEN list[i + 1].key + list[i].key ELSE list[i + 1].key
  <2>1. i \in 1 .. Len(list) - 1 /\ ~(i < at) /\ i + 1 \in 1 .. Len(list)
        /\ (i + 1 = at + 1 <=> i = at) /\ at < Len(list)
    BY <1>1
  <2>2. new[i] = credited[i + 1]
    BY <1>7, <2>1
  <2>3. CASE i = at
    BY <1>4, <2>1, <2>2, <2>3
  <2>4. CASE i # at
    BY <1>4, <2>1, <2>2, <2>4
  <2> QED
    BY <2>3, <2>4
<1>10. Unsleep(list, pid) = new
  BY <1>3, <1>6
<1> HIDE DEF pid
<1>11. /\ new \in Seq(Entries(P)) /\ Len(new) = Len(list) - 1
       /\ \A i \in 1 .. at - 1 : new[i] = list[i]
       /\ \A i \in at .. Len(list) - 1 :
             /\ new[i].pid = list[i + 1].pid
             /\ new[i].key = IF i = at THEN list[i + 1].key + list[i].key
                             ELSE list[i + 1].key
  BY <1>7, <1>8, <1>9
<1> QED
  BY <1>10, <1>11 DEF pid

(* Whoever is taken off has nothing left to wait, and everybody else as    *)
(* much as before.                                                         *)
LEMMA UnsleepLeft ==
    ASSUME NEW P, NEW list \in Seq(Entries(P)), NEW pid \in PidsOf(list),
           Running(list), Once(list)
    PROVE  LET new == Unsleep(list, pid)
           IN  /\ Running(new)
               /\ \A p \in P : Left(new, p) = IF p = pid THEN 0 ELSE Left(list, p)
<1> DEFINE new == Unsleep(list, pid)
<1>1. PICK at \in 1 .. Len(list) : list[at].pid = pid
  BY ListTypes DEF PidsOf
<1>2. /\ new \in Seq(Entries(P)) /\ Len(new) = Len(list) - 1
      /\ \A i \in 1 .. at - 1 : new[i] = list[i]
      /\ \A i \in at .. Len(list) - 1 :
            /\ new[i].pid = list[i + 1].pid
            /\ new[i].key = IF i = at THEN list[i + 1].key + list[i].key
                            ELSE list[i + 1].key
  <2>1. LET x == Unsleep(list, list[at].pid)
        IN  /\ x \in Seq(Entries(P)) /\ Len(x) = Len(list) - 1
            /\ \A i \in 1 .. at - 1 : x[i] = list[i]
            /\ \A i \in at .. Len(list) - 1 :
                  /\ x[i].pid = list[i + 1].pid
                  /\ x[i].key = IF i = at THEN list[i + 1].key + list[i].key
                                ELSE list[i + 1].key
    BY UnsleepEntries
  <2> QED
    BY <1>1, <2>1
<1>3. PidsOf(new) = PidsOf(list) \ {pid} /\ Once(new)
  <2>1. PidsOf(new) = PidsOf(list) \ {pid}
    BY UnsleepPids
  <2>2. Once(new)
    BY UnsleepPids
  <2> QED
    BY <2>1, <2>2
<1> HIDE DEF new
<1>4. /\ Len(list) \in Nat /\ at \in Nat \ {0}
      /\ DOMAIN list = 1 .. Len(list) /\ DOMAIN new = 1 .. Len(list) - 1
      /\ \A i \in 1 .. Len(list) : list[i].key \in Int
      /\ \A i \in 1 .. Len(list) - 1 : new[i].key \in Int
      /\ \A i \in 0 .. Len(list) : Delay(list, i) \in Int
      /\ \A i \in 0 .. Len(list) - 1 : Delay(new, i) \in Int
  <2>1. /\ Len(list) \in Nat /\ DOMAIN list = 1 .. Len(list)
        /\ \A i \in 1 .. Len(list) : list[i].key \in Int
        /\ \A i \in 0 .. Len(list) : Delay(list, i) \in Int
    BY ListTypes, DelayInt
  <2>2. /\ DOMAIN new = 1 .. Len(new) /\ \A i \in 1 .. Len(new) : new[i].key \in Int
        /\ \A i \in 0 .. Len(new) : Delay(new, i) \in Int
    BY <1>2, ListTypes, DelayInt
  <2>3. Len(new) = Len(list) - 1
    BY <1>2
  <2>4. at \in Nat \ {0}
    OBVIOUS
  <2> QED
    BY <2>1, <2>2, <2>3, <2>4
<1>5. /\ Delay(list, 0) = 0 /\ Delay(new, 0) = 0
      /\ \A i \in 1 .. Len(list) : Delay(list, i) = Delay(list, i - 1) + list[i].key
      /\ \A i \in 1 .. Len(list) - 1 : Delay(new, i) = Delay(new, i - 1) + new[i].key
  BY <1>2, DelaySums
<1>6. \A i \in 0 .. at - 1 : Delay(new, i) = Delay(list, i)
  <2> DEFINE n == at - 1
  <2>1. /\ n \in Nat /\ n <= Len(list) /\ n <= Len(new) /\ new \in Seq(Entries(P))
        /\ \A i \in 1 .. n : new[i].key = list[i].key
    <3>1. n \in Nat /\ n <= Len(list) /\ n <= Len(new) /\ new \in Seq(Entries(P))
      BY <1>2, <1>4
    <3>2. \A i \in 1 .. n : new[i].key = list[i].key
      BY <1>2
    <3> QED
      BY <3>1, <3>2
  <2>2. \A i \in 0 .. n : Delay(new, i) = Delay(list, i)
    <3> HIDE DEF n
    <3> QED
      BY <2>1, SameFront
  <2> QED
    BY <2>2
<1>7. \A i \in at .. Len(list) - 1 : Delay(new, i) = Delay(list, i + 1)
  <2>1. CASE at < Len(list)
    <3> DEFINE n == (Len(list) - 1) - at
               a == at + 1
    <3>1. Delay(new, at) = Delay(list, a)
      <4>1. /\ a \in 1 .. Len(list) /\ a - 1 = at /\ at \in at .. Len(list) - 1
            /\ at \in 1 .. Len(list) /\ at \in 1 .. Len(list) - 1 /\ at - 1 \in 0 .. at - 1
            /\ at - 1 \in 0 .. Len(list)
        BY <1>4, <2>1
      <4>2. new[at].key = list[a].key + list[at].key
        BY <1>2, <4>1
      <4>3. /\ Delay(list, a) = Delay(list, at) + list[a].key
            /\ Delay(list, at) = Delay(list, at - 1) + list[at].key
            /\ Delay(new, at) = Delay(new, at - 1) + new[at].key
            /\ Delay(new, at - 1) = Delay(list, at - 1)
        BY <1>5, <1>6, <4>1
      <4>4. list[at].key \in Int /\ list[a].key \in Int /\ Delay(list, at - 1) \in Int
        BY <1>4, <4>1
      <4> QED
        BY <4>2, <4>3, <4>4
    <3>2. \A i \in 1 .. n : new[at + i].key = list[a + i].key
      <4> SUFFICES ASSUME NEW i \in 1 .. n PROVE new[at + i].key = list[a + i].key
        OBVIOUS
      <4>1. at + i \in at .. Len(list) - 1 /\ at + i # at /\ (at + i) + 1 = a + i
        BY <1>4
      <4> QED
        BY <1>2, <4>1
    <3>3. n \in Nat /\ at \in Nat /\ a \in Nat /\ SameKeys(list, a, new, at, n)
      BY <1>2, <1>4, <2>1, <3>2 DEF SameKeys
    <3>4. \A i \in at .. Len(list) - 1 : i - at \in 0 .. n /\ a + (i - at) = i + 1
                                         /\ at + (i - at) = i
                                         /\ Delay(list, i + 1) \in Int
      <4>1. \A i \in at .. Len(list) - 1 : i + 1 \in 0 .. Len(list)
        BY <1>4
      <4>2. \A i \in at .. Len(list) - 1 : Delay(list, i + 1) \in Int
        BY <1>4, <4>1
      <4>3. Len(list) \in Int /\ at \in Int
        BY <1>4
      <4> QED
        BY <4>2, <4>3
    <3>5. new \in Seq(Entries(P))
      BY <1>2
    <3>6. Delay(list, a) \in Int
      BY <1>4, <2>1
    <3> HIDE DEF n, a
    <3>7. \A i \in 0 .. n :
              Delay(new, at + i) = Delay(list, a + i) + (Delay(new, at) - Delay(list, a))
      BY <3>3, <3>5, SameDelays
    <3> QED
      BY <3>1, <3>4, <3>6, <3>7
  <2>2. CASE ~(at < Len(list))
    BY <1>4, <2>2
  <2> QED
    BY <2>1, <2>2
<1>8. Running(new)
  <2>1. ASSUME NEW i \in 1 .. Len(list) - 1
        PROVE  new[i].key >= 0 /\ (i = 1 => new[i].key >= 1)
    <3>1. CASE i < at
      <4>1. i \in 1 .. at - 1 /\ i \in 1 .. Len(list)
        BY <1>4, <3>1
      <4> QED
        BY <1>2, <4>1 DEF Running
    <3>2. CASE ~(i < at)
      <4>1. i \in at .. Len(list) - 1 /\ i + 1 \in 1 .. Len(list) /\ i \in 1 .. Len(list)
        BY <1>4, <3>2
      <4>2. /\ list[i + 1].key \in Int /\ list[i + 1].key >= 0
            /\ list[i].key \in Int /\ list[i].key >= 0 /\ (i = 1 => list[i].key >= 1)
        BY <1>4, <4>1 DEF Running
      <4>3. new[i].key = IF i = at THEN list[i + 1].key + list[i].key ELSE list[i + 1].key
        BY <1>2, <4>1
      <4>4. i = 1 => i = at
        BY <1>4, <3>2
      <4> QED
        BY <4>2, <4>3, <4>4
    <3> QED
      BY <3>1, <3>2
  <2> QED
    BY <1>2, <2>1 DEF Running
<1>9. ASSUME NEW p \in P PROVE Left(new, p) = IF p = pid THEN 0 ELSE Left(list, p)
  <2>1. CASE p = pid \/ p \notin PidsOf(list)
    BY <1>3, <2>1 DEF Left
  <2>2. CASE p # pid /\ p \in PidsOf(list)
    <3>1. PICK i \in 1 .. Len(list) : list[i].pid = p
      BY <1>4, <2>2 DEF PidsOf
    <3>2. Left(list, p) = Delay(list, i)
      BY <3>1, LeftAt
    <3>3. CASE i < at
      <4>1. i \in 1 .. at - 1 /\ i \in 0 .. at - 1 /\ i \in 1 .. Len(new)
        BY <1>2, <1>4, <3>3
      <4>2. new[i].pid = p
        BY <1>2, <3>1, <4>1
      <4>3. Left(new, p) = Delay(new, i)
        BY <1>2, <1>3, <4>1, <4>2, LeftAt
      <4> QED
        BY <1>6, <2>2, <3>2, <4>1, <4>3
    <3>4. CASE i > at
      <4>1. i - 1 \in at .. Len(list) - 1 /\ i - 1 \in 1 .. Len(new) /\ (i - 1) + 1 = i
        BY <1>2, <1>4, <3>4
      <4>2. new[i - 1].pid = p
        BY <1>2, <3>1, <4>1
      <4>3. Left(new, p) = Delay(new, i - 1)
        BY <1>2, <1>3, <4>1, <4>2, LeftAt
      <4>4. Delay(new, i - 1) = Delay(list, i)
        BY <1>7, <4>1
      <4> QED
        BY <2>2, <3>2, <4>3, <4>4
    <3>5. i # at
      BY <1>1, <2>2, <3>1
    <3> QED
      BY <1>4, <3>3, <3>4, <3>5
  <2> QED
    BY <2>1, <2>2
<1> QED
  BY <1>8, <1>9 DEF new

(* Those in front of a list of delays who have nothing left to wait are    *)
(* taken off: for the others nothing changes.                              *)
LEMMA FrontOff ==
    ASSUME NEW P, NEW list \in Seq(Entries(P)), Once(list), NEW n \in 0 .. Len(list),
           \A i \in 1 .. n : list[i].key = 0,
           \A i \in n + 1 .. Len(list) : list[i].key >= 0 /\ (i = n + 1 => list[i].key >= 1)
    PROVE  LET rest == SubSeq(list, n + 1, Len(list))
           IN  /\ Running(rest)
               /\ \A i \in 1 .. Len(list) : Left(rest, list[i].pid) = Delay(list, i)
               /\ \A p : p \notin PidsOf(list) => Left(rest, p) = 0
<1> DEFINE rest == SubSeq(list, n + 1, Len(list))
<1>1. /\ rest \in Seq(Entries(P)) /\ Len(rest) = Len(list) - n
      /\ \A i \in 1 .. Len(list) - n : rest[i] = list[n + i]
  BY SplitEntries
<1>2. PidsOf(rest) = {list[i].pid : i \in n + 1 .. Len(list)} /\ Once(rest)
  <2>1. PidsOf(rest) = {list[i].pid : i \in n + 1 .. Len(list)}
    BY SplitPids
  <2>2. Once(rest)
    BY SplitPids
  <2> QED
    BY <2>1, <2>2
<1> HIDE DEF rest
<1>3. Len(list) \in Nat /\ n \in Nat /\ n <= Len(list) /\ DOMAIN list = 1 .. Len(list)
  BY ListTypes
<1>4. /\ Delay(list, 0) = 0 /\ Delay(rest, 0) = 0
      /\ \A i \in 1 .. Len(list) : Delay(list, i) = Delay(list, i - 1) + list[i].key
  BY <1>1, DelaySums
<1>5. \A i \in 0 .. n : Delay(list, i) = 0
  <2> DEFINE U == {i \in 0 .. n : Delay(list, i) = 0}
  <2>1. 0 \in U
    BY <1>3, <1>4
  <2>2. ASSUME NEW i \in 1 .. n, i - 1 \in U PROVE i \in U
    BY <1>3, <1>4, <2>2
  <2> HIDE DEF U
  <2>3. \A i \in 0 .. n : i \in U
    BY <1>3, <2>1, <2>2, Ascent
  <2> QED
    BY <2>3 DEF U
<1>6. \A i \in n + 1 .. Len(list) :
          /\ i - n \in 1 .. Len(list) - n
          /\ rest[i - n] = list[i] /\ Delay(rest, i - n) = Delay(list, i)
  <2> DEFINE m == Len(list) - n
             z == 0
  <2>1. SameKeys(list, n, rest, z, m)
    <3>1. \A i \in 1 .. m : z + i = i
      OBVIOUS
    <3>2. n + m <= Len(list) /\ z + m <= Len(rest)
      BY <1>1, <1>3
    <3> QED
      BY <1>1, <3>1, <3>2 DEF SameKeys
  <2>2. m \in Nat /\ z \in Nat /\ n \in Nat /\ rest \in Seq(Entries(P))
    BY <1>1, <1>3
  <2>3. Delay(list, n) = 0 /\ Delay(rest, z) = 0
    BY <1>3, <1>4, <1>5
  <2>4. ASSUME NEW i \in n + 1 .. Len(list)
        PROVE  /\ i - n \in 1 .. m /\ i - n \in 0 .. m /\ n + (i - n) = i /\ z + (i - n) = i - n
               /\ i \in 0 .. Len(list)
    BY <1>3
  <2>5. \A i \in 0 .. Len(list) : Delay(list, i) \in Int
    BY DelayInt
  <2> HIDE DEF m, z
  <2>6. \A i \in 0 .. m :
            Delay(rest, z + i) = Delay(list, n + i) + (Delay(rest, z) - Delay(list, n))
    BY <2>1, <2>2, SameDelays
  <2>7. ASSUME NEW i \in n + 1 .. Len(list)
        PROVE  /\ i - n \in 1 .. m /\ rest[i - n] = list[i] /\ Delay(rest, i - n) = Delay(list, i)
    <3>1. rest[i - n] = list[i]
      <4>1. rest[i - n] = list[n + (i - n)]
        BY <1>1, <2>4 DEF m
      <4> QED
        BY <2>4, <4>1
    <3>2. Delay(rest, z + (i - n))
              = Delay(list, n + (i - n)) + (Delay(rest, z) - Delay(list, n))
      BY <2>4, <2>6
    <3>3. Delay(rest, i - n) = Delay(list, i)
      BY <2>3, <2>4, <2>5, <3>2
    <3> QED
      BY <2>4, <3>1, <3>3
  <2> QED
    BY <2>7 DEF m
<1>7. Running(rest)
  <2>1. ASSUME NEW i \in 1 .. Len(list) - n
        PROVE  rest[i].key >= 0 /\ (i = 1 => rest[i].key >= 1)
    <3>1. n + i \in n + 1 .. Len(list) /\ (i = 1 => n + i = n + 1) /\ rest[i] = list[n + i]
      BY <1>1, <1>3
    <3> QED
      BY <3>1
  <2> QED
    BY <1>1, <2>1 DEF Running
<1>8. ASSUME NEW i \in 1 .. Len(list) PROVE Left(rest, list[i].pid) = Delay(list, i)
  <2>1. CASE i <= n
    <3>1. \A j \in n + 1 .. Len(list) : list[j].pid # list[i].pid
      BY <1>3, <2>1 DEF Once
    <3>2. list[i].pid \notin PidsOf(rest)
      BY <1>2, <3>1
    <3>3. Delay(list, i) = 0
      BY <1>3, <1>5, <2>1
    <3> QED
      BY <3>2, <3>3 DEF Left
  <2>2. CASE ~(i <= n)
    <3>1. i \in n + 1 .. Len(list)
      BY <1>3, <2>2
    <3>2. i - n \in 1 .. Len(rest) /\ rest[i - n] = list[i] /\ Delay(rest, i - n) = Delay(list, i)
      BY <1>1, <1>6, <3>1
    <3>3. Left(rest, rest[i - n].pid) = Delay(rest, i - n)
      BY <1>1, <1>2, <3>2, LeftAt
    <3> QED
      BY <3>2, <3>3
  <2> QED
    BY <2>1, <2>2
<1>9. ASSUME NEW p, p \notin PidsOf(list) PROVE Left(rest, p) = 0
  <2>1. \A i \in n + 1 .. Len(list) : i \in 1 .. Len(list)
    BY <1>3
  <2>2. p \notin PidsOf(rest)
    BY <1>2, <1>3, <1>9, <2>1 DEF PidsOf
  <2> QED
    BY <2>2 DEF Left
<1> QED
  BY <1>7, <1>8, <1>9 DEF rest
================================================================================
