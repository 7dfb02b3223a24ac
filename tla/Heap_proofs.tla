------------------------------ MODULE Heap_proofs ------------------------------
(***************************************************************************)
(* Proofs about Heap, for every address the heap may start at, every set   *)
(* of request sizes and every bound.  The invariant is split in two: how   *)
(* the chunks lie in memory (Layout), which only depends on size and       *)
(* heap_end, and which of them the chain holds (Chain).                    *)
(***************************************************************************)
EXTENDS Heap, SequenceTheorems, WellFoundedInduction, TLAPS

Inside(sz, end) == \A a \in DOMAIN sz : Start <= a /\ a + sz[a] <= end

Disjoint(sz) ==
    \A a, b \in DOMAIN sz : a # b => a + sz[a] <= b \/ b + sz[b] <= a

Large(sz) == \A a \in DOMAIN sz : sz[a] > HEADER

Reaches(sz, end, a) ==
    \E gap \in {0, HEADER} : a + sz[a] + gap \in DOMAIN sz \cup {end}

Tiled(sz, end) ==
    /\ end = Start \/ Start \in DOMAIN sz
    /\ \A a \in DOMAIN sz : Reaches(sz, end, a)

Headers(sz) == DOMAIN sz \subseteq Nat /\ sz \in [DOMAIN sz -> Nat]

Layout(sz, end) ==
    /\ end \in Nat /\ Headers(sz)
    /\ Inside(sz, end)
    /\ Disjoint(sz)
    /\ Large(sz)
    /\ Tiled(sz, end)

--------------------------------------------------------------------------------
(* Layout under the three changes malloc() and free() make to the headers. *)

Merged(sz, x, y) == Drop([sz EXCEPT ![x] = @ + HEADER + sz[y]], y)

(* Merging a chunk with the one right behind it keeps the layout.          *)
LEMMA MergeLayout ==
    ASSUME NEW sz, NEW end, Layout(sz, end),
           NEW x \in DOMAIN sz, NEW y \in DOMAIN sz, x + HEADER + sz[x] = y
    PROVE  /\ Layout(Merged(sz, x, y), end)
           /\ DOMAIN Merged(sz, x, y) = DOMAIN sz \ {y}
           /\ \A a \in DOMAIN sz \ {x, y} : Merged(sz, x, y)[a] = sz[a]
<1> DEFINE new == Merged(sz, x, y)
<1>1. /\ DOMAIN sz \subseteq Nat /\ \A a \in DOMAIN sz : sz[a] \in Nat
      /\ end \in Nat
  BY DEF Layout, Headers
<1>2. x # y /\ HEADER = 8
  BY <1>1 DEF HEADER
<1>3. /\ DOMAIN new = DOMAIN sz \ {y}
      /\ new[x] = sz[x] + HEADER + sz[y]
      /\ \A a \in DOMAIN sz \ {x, y} : new[a] = sz[a]
  BY <1>2 DEF Merged, Drop
<1>4. Headers(new)
  BY <1>1, <1>2, <1>3 DEF Headers, Merged, Drop
<1>5. \A a \in DOMAIN sz : sz[a] > 8
  BY <1>2 DEF Layout, Large
<1>6. Inside(new, end)
  BY <1>1, <1>2, <1>3, HeapAssumption DEF Layout, Inside
<1>7. Disjoint(new)
  <2> SUFFICES ASSUME NEW a \in DOMAIN new, NEW b \in DOMAIN new, a # b
               PROVE  a + new[a] <= b \/ b + new[b] <= a
    BY DEF Disjoint
  <2>1. \A c, d \in DOMAIN sz : c # d => c + sz[c] <= d \/ d + sz[d] <= c
    BY DEF Layout, Disjoint
  <2>2. CASE a # x /\ b # x
    BY <1>3, <2>1, <2>2
  <2>3. ASSUME NEW c \in DOMAIN sz \ {x, y}
        PROVE  x + new[x] <= c \/ c + sz[c] <= x
    <3>1. c + sz[c] <= y \/ y + sz[y] <= c
      BY <2>1
    <3>2. c + sz[c] <= x \/ x + sz[x] <= c
      BY <2>1
    <3> QED BY <3>1, <3>2, <1>1, <1>2, <1>3, <1>5
  <2> QED BY <2>2, <2>3, <1>3
<1>8. Large(new)
  BY <1>1, <1>2, <1>3, <1>5 DEF Large
<1>9. Tiled(new, end)
  <2>1. x >= Start /\ y > x
    BY <1>1, <1>2 DEF Layout, Inside
  <2>2. end = Start \/ Start \in DOMAIN new
    BY <2>1, <1>1, <1>3, HeapAssumption DEF Layout, Tiled
  <2>3. ASSUME NEW a \in DOMAIN new
        PROVE  Reaches(new, end, a)
    <3>1. CASE a = x
      <4>1. PICK gap \in {0, HEADER} : y + sz[y] + gap \in DOMAIN sz \cup {end}
        BY DEF Layout, Tiled, Reaches
      <4>2. x + new[x] + gap = y + sz[y] + gap
        BY <1>1, <1>2, <1>3
      <4>3. y + sz[y] + gap # y
        BY <1>1, <1>2, <1>5
      <4> QED BY <4>1, <4>2, <4>3, <1>3, <3>1 DEF Reaches
    <3>2. CASE a # x
      <4>1. a \in DOMAIN sz /\ a # y /\ new[a] = sz[a]
        BY <1>3, <3>2
      <4>2. PICK gap \in {0, HEADER} : a + sz[a] + gap \in DOMAIN sz \cup {end}
        BY <4>1 DEF Layout, Tiled, Reaches
      <4>3. a + sz[a] <= x \/ x + sz[x] <= a
        BY <4>1, <3>2 DEF Layout, Disjoint
      <4>4. a + sz[a] + gap # y
        <5>1. CASE a + sz[a] <= x
          BY <5>1, <4>1, <1>1, <1>2, <1>5
        <5>2. CASE x + sz[x] <= a
          BY <5>2, <4>1, <1>1, <1>2, <1>5
        <5> QED BY <4>3, <5>1, <5>2
      <4> QED BY <4>1, <4>2, <4>4, <1>3 DEF Reaches
    <3> QED BY <3>1, <3>2
  <2> QED BY <2>2, <2>3 DEF Tiled
<1> QED BY <1>1, <1>3, <1>4, <1>6, <1>7, <1>8, <1>9 DEF Layout

Parted(sz, x, need) ==
    Put([sz EXCEPT ![x] = need], x + HEADER + need, sz[x] - need - HEADER)

(* Splitting a chunk that is large enough keeps the layout, and what is    *)
(* left over starts at an address that was no chunk's.                     *)
LEMMA SplitLayout ==
    ASSUME NEW sz, NEW end, Layout(sz, end), NEW x \in DOMAIN sz,
           NEW need \in Nat, need > HEADER, sz[x] > need + HEADER + HEADER
    PROVE  /\ Layout(Parted(sz, x, need), end)
           /\ x + HEADER + need \notin DOMAIN sz
           /\ DOMAIN Parted(sz, x, need) = DOMAIN sz \cup {x + HEADER + need}
           /\ Parted(sz, x, need)[x] = need
           /\ \A a \in DOMAIN sz \ {x} : Parted(sz, x, need)[a] = sz[a]
<1> DEFINE new == Parted(sz, x, need)
           y == x + HEADER + need
<1>1. /\ DOMAIN sz \subseteq Nat /\ \A a \in DOMAIN sz : sz[a] \in Nat
      /\ end \in Nat /\ x \in Nat
  BY DEF Layout, Headers
<1>2. HEADER = 8 /\ y \in Nat /\ y # x
  BY <1>1 DEF HEADER
<1>3. \A a, b \in DOMAIN sz : a # b => a + sz[a] <= b \/ b + sz[b] <= a
  BY DEF Layout, Disjoint
<1>4. \A a \in DOMAIN sz : sz[a] > 8
  BY <1>2 DEF Layout, Large
<1>5. y \notin DOMAIN sz
  <2> SUFFICES ASSUME y \in DOMAIN sz PROVE FALSE
    OBVIOUS
  <2>1. x + sz[x] <= y \/ y + sz[y] <= x
    BY <1>2, <1>3
  <2> QED BY <2>1, <1>1, <1>2, <1>4
<1>6. /\ DOMAIN new = DOMAIN sz \cup {y}
      /\ new[x] = need
      /\ new[y] = sz[x] - need - HEADER
      /\ \A a \in DOMAIN sz \ {x} : new[a] = sz[a]
  BY <1>2, <1>5 DEF Parted, Put
<1>7. new[y] \in Nat /\ new[y] > 8 /\ y + new[y] = x + sz[x]
  BY <1>1, <1>2, <1>6
<1>8. Headers(new)
  <2>1. \A a \in DOMAIN new : new[a] \in Nat /\ a \in Nat
    BY <1>1, <1>2, <1>6, <1>7
  <2> QED BY <2>1 DEF Headers, Parted, Put
<1>9. Inside(new, end)
  BY <1>1, <1>2, <1>6, <1>7, HeapAssumption DEF Layout, Inside
<1>10. Disjoint(new)
  <2>1. \A a \in DOMAIN sz \ {x} : a + sz[a] <= x \/ x + sz[x] <= a
    BY <1>3
  <2>2. x + new[x] <= y
    BY <1>1, <1>2, <1>6
  <2>3. ASSUME NEW a \in DOMAIN sz \ {x}
        PROVE  /\ a + new[a] <= x \/ x + new[x] <= a
               /\ a + new[a] <= y \/ y + new[y] <= a
    BY <2>1, <1>1, <1>2, <1>6, <1>7
  <2> QED BY <2>2, <2>3, <1>3, <1>6 DEF Disjoint
<1>11. Large(new)
  BY <1>2, <1>4, <1>6, <1>7 DEF Large
<1>12. Tiled(new, end)
  <2>1. end = Start \/ Start \in DOMAIN new
    BY <1>6 DEF Layout, Tiled
  <2>2. Reaches(new, end, x)
    BY <1>1, <1>2, <1>6 DEF Reaches
  <2>3. Reaches(new, end, y)
    <3>1. PICK gap \in {0, HEADER} : x + sz[x] + gap \in DOMAIN sz \cup {end}
      BY DEF Layout, Tiled, Reaches
    <3>2. y + new[y] + gap = x + sz[x] + gap
      BY <1>7
    <3> QED BY <3>1, <3>2, <1>6 DEF Reaches
  <2>4. ASSUME NEW a \in DOMAIN sz \ {x}
        PROVE  Reaches(new, end, a)
    BY <1>6 DEF Layout, Tiled, Reaches
  <2> QED BY <2>1, <2>2, <2>3, <2>4, <1>6 DEF Tiled
<1> QED BY <1>1, <1>5, <1>6, <1>8, <1>9, <1>10, <1>11, <1>12 DEF Layout

(* A new chunk at the end of the heap keeps the layout.                    *)
LEMMA GrowLayout ==
    ASSUME NEW sz, NEW end, Layout(sz, end), NEW need \in Nat, need > HEADER
    PROVE  /\ Layout(Put(sz, end, need), end + need)
           /\ end \notin DOMAIN sz
           /\ DOMAIN Put(sz, end, need) = DOMAIN sz \cup {end}
           /\ Put(sz, end, need)[end] = need
           /\ \A a \in DOMAIN sz : Put(sz, end, need)[a] = sz[a]
<1> DEFINE new == Put(sz, end, need)
<1>1. /\ DOMAIN sz \subseteq Nat /\ \A a \in DOMAIN sz : sz[a] \in Nat
      /\ end \in Nat
  BY DEF Layout, Headers
<1>2. HEADER = 8 /\ end + need \in Nat
  BY <1>1 DEF HEADER
<1>3. \A a \in DOMAIN sz : Start <= a /\ a + sz[a] <= end /\ sz[a] > 8
  BY <1>2 DEF Layout, Inside, Large
<1>4. end \notin DOMAIN sz
  BY <1>1, <1>3
<1>5. /\ DOMAIN new = DOMAIN sz \cup {end}
      /\ new[end] = need
      /\ \A a \in DOMAIN sz : new[a] = sz[a]
  BY <1>4 DEF Put
<1>6. Headers(new)
  <2>1. \A a \in DOMAIN new : new[a] \in Nat /\ a \in Nat
    BY <1>1, <1>5
  <2> QED BY <2>1 DEF Headers, Put
<1>7. Start \in Nat /\ Start <= end /\ (end = Start \/ Start \in DOMAIN sz)
  BY <1>1, <1>3, HeapAssumption DEF Layout, Tiled
<1>8. Inside(new, end + need)
  BY <1>1, <1>3, <1>5, <1>7 DEF Inside
<1>9. Disjoint(new)
  BY <1>1, <1>3, <1>5 DEF Layout, Disjoint
<1>10. Large(new)
  BY <1>2, <1>3, <1>5 DEF Large
<1>11. Tiled(new, end + need)
  <2>1. Reaches(new, end + need, end)
    BY <1>1, <1>2, <1>5 DEF Reaches
  <2>2. ASSUME NEW a \in DOMAIN sz
        PROVE  Reaches(new, end + need, a)
    BY <1>5 DEF Layout, Tiled, Reaches
  <2> QED BY <2>1, <2>2, <1>5, <1>7 DEF Tiled
<1> QED BY <1>2, <1>4, <1>5, <1>6, <1>8, <1>9, <1>10, <1>11 DEF Layout

--------------------------------------------------------------------------------
(* The chain: which of the chunks it holds, T being those in use.          *)

Chain(list, dom, T) ==
    /\ list \in Seq(dom)
    /\ \A i, j \in 1 .. Len(list) : i # j => list[i] # list[j]
    /\ T \subseteq dom
    /\ \A i \in 1 .. Len(list) : list[i] \notin T
    /\ \A a \in dom : a \in T \/ \E i \in 1 .. Len(list) : list[i] = a

(* A set of positions that is not empty has a first.                       *)
LEMMA FirstIsOne ==
    ASSUME NEW S \in SUBSET Nat, S # {}
    PROVE  First(S) \in S
<1> DEFINE R == {p \in Nat \X Nat : p[1] < p[2]}
<1>1. IsWellFoundedOn(R, Nat)
  <2>1. OpToRel(<, Nat) = R
    BY DEF OpToRel
  <2> QED BY <2>1, NatLessThanWellFounded
<1>2. PICK i \in S : \A j \in S : ~ (<<j, i>> \in R)
  <2> HIDE DEF R
  <2> QED BY <1>1, WFMin
<1>3. ASSUME NEW j \in S
      PROVE  i <= j
  <2>1. <<j, i>> \in R <=> j < i
    OBVIOUS
  <2>2. ~ (<<j, i>> \in R)
    BY <1>2
  <2> QED BY <2>1, <2>2
<1> QED BY <1>3 DEF First

(* A freed chunk is put at the front of the chain.                         *)
LEMMA ChainAppend ==
    ASSUME NEW list, NEW dom, NEW T, NEW a, a \notin T, Chain(list, dom, T \cup {a})
    PROVE  Chain(<<a>> \o list, dom, T)
<1>1. list \in Seq(dom) /\ a \in dom /\ <<a>> \in Seq(dom) /\ Len(<<a>>) = 1
  BY DEF Chain
<1>2. /\ <<a>> \o list \in Seq(dom)
      /\ Len(<<a>> \o list) = Len(list) + 1 /\ Len(list) \in Nat
      /\ (<<a>> \o list)[1] = a
      /\ \A i \in 1 .. Len(list) : (<<a>> \o list)[i + 1] = list[i]
      /\ \A i \in 2 .. Len(list) + 1 : (<<a>> \o list)[i] = list[i - 1]
  BY <1>1, ConcatProperties, LenProperties
<1> DEFINE new == <<a>> \o list
<1> HIDE DEF new
<1>3. \A i, j \in 1 .. Len(new) : i # j => new[i] # new[j]
  <2>1. ASSUME NEW j \in 2 .. Len(new)
        PROVE  new[j] = list[j - 1] /\ j - 1 \in 1 .. Len(list) /\ new[j] # a
    BY <1>2 DEF Chain, new
  <2>2. ASSUME NEW i \in 2 .. Len(new), NEW j \in 2 .. Len(new), i # j
        PROVE  new[i] # new[j]
    <3>1. i - 1 # j - 1
      BY <2>2
    <3> QED BY <2>1, <3>1 DEF Chain
  <2>3. Len(new) \in Nat /\ new[1] = a
    BY <1>2 DEF new
  <2>4. \A i \in 1 .. Len(new) : i = 1 \/ i \in 2 .. Len(new)
    BY <2>3
  <2> QED BY <2>1, <2>2, <2>3, <2>4
<1>4. \A i \in 1 .. Len(new) : new[i] \notin T
  <2> SUFFICES ASSUME NEW i \in 1 .. Len(new) PROVE new[i] \notin T
    OBVIOUS
  <2>1. CASE i = 1
    BY <2>1, <1>2 DEF new
  <2>2. CASE i # 1
    BY <2>2, <1>2 DEF Chain, new
  <2> QED BY <2>1, <2>2
<1>5. \A b \in dom : b \in T \/ \E i \in 1 .. Len(new) : new[i] = b
  <2> SUFFICES ASSUME NEW b \in dom, b \notin T
               PROVE  \E i \in 1 .. Len(new) : new[i] = b
    OBVIOUS
  <2>1. CASE b = a
    BY <2>1, <1>2 DEF new
  <2>2. CASE b # a
    <3>1. PICK i \in 1 .. Len(list) : list[i] = b
      BY <2>2 DEF Chain
    <3>2. i + 1 \in 1 .. Len(new) /\ new[i + 1] = b
      BY <3>1, <1>2 DEF new
    <3> QED BY <3>2
  <2> QED BY <2>1, <2>2
<1> QED BY <1>2, <1>3, <1>4, <1>5 DEF Chain, new

(* A freed chunk that has been merged into another is no chunk any more.   *)
LEMMA ChainAbsorb ==
    ASSUME NEW list, NEW dom, NEW T, NEW a, a \notin T, Chain(list, dom, T \cup {a})
    PROVE  Chain(list, dom \ {a}, T)
<1>1. list \in Seq(dom) /\ Len(list) \in Nat /\ DOMAIN list = 1 .. Len(list)
  BY LenProperties DEF Chain
<1>2. \A i \in 1 .. Len(list) : list[i] \in dom \ {a}
  BY <1>1, ElementOfSeq DEF Chain
<1>3. list \in Seq(dom \ {a})
  BY <1>1, <1>2
<1> QED BY <1>3 DEF Chain

(* A freed chunk takes the place of the one it has been merged with.       *)
LEMMA ChainReplace ==
    ASSUME NEW list, NEW dom, NEW T, NEW a, a \notin T, Chain(list, dom, T \cup {a}),
           NEW i \in 1 .. Len(list)
    PROVE  Chain([list EXCEPT ![i] = a], dom \ {list[i]}, T)
<1> DEFINE new == [list EXCEPT ![i] = a]
<1>1. /\ list \in Seq(dom) /\ Len(list) \in Nat /\ a \in dom /\ list[i] # a
      /\ \A j \in 1 .. Len(list) : list[j] \in dom
  BY LenProperties, ElementOfSeq DEF Chain
<1>2. /\ new \in Seq(dom) /\ Len(new) = Len(list)
      /\ \A j \in 1 .. Len(list) : new[j] = IF j = i THEN a ELSE list[j]
  BY <1>1, ExceptSeq
<1> HIDE DEF new
<1>3. \A j \in 1 .. Len(new) : new[j] \in dom \ {list[i]}
  BY <1>1, <1>2 DEF Chain
<1>4. new \in Seq(dom \ {list[i]})
  BY <1>2, <1>3, LenProperties
<1>5. \A j, k \in 1 .. Len(new) : j # k => new[j] # new[k]
  BY <1>1, <1>2 DEF Chain
<1>6. T \subseteq dom \ {list[i]} /\ \A j \in 1 .. Len(new) : new[j] \notin T
  BY <1>1, <1>2 DEF Chain
<1>7. ASSUME NEW b \in dom \ {list[i]}, b \notin T
      PROVE  \E j \in 1 .. Len(new) : new[j] = b
  <2>1. CASE b = a
    BY <2>1, <1>2
  <2>2. CASE b # a
    <3>1. PICK j \in 1 .. Len(list) : list[j] = b
      BY <2>2, <1>7 DEF Chain
    <3> QED BY <3>1, <1>2
  <2> QED BY <2>1, <2>2
<1> QED BY <1>4, <1>5, <1>6, <1>7 DEF Chain, new

(* A chunk is taken out of the chain to be used.                           *)
LEMMA ChainRemove ==
    ASSUME NEW list, NEW dom, NEW T, Chain(list, dom, T), NEW i \in 1 .. Len(list)
    PROVE  Chain(RemoveAt(list, i), dom, T \cup {list[i]})
<1> DEFINE new == RemoveAt(list, i)
<1>1. /\ list \in Seq(dom) /\ Len(list) \in Nat /\ i \in Nat /\ i >= 1 /\ i <= Len(list)
      /\ \A j \in 1 .. Len(list) : list[j] \in dom
  BY LenProperties, ElementOfSeq DEF Chain
<1>2. /\ SubSeq(list, 1, i - 1) \in Seq(dom)
      /\ Len(SubSeq(list, 1, i - 1)) = i - 1
      /\ \A j \in 1 .. i - 1 : SubSeq(list, 1, i - 1)[j] = list[j]
  <2>1. \A j \in 1 .. i - 1 : list[j] \in dom
    BY <1>1
  <2> QED BY <2>1, <1>1, SubSeqProperties
<1>3. /\ SubSeq(list, i + 1, Len(list)) \in Seq(dom)
      /\ Len(SubSeq(list, i + 1, Len(list))) = Len(list) - i
      /\ \A j \in 1 .. Len(list) - i : SubSeq(list, i + 1, Len(list))[j] = list[i + j]
  <2>1. \A j \in i + 1 .. Len(list) : list[j] \in dom
    BY <1>1
  <2> QED BY <2>1, <1>1, SubSeqProperties
<1>4. /\ new \in Seq(dom) /\ Len(new) = Len(list) - 1
      /\ \A j \in 1 .. Len(list) - 1 : new[j] = IF j < i THEN list[j] ELSE list[j + 1]
  <2> DEFINE s == SubSeq(list, 1, i - 1)
             t == SubSeq(list, i + 1, Len(list))
  <2>1. new = s \o t
    BY DEF RemoveAt
  <2>2. /\ s \in Seq(dom) /\ Len(s) = i - 1 /\ \A j \in 1 .. i - 1 : s[j] = list[j]
        /\ t \in Seq(dom) /\ Len(t) = Len(list) - i
        /\ \A j \in 1 .. Len(list) - i : t[j] = list[i + j]
    BY <1>2, <1>3
  <2> HIDE DEF s, t, new
  <2>3. /\ s \o t \in Seq(dom) /\ Len(s \o t) = Len(s) + Len(t)
        /\ \A j \in 1 .. Len(s) + Len(t) :
              (s \o t)[j] = IF j <= Len(s) THEN s[j] ELSE t[j - Len(s)]
    BY <2>2, ConcatProperties
  <2>4. Len(s) + Len(t) = Len(list) - 1
    BY <1>1, <2>2
  <2>5. ASSUME NEW j \in 1 .. Len(list) - 1
        PROVE  new[j] = IF j < i THEN list[j] ELSE list[j + 1]
    <3>1. CASE j < i
      BY <3>1, <1>1, <2>1, <2>2, <2>3, <2>4
    <3>2. CASE j >= i
      <4>1. j - (i - 1) \in 1 .. Len(list) - i /\ i + (j - (i - 1)) = j + 1
        BY <3>2, <1>1
      <4>2. new[j] = t[j - (i - 1)]
        BY <3>2, <1>1, <2>1, <2>2, <2>3, <2>4
      <4>3. t[j - (i - 1)] = list[i + (j - (i - 1))]
        BY <4>1, <2>2
      <4> QED BY <3>2, <4>1, <4>2, <4>3, <1>1
    <3> QED BY <3>1, <3>2, <1>1
  <2> QED BY <2>1, <2>3, <2>4, <2>5
<1> HIDE DEF new
<1> DEFINE from(j) == IF j < i THEN j ELSE j + 1
<1>5. \A j \in 1 .. Len(new) :
        from(j) \in 1 .. Len(list) /\ from(j) # i /\ new[j] = list[from(j)]
  BY <1>1, <1>4
<1>6. \A j, k \in 1 .. Len(new) : j # k => new[j] # new[k]
  <2> SUFFICES ASSUME NEW j \in 1 .. Len(new), NEW k \in 1 .. Len(new), j # k
               PROVE  new[j] # new[k]
    OBVIOUS
  <2>1. from(j) # from(k)
    BY <1>1, <1>4
  <2> HIDE DEF from
  <2> QED BY <2>1, <1>5 DEF Chain
<1>7. \A j \in 1 .. Len(new) : new[j] \notin T /\ new[j] # list[i]
  <2> HIDE DEF from
  <2> QED BY <1>5 DEF Chain
<1>8. ASSUME NEW b \in dom, b \notin T, b # list[i]
      PROVE  \E j \in 1 .. Len(new) : new[j] = b
  <2>1. PICK j \in 1 .. Len(list) : list[j] = b
    BY <1>8 DEF Chain
  <2>2. CASE j < i
    BY <2>1, <2>2, <1>1, <1>4
  <2>3. CASE j > i
    <3>1. j - 1 \in 1 .. Len(list) - 1 /\ new[j - 1] = b
      BY <2>1, <2>3, <1>1, <1>4
    <3> QED BY <3>1, <1>4
  <2> QED BY <2>1, <2>2, <2>3, <1>1, <1>8
<1> QED BY <1>1, <1>4, <1>6, <1>7, <1>8 DEF Chain, new

(* A new chunk that is in use from the start leaves the chain as it is.    *)
LEMMA ChainExtend ==
    ASSUME NEW list, NEW dom, NEW T, Chain(list, dom, T), NEW a, a \notin dom
    PROVE  Chain(list, dom \cup {a}, T \cup {a})
<1>1. list \in Seq(dom \cup {a}) /\ \A j \in 1 .. Len(list) : list[j] \in dom
  BY SeqMonotonic, ElementOfSeq DEF Chain
<1> QED BY <1>1 DEF Chain

--------------------------------------------------------------------------------
Kept(T, new, old) == \A t \in T : new[t] = old[t]

(* free() gives one chunk, a, from those in use back to the chain: the     *)
(* layout holds whichever way it merges, and no chunk in use is touched.   *)
LEMMA FreeChunkStep ==
    ASSUME NEW h, NEW end, NEW T, NEW a, a \notin T,
           Layout(h.size, end), Chain(h.list, DOMAIN h.size, T \cup {a})
    PROVE  /\ Layout(FreeChunk(h, a).size, end)
           /\ Chain(FreeChunk(h, a).list, DOMAIN FreeChunk(h, a).size, T)
           /\ Kept(T, FreeChunk(h, a).size, h.size)
<1> DEFINE list == h.list
           sz   == h.size
           hits == {i \in DOMAIN h.list :
                       Follows(h, h.list[i], a) \/ Follows(h, a, h.list[i])}
           i    == First(hits)
           node == h.list[i]
           g    == FreeChunk(h, a)
<1>1. /\ list \in Seq(DOMAIN sz) /\ DOMAIN list = 1 .. Len(list) /\ Len(list) \in Nat
      /\ a \in DOMAIN sz /\ T \subseteq DOMAIN sz
      /\ \A j \in 1 .. Len(list) : list[j] \in DOMAIN sz /\ list[j] \notin T \cup {a}
  BY LenProperties, ElementOfSeq DEF Chain
<1>2. g = IF hits = {} THEN [list |-> <<a>> \o h.list, size |-> h.size]
          ELSE IF Follows(h, h.list[i], a) THEN MergeIntoNode(h, h.list[i], a)
          ELSE MergeNode(h, i, a)
  BY DEF FreeChunk
<1>3. CASE hits = {}
  <2>1. g = [list |-> <<a>> \o list, size |-> sz]
    BY <1>2, <1>3
  <2> HIDE DEF g, list, sz
  <2>2. g.list = <<a>> \o list /\ g.size = sz
    BY <2>1
  <2>3. Chain(<<a>> \o list, DOMAIN sz, T)
    BY ChainAppend DEF list, sz
  <2> QED BY <2>2, <2>3 DEF g, sz, Kept
<1>4. CASE hits # {}
  <2>1. i \in hits
    <3>1. hits \in SUBSET Nat
      BY <1>1
    <3> HIDE DEF hits
    <3> QED BY <1>4, <3>1, FirstIsOne
  <2>2. i \in 1 .. Len(list) /\ (Follows(h, node, a) \/ Follows(h, a, node))
    <3> HIDE DEF i
    <3> QED BY <2>1, <1>1
  <2> HIDE DEF i, hits
  <2>3. node \in DOMAIN sz /\ node # a /\ node \notin T
    BY <2>2, <1>1
  <2>4. CASE Follows(h, node, a)
    <3>1. g.list = list /\ g.size = Merged(sz, node, a)
      BY <1>2, <1>4, <2>4 DEF MergeIntoNode, Merged
    <3>2. node + HEADER + sz[node] = a
      <4>1. node \in Nat /\ sz[node] \in Nat
        BY <2>3 DEF Layout, Headers
      <4> QED BY <4>1, <2>4 DEF Follows
    <3>3. Layout(sz, end) /\ a \in DOMAIN sz
      BY <1>1
    <3>4. Chain(list, DOMAIN sz \ {a}, T)
      BY ChainAbsorb
    <3> HIDE DEF g, node, list, sz
    <3>5. /\ Layout(Merged(sz, node, a), end)
          /\ DOMAIN Merged(sz, node, a) = DOMAIN sz \ {a}
          /\ \A b \in DOMAIN sz \ {node, a} : Merged(sz, node, a)[b] = sz[b]
      BY <2>3, <3>2, <3>3, MergeLayout
    <3>6. \A t \in T : t \in DOMAIN sz \ {node, a}
      BY <1>1, <2>3
    <3>7. Chain(g.list, DOMAIN g.size, T) /\ \A t \in T : g.size[t] = sz[t]
      BY <3>1, <3>4, <3>5, <3>6
    <3> QED BY <3>1, <3>5, <3>7 DEF g, sz, Kept
  <2>5. CASE ~ Follows(h, node, a)
    <3>1. g.list = [list EXCEPT ![i] = a] /\ g.size = Merged(sz, a, node)
      BY <1>2, <1>4, <2>5 DEF MergeNode, Merged
    <3>2. a + HEADER + sz[a] = node
      <4>1. a \in Nat /\ sz[a] \in Nat
        BY <1>1 DEF Layout, Headers
      <4> QED BY <4>1, <2>2, <2>5 DEF Follows
    <3>3. Layout(sz, end) /\ a \in DOMAIN sz
      BY <1>1
    <3>4. Chain([list EXCEPT ![i] = a], DOMAIN sz \ {node}, T)
      BY <2>2, ChainReplace
    <3> HIDE DEF g, node, list, sz
    <3>5. /\ Layout(Merged(sz, a, node), end)
          /\ DOMAIN Merged(sz, a, node) = DOMAIN sz \ {node}
          /\ \A b \in DOMAIN sz \ {a, node} : Merged(sz, a, node)[b] = sz[b]
      BY <2>3, <3>2, <3>3, MergeLayout
    <3>6. \A t \in T : t \in DOMAIN sz \ {a, node}
      BY <1>1, <2>3
    <3>7. Chain(g.list, DOMAIN g.size, T) /\ \A t \in T : g.size[t] = sz[t]
      BY <3>1, <3>4, <3>5, <3>6
    <3> QED BY <3>1, <3>5, <3>7 DEF g, sz, Kept
  <2> QED BY <2>4, <2>5
<1> QED BY <1>3, <1>4

--------------------------------------------------------------------------------
(* The inductive invariant.                                                *)

InUse(us) == {ChunkOf(p) : p \in DOMAIN us}

Asked(us, sz) ==
    \A p \in DOMAIN us :
        p \in Int /\ us[p] \in Requests /\ us[p] + HEADER <= sz[ChunkOf(p)]

HeapInv(list, sz, end, us) ==
    /\ Layout(sz, end)
    /\ Chain(list, DOMAIN sz, InUse(us))
    /\ Asked(us, sz)

Invariant == HeapInv(free_blocks, size, heap_end, used)

(* There is room for the header and the bytes asked for.                   *)
LEMMA RoundedRoom ==
    ASSUME NEW n \in Nat
    PROVE  Rounded(n) \in Nat /\ Rounded(n) >= n + HEADER /\ Rounded(n) > HEADER
  BY DEF Rounded, HEADER, HEAP_ALIGN

(* A pointer more, or one less, in use.                                    *)
LEMMA InUsePut ==
    ASSUME NEW us, NEW a \in Int, NEW n
    PROVE  InUse(Put(us, a + HEADER, n)) = InUse(us) \cup {a}
<1>1. ChunkOf(a + HEADER) = a
  BY DEF ChunkOf, HEADER
<1> QED BY <1>1 DEF InUse, Put

LEMMA InUseDrop ==
    ASSUME NEW us, DOMAIN us \subseteq Int, NEW p \in DOMAIN us
    PROVE  /\ InUse(us) = InUse(Drop(us, p)) \cup {ChunkOf(p)}
           /\ ChunkOf(p) \notin InUse(Drop(us, p))
<1>1. DOMAIN Drop(us, p) = DOMAIN us \ {p}
  BY DEF Drop
<1>2. \A q \in DOMAIN us : q # p => ChunkOf(q) # ChunkOf(p)
  BY DEF ChunkOf, HEADER
<1> QED BY <1>1, <1>2 DEF InUse

(* What malloc() does to the callers' pointers: chunk a is in use for n    *)
(* bytes, the other chunks in use have kept their size.                    *)
LEMMA AskedPut ==
    ASSUME NEW us, NEW sz, NEW new, NEW a \in Int, NEW n \in Requests,
           Asked(us, sz), a \notin InUse(us), n + HEADER <= new[a],
           \A b \in InUse(us) : new[b] = sz[b]
    PROVE  Asked(Put(us, a + HEADER, n), new)
<1>1. a + HEADER \in Int /\ ChunkOf(a + HEADER) = a
  BY DEF ChunkOf, HEADER
<1>2. a + HEADER \notin DOMAIN us
  BY <1>1 DEF InUse
<1>3. \A p \in DOMAIN us : ChunkOf(p) \in InUse(us)
  BY DEF InUse
<1>4. \A p \in DOMAIN us : new[ChunkOf(p)] = sz[ChunkOf(p)]
  BY <1>3
<1>5. /\ DOMAIN Put(us, a + HEADER, n) = DOMAIN us \cup {a + HEADER}
      /\ Put(us, a + HEADER, n)[a + HEADER] = n
      /\ \A p \in DOMAIN us : Put(us, a + HEADER, n)[p] = us[p]
  BY <1>2 DEF Put
<1> QED BY <1>1, <1>4, <1>5 DEF Asked

(* malloc() from the chain.                                                *)
LEMMA MallocReuseStep ==
    ASSUME Invariant, NEW n \in Requests, MallocReuse(n)
    PROVE  /\ Invariant'
           /\ \E p \in Int \ DOMAIN used : used' = Put(used, p, n)
<1> DEFINE need == Rounded(n)
           fits == {i \in DOMAIN free_blocks : size[free_blocks[i]] >= need}
           i    == First(fits)
           node == free_blocks[i]
           rest == [list |-> RemoveAt(free_blocks, i), size |-> size]
           T    == InUse(used)
<1>1. /\ Layout(size, heap_end) /\ Chain(free_blocks, DOMAIN size, T)
      /\ Asked(used, size)
  BY DEF Invariant, HeapInv
<1>2. /\ free_blocks \in Seq(DOMAIN size)
      /\ DOMAIN free_blocks = 1 .. Len(free_blocks) /\ Len(free_blocks) \in Nat
      /\ \A j \in 1 .. Len(free_blocks) : free_blocks[j] \in DOMAIN size
      /\ DOMAIN size \subseteq Nat /\ \A a \in DOMAIN size : size[a] \in Nat
  BY <1>1, LenProperties, ElementOfSeq DEF Chain, Layout, Headers
<1>3. n \in Nat /\ need \in Nat /\ need >= n + HEADER /\ need > HEADER
  BY HeapAssumption, RoundedRoom
<1>4. /\ fits # {}
      /\ Becomes(IF size[node] > need + SPLIT THEN Split(rest, node, need) ELSE rest)
      /\ used' = Put(used, node + HEADER, n)
      /\ heap_end' = heap_end
  BY DEF MallocReuse
<1>5. i \in fits
  <2>1. fits \in SUBSET Nat
    BY <1>2
  <2> HIDE DEF fits
  <2> QED BY <1>4, <2>1, FirstIsOne
<1>6. i \in 1 .. Len(free_blocks) /\ size[node] >= need
  <2> HIDE DEF i
  <2> QED BY <1>2, <1>5
<1>7. /\ node \in DOMAIN size /\ node \in Int /\ node \notin T
      /\ Chain(RemoveAt(free_blocks, i), DOMAIN size, T \cup {node})
  <2> HIDE DEF i, fits, T
  <2>1. node \in DOMAIN size /\ node \in Int
    BY <1>2, <1>6
  <2>2. node \notin T
    BY <1>1, <1>6 DEF Chain
  <2>3. Chain(RemoveAt(free_blocks, i), DOMAIN size, T \cup {node})
    BY <1>1, <1>6, ChainRemove
  <2> QED BY <2>1, <2>2, <2>3
<1> HIDE DEF i, fits, need
<1>8. InUse(used') = T \cup {node}
  <2> HIDE DEF node, T
  <2> QED BY <1>4, <1>7, InUsePut DEF T
<1>9. ASSUME ~ (size[node] > need + SPLIT)
      PROVE  Invariant'
  <2>1. free_blocks' = RemoveAt(free_blocks, i) /\ size' = size
    BY <1>4, <1>9 DEF Becomes
  <2> HIDE DEF node, T
  <2>2. n + HEADER <= size[node]
    BY <1>2, <1>3, <1>6, <1>7 DEF HEADER
  <2>3. Asked(used', size)
    BY <1>1, <1>4, <1>7, <2>2, AskedPut DEF T
  <2>4. HeapInv(free_blocks', size', heap_end', used')
    BY <1>1, <1>4, <1>7, <1>8, <2>1, <2>3 DEF HeapInv
  <2> QED BY <2>4 DEF Invariant
<1>10. ASSUME size[node] > need + SPLIT
       PROVE  Invariant'
  <2> DEFINE left  == node + HEADER + need
             sz    == Parted(size, node, need)
             h     == [list |-> RemoveAt(free_blocks, i), size |-> sz]
             g     == FreeChunk(h, left)
  <2>1. Becomes(g)
    <3>1. Split(rest, node, need) = g
      BY DEF Split, Parted
    <3> QED BY <1>4, <1>10, <3>1
  <2>2. free_blocks' = g.list /\ size' = g.size
    BY <2>1 DEF Becomes
  <2>3. h.list = RemoveAt(free_blocks, i) /\ h.size = sz
    OBVIOUS
  <2> HIDE DEF g, h, node, T
  <2>4. /\ Layout(sz, heap_end) /\ left \notin DOMAIN size
        /\ DOMAIN sz = DOMAIN size \cup {left} /\ sz[node] = need
        /\ \A a \in DOMAIN size \ {node} : sz[a] = size[a]
    <3>1. size[node] > need + HEADER + HEADER
      BY <1>2, <1>3, <1>7, <1>10 DEF HEADER, SPLIT
    <3>2. node \in DOMAIN size
      BY <1>7
    <3> QED BY <1>1, <1>3, <3>1, <3>2, SplitLayout
  <2> HIDE DEF sz, left
  <2>5. /\ Chain(h.list, DOMAIN h.size, (T \cup {node}) \cup {left})
        /\ left \notin T \cup {node}
    <3>1. Chain(RemoveAt(free_blocks, i), DOMAIN size \cup {left},
                (T \cup {node}) \cup {left})
      BY <1>7, <2>4, ChainExtend
    <3>2. T \cup {node} \subseteq DOMAIN size
      BY <1>1, <1>7 DEF Chain
    <3> QED BY <2>3, <2>4, <3>1, <3>2
  <2>6. /\ Layout(g.size, heap_end)
        /\ Chain(g.list, DOMAIN g.size, T \cup {node})
        /\ \A t \in T \cup {node} : g.size[t] = h.size[t]
    <3>1. Layout(h.size, heap_end)
      BY <2>3, <2>4
    <3>2. Layout(g.size, heap_end)
      BY <2>5, <3>1, FreeChunkStep DEF g
    <3>3. Chain(g.list, DOMAIN g.size, T \cup {node})
      BY <2>5, <3>1, FreeChunkStep DEF g
    <3>4. Kept(T \cup {node}, g.size, h.size)
      BY <2>5, <3>1, FreeChunkStep DEF g
    <3> QED BY <3>2, <3>3, <3>4 DEF Kept
  <2>7. \A t \in T : g.size[t] = size[t]
    <3>1. \A t \in T : t \in DOMAIN size \ {node}
      BY <1>1, <1>7 DEF Chain
    <3> QED BY <2>3, <2>4, <2>6, <3>1
  <2>8. n + HEADER <= g.size[node]
    BY <1>3, <2>3, <2>4, <2>6 DEF HEADER
  <2>9. Asked(used', g.size)
    BY <1>1, <1>4, <1>7, <2>7, <2>8, AskedPut DEF T
  <2>10. HeapInv(free_blocks', size', heap_end', used')
    BY <1>4, <1>8, <2>2, <2>6, <2>9 DEF HeapInv
  <2> QED BY <2>10 DEF Invariant
<1>11. node + HEADER \in Int \ DOMAIN used
  <2>1. ChunkOf(node + HEADER) = node /\ node + HEADER \in Int
    <3> HIDE DEF node
    <3> QED BY <1>7 DEF ChunkOf, HEADER
  <2> HIDE DEF node
  <2> QED BY <1>7, <2>1 DEF InUse, T
<1> QED BY <1>4, <1>9, <1>10, <1>11

(* malloc() from the end of the heap.                                      *)
LEMMA MallocGrowStep ==
    ASSUME Invariant, NEW n \in Requests, MallocGrow(n)
    PROVE  /\ Invariant'
           /\ \E p \in Int \ DOMAIN used : used' = Put(used, p, n)
<1> DEFINE need == Rounded(n)
           T    == InUse(used)
<1>1. /\ Layout(size, heap_end) /\ Chain(free_blocks, DOMAIN size, T)
      /\ Asked(used, size)
  BY DEF Invariant, HeapInv
<1>2. n \in Nat /\ need \in Nat /\ need >= n + HEADER /\ need > HEADER
  BY HeapAssumption, RoundedRoom
<1>3. /\ heap_end' = heap_end + need /\ size' = Put(size, heap_end, need)
      /\ used' = Put(used, heap_end + HEADER, n) /\ free_blocks' = free_blocks
  BY DEF MallocGrow
<1> HIDE DEF need, T
<1>4. /\ Layout(size', heap_end') /\ heap_end \notin DOMAIN size /\ heap_end \in Int
      /\ DOMAIN size' = DOMAIN size \cup {heap_end} /\ size'[heap_end] = need
      /\ \A a \in DOMAIN size : size'[a] = size[a]
  <2> DEFINE new == Put(size, heap_end, need)
  <2>1. /\ Layout(new, heap_end + need) /\ heap_end \notin DOMAIN size
        /\ DOMAIN new = DOMAIN size \cup {heap_end} /\ new[heap_end] = need
        /\ \A a \in DOMAIN size : new[a] = size[a]
    <3>1. Layout(size, heap_end)
      BY <1>1
    <3>2. Layout(new, heap_end + need)
      BY <1>2, <3>1, GrowLayout
    <3>3. heap_end \notin DOMAIN size
      BY <1>2, <3>1, GrowLayout
    <3>4. DOMAIN new = DOMAIN size \cup {heap_end} /\ new[heap_end] = need
      BY DEF Put
    <3>5. \A a \in DOMAIN size : new[a] = size[a]
      BY <3>3 DEF Put
    <3> QED BY <3>2, <3>3, <3>4, <3>5
  <2>2. heap_end \in Int
    BY <1>1 DEF Layout
  <2> HIDE DEF new
  <2>3. size' = new /\ heap_end' = heap_end + need
    BY <1>3 DEF new
  <2> QED BY <2>1, <2>2, <2>3
<1>5. T \subseteq DOMAIN size
  BY <1>1 DEF Chain
<1>6. Chain(free_blocks', DOMAIN size', T \cup {heap_end})
  BY <1>1, <1>3, <1>4, ChainExtend
<1>7. InUse(used') = T \cup {heap_end}
  BY <1>3, <1>4, InUsePut DEF T
<1>8. Asked(used', size')
  <2>1. n + HEADER <= size'[heap_end]
    BY <1>2, <1>4 DEF HEADER
  <2>2. heap_end \notin InUse(used) /\ \A b \in InUse(used) : size'[b] = size[b]
    BY <1>4, <1>5 DEF T
  <2> QED BY <1>1, <1>3, <1>4, <2>1, <2>2, AskedPut
<1>9. heap_end + HEADER \in Int \ DOMAIN used
  <2>1. ChunkOf(heap_end + HEADER) = heap_end /\ heap_end + HEADER \in Int
    BY <1>4 DEF ChunkOf, HEADER
  <2> QED BY <1>4, <1>5, <2>1 DEF InUse, T
<1> QED BY <1>3, <1>4, <1>6, <1>7, <1>8, <1>9 DEF Invariant, HeapInv

(* free().                                                                 *)
LEMMA FreeStep ==
    ASSUME Invariant, NEW ptr \in DOMAIN used, Free(ptr)
    PROVE  Invariant'
<1> DEFINE a == ChunkOf(ptr)
           T == InUse(Drop(used, ptr))
           h == [list |-> free_blocks, size |-> size]
<1>1. /\ Layout(size, heap_end) /\ Chain(free_blocks, DOMAIN size, InUse(used))
      /\ Asked(used, size)
  BY DEF Invariant, HeapInv
<1>2. /\ used' = Drop(used, ptr) /\ heap_end' = heap_end
      /\ free_blocks' = FreeChunk(h, a).list /\ size' = FreeChunk(h, a).size
  BY DEF Free, Becomes
<1>3. InUse(used) = T \cup {a} /\ a \notin T
  BY <1>1, InUseDrop DEF Asked
<1>4. h.list = free_blocks /\ h.size = size
  OBVIOUS
<1> HIDE DEF a, h, T
<1>5. /\ Layout(size', heap_end')
      /\ Chain(free_blocks', DOMAIN size', T)
      /\ \A t \in T : size'[t] = size[t]
  <2> DEFINE g == FreeChunk(h, a)
  <2>1. Layout(h.size, heap_end) /\ Chain(h.list, DOMAIN h.size, T \cup {a})
    BY <1>1, <1>3, <1>4
  <2>2. /\ Layout(g.size, heap_end)
        /\ Chain(g.list, DOMAIN g.size, T)
        /\ \A t \in T : g.size[t] = h.size[t]
    <3>1. a \notin T
      BY <1>3
    <3>2. Layout(g.size, heap_end)
      BY <2>1, <3>1, FreeChunkStep
    <3>3. Chain(g.list, DOMAIN g.size, T)
      BY <2>1, <3>1, FreeChunkStep
    <3>4. Kept(T, g.size, h.size)
      BY <2>1, <3>1, FreeChunkStep
    <3> QED BY <3>2, <3>3, <3>4 DEF Kept
  <2> HIDE DEF g
  <2>3. free_blocks' = g.list /\ size' = g.size /\ heap_end' = heap_end
    BY <1>2 DEF g
  <2> QED BY <1>4, <2>2, <2>3
<1>6. T = InUse(used')
  BY <1>2 DEF T
<1>7. Asked(used', size')
  <2>1. /\ DOMAIN used' \subseteq DOMAIN used
        /\ \A p \in DOMAIN used' : used'[p] = used[p]
    BY <1>2 DEF Drop
  <2>2. \A p \in DOMAIN used' : size'[ChunkOf(p)] = size[ChunkOf(p)]
    BY <1>5, <1>6 DEF InUse
  <2> QED BY <1>1, <2>1, <2>2 DEF Asked
<1> QED BY <1>5, <1>6, <1>7 DEF Invariant, HeapInv

(* Every step of malloc() and free() keeps the invariant.                  *)
THEOREM HeapInvariance == Spec => []Invariant
<1>1. Init => Invariant
  <2> SUFFICES ASSUME Init PROVE HeapInv(free_blocks, size, heap_end, used)
    BY DEF Invariant
  <2>1. /\ DOMAIN size = {} /\ InUse(used) = {} /\ DOMAIN used = {}
        /\ heap_end = Start /\ free_blocks = <<>> /\ Headers(size)
    BY DEF Init, InUse, Headers
  <2>2. Layout(size, heap_end)
    BY <2>1, HeapAssumption DEF Layout, Inside, Disjoint, Large, Tiled
  <2>3. Chain(free_blocks, DOMAIN size, InUse(used))
    BY <2>1 DEF Chain
  <2> QED BY <2>1, <2>2, <2>3 DEF HeapInv, Asked
<1>2. Invariant /\ [Next]_vars => Invariant'
  <2> SUFFICES ASSUME Invariant, [Next]_vars PROVE Invariant'
    OBVIOUS
  <2>1. ASSUME NEW n \in Requests, MallocReuse(n) PROVE Invariant'
    BY <2>1, MallocReuseStep
  <2>2. ASSUME NEW n \in Requests, MallocGrow(n) PROVE Invariant'
    BY <2>2, MallocGrowStep
  <2>3. ASSUME NEW ptr \in DOMAIN used, Free(ptr) PROVE Invariant'
    BY <2>3, FreeStep
  <2>4. CASE UNCHANGED vars
    BY <2>4 DEF Invariant, vars
  <2> QED BY <2>1, <2>2, <2>3, <2>4 DEF Next
<1> QED BY <1>1, <1>2, PTL DEF Spec

--------------------------------------------------------------------------------
(* What the invariant says, in the terms of Heap.                          *)

LEMMA InvariantTypes == Invariant => TypeOK
<1> SUFFICES ASSUME Invariant PROVE TypeOK
  OBVIOUS
<1>1. Layout(size, heap_end) /\ Chain(free_blocks, DOMAIN size, InUse(used))
      /\ Asked(used, size)
  BY DEF Invariant, HeapInv
<1>2. heap_end \in Nat /\ Headers(size) /\ free_blocks \in Seq(DOMAIN size)
  BY <1>1 DEF Layout, Chain
<1>3. ASSUME NEW ptr \in DOMAIN used
      PROVE  ptr \in Nat /\ used[ptr] \in Requests
  <2>1. ptr \in Int /\ used[ptr] \in Requests
    BY <1>1 DEF Asked
  <2>2. ChunkOf(ptr) \in Nat
    BY <1>1, <1>2 DEF Chain, InUse, Headers
  <2> QED BY <2>1, <2>2 DEF ChunkOf, HEADER
<1> QED BY <1>2, <1>3 DEF TypeOK, Chunk, Headers

LEMMA InvariantFreeOrInUse == Invariant => FreeOrInUse
<1> SUFFICES ASSUME Invariant PROVE FreeOrInUse
  OBVIOUS
<1>1. Chain(free_blocks, DOMAIN size, InUse(used)) /\ Asked(used, size)
      /\ Layout(size, heap_end)
  BY DEF Invariant, HeapInv
<1>2. DOMAIN free_blocks = 1 .. Len(free_blocks)
  BY <1>1, LenProperties DEF Chain
<1>3. \A i, j \in DOMAIN free_blocks : i # j => free_blocks[i] # free_blocks[j]
  BY <1>1, <1>2 DEF Chain
<1>4. ASSUME NEW ptr \in DOMAIN used
      PROVE  ChunkOf(ptr) \in Chunk \ Range(free_blocks)
  <2>1. ChunkOf(ptr) \in InUse(used)
    BY DEF InUse
  <2> QED BY <1>1, <1>2, <2>1 DEF Chain, Chunk, Range
<1>5. ASSUME NEW a \in Chunk
      PROVE  a \in Range(free_blocks) \/ a + HEADER \in DOMAIN used
  <2>1. CASE a \in InUse(used)
    <3>1. PICK ptr \in DOMAIN used : a = ChunkOf(ptr)
      BY <2>1 DEF InUse
    <3>2. ptr \in Int
      BY <1>1 DEF Asked
    <3>3. a + HEADER = ptr
      BY <3>1, <3>2 DEF ChunkOf, HEADER
    <3> QED BY <3>3
  <2>2. CASE a \notin InUse(used)
    BY <1>1, <1>2, <2>2 DEF Chain, Chunk, Range
  <2> QED BY <2>1, <2>2
<1> QED BY <1>3, <1>4, <1>5 DEF FreeOrInUse

LEMMA InvariantApart == Invariant => ChunksApart /\ NothingLost
  BY DEF Invariant, HeapInv, Layout, Inside, Disjoint, Tiled, Reaches,
         ChunksApart, NothingLost, Chunk

(* The bytes of a caller and a chunk: where they are to one another.       *)
LEMMA CallerAndChunk ==
    ASSUME Invariant, NEW ptr \in DOMAIN used
    PROVE  /\ ptr \in Int /\ used[ptr] \in Nat
           /\ ChunkOf(ptr) \in DOMAIN size /\ ChunkOf(ptr) \in Nat
           /\ ptr = ChunkOf(ptr) + 8
           /\ used[ptr] + 8 <= size[ChunkOf(ptr)]
<1>1. Layout(size, heap_end) /\ Chain(free_blocks, DOMAIN size, InUse(used))
      /\ Asked(used, size)
  BY DEF Invariant, HeapInv
<1>2. ChunkOf(ptr) \in InUse(used)
  BY DEF InUse
<1>3. ChunkOf(ptr) \in DOMAIN size /\ ChunkOf(ptr) \in Nat
  BY <1>1, <1>2 DEF Chain, Layout, Headers
<1>4. ptr \in Int /\ used[ptr] \in Nat /\ used[ptr] + 8 <= size[ChunkOf(ptr)]
  BY <1>1, HeapAssumption DEF Asked, HEADER
<1>5. ptr = ChunkOf(ptr) + 8
  BY <1>4 DEF ChunkOf, HEADER
<1> QED BY <1>3, <1>4, <1>5

LEMMA InvariantHeaders == Invariant => HeadersIntact
<1> SUFFICES ASSUME Invariant, NEW ptr \in DOMAIN used, NEW a \in DOMAIN size
             PROVE  ptr + used[ptr] <= a \/ a + HEADER <= ptr
  BY DEF HeadersIntact, Chunk
<1> DEFINE c == ChunkOf(ptr)
<1>1. /\ ptr \in Int /\ used[ptr] \in Nat /\ c \in DOMAIN size /\ c \in Nat
      /\ ptr = c + 8 /\ used[ptr] + 8 <= size[c]
  BY CallerAndChunk
<1> HIDE DEF c
<1>2. /\ a \in Nat /\ size[a] \in Nat /\ size[c] \in Nat /\ size[a] > 8
      /\ a # c => a + size[a] <= c \/ c + size[c] <= a
  BY <1>1 DEF Invariant, HeapInv, Layout, Headers, Large, Disjoint, HEADER
<1>3. CASE a = c
  BY <1>1, <1>3 DEF HEADER
<1>4. CASE a # c /\ a + size[a] <= c
  BY <1>1, <1>2, <1>4 DEF HEADER
<1>5. CASE a # c /\ c + size[c] <= a
  BY <1>1, <1>2, <1>5
<1> QED BY <1>2, <1>3, <1>4, <1>5

(* The memory of two callers.                                              *)
CallersApart ==
    \A p, q \in DOMAIN used : p # q => Promise!Apart(p, used[p], q, used[q])

LEMMA InvariantCallersApart == Invariant => CallersApart
<1> SUFFICES ASSUME Invariant, NEW p \in DOMAIN used, NEW q \in DOMAIN used, p # q
             PROVE  Promise!Apart(p, used[p], q, used[q])
  BY DEF CallersApart
<1> DEFINE c == ChunkOf(p)
           d == ChunkOf(q)
<1>1. /\ p \in Int /\ used[p] \in Nat /\ c \in DOMAIN size /\ c \in Nat
      /\ p = c + 8 /\ used[p] + 8 <= size[c]
  BY CallerAndChunk
<1>2. /\ q \in Int /\ used[q] \in Nat /\ d \in DOMAIN size /\ d \in Nat
      /\ q = d + 8 /\ used[q] + 8 <= size[d]
  BY CallerAndChunk
<1> HIDE DEF c, d
<1>3. c # d
  BY <1>1, <1>2
<1>4. /\ size[c] \in Nat /\ size[d] \in Nat
      /\ c + size[c] <= d \/ d + size[d] <= c
  BY <1>1, <1>2, <1>3 DEF Invariant, HeapInv, Layout, Headers, Disjoint
<1> QED BY <1>1, <1>2, <1>4 DEF Promise!Apart

--------------------------------------------------------------------------------
(* The addresses, the headers, the chain and what callers hold have their  *)
(* types in every state malloc() and free() reach.                         *)
THEOREM TypeCorrect == Spec => []TypeOK
  BY HeapInvariance, InvariantTypes, PTL

(* Whatever is allocated, split, merged and freed in which order: a chunk  *)
(* is in the chain once or in use, never both and never neither.           *)
THEOREM FreeOrInUseHolds == Spec => []FreeOrInUse
  BY HeapInvariance, InvariantFreeOrInUse, PTL

(* No two chunks overlap and none reaches past the end of the heap.        *)
THEOREM ChunksApartHolds == Spec => []ChunksApart
  BY HeapInvariance, InvariantApart, PTL

(* A caller that keeps to the bytes it asked for writes into no header.    *)
THEOREM HeadersIntactHolds == Spec => []HeadersIntact
  BY HeapInvariance, InvariantHeaders, PTL

(* All of the heap belongs to some chunk, but for the gaps of a header.    *)
THEOREM NothingLostHolds == Spec => []NothingLost
  BY HeapInvariance, InvariantApart, PTL

(* malloc() and free() keep the promise of an allocator: the memory given  *)
(* to a caller is nobody else's until that caller frees it.                *)
THEOREM AllocatorImplemented == Spec => ImplementsAllocator
<1>1. Init => Promise!Init
  BY DEF Init, Promise!Init
<1>2. Invariant /\ CallersApart' /\ [Next]_vars => [Promise!Next]_used
  <2> SUFFICES ASSUME Invariant, CallersApart', [Next]_vars
               PROVE  [Promise!Next]_used
    OBVIOUS
  <2>1. ASSUME NEW n \in Requests, NEW p \in Int \ DOMAIN used,
               used' = Put(used, p, n)
        PROVE  Promise!Next
    <3>1. /\ DOMAIN used' = DOMAIN used \cup {p} /\ used'[p] = n
          /\ \A q \in DOMAIN used : used'[q] = used[q] /\ q # p
      BY <2>1 DEF Put
    <3>2. \A q \in DOMAIN used' : q # p => Promise!Apart(p, used'[p], q, used'[q])
      BY <3>1 DEF CallersApart
    <3>3. Promise!Malloc(p, n)
      BY <2>1, <3>1, <3>2 DEF Promise!Malloc, Put
    <3> QED BY <3>1, <3>3 DEF Promise!Next
  <2>2. ASSUME NEW n \in Requests, MallocReuse(n) PROVE Promise!Next
    BY <2>1, <2>2, MallocReuseStep
  <2>3. ASSUME NEW n \in Requests, MallocGrow(n) PROVE Promise!Next
    BY <2>1, <2>3, MallocGrowStep
  <2>4. ASSUME NEW ptr \in DOMAIN used, Free(ptr) PROVE Promise!Next
    BY <2>4 DEF Free, Drop, Promise!Next, Promise!Free
  <2>5. CASE UNCHANGED vars
    BY <2>5 DEF vars
  <2> QED BY <2>2, <2>3, <2>4, <2>5 DEF Next
<1> QED BY <1>1, <1>2, HeapInvariance, InvariantCallersApart, PTL
        DEF Spec, ImplementsAllocator, Promise!Spec

================================================================================
