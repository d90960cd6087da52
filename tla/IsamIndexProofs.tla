--------------------------- MODULE IsamIndexProofs ---------------------------
(***************************************************************************)
(* The data pages of IsamIndex are well formed, their chains are disjoint, *)
(* and every record is in a chain its key belongs to, for any keys, page   *)
(* sizes, levels and batches.                                              *)
(*                                                                         *)
(* Whatever the pages hold, only the pointers between them matter for the  *)
(* chains.  Removals leave pages behind that still point into a chain, so  *)
(* the invariant is about a set of pages that leaves those out: on it the  *)
(* pointers are one-to-one, lead to no first page of a leaf, and nowhere   *)
(* else.  Each of these pages is owned by a leaf, the one of the page it   *)
(* is reached from, and its records are such as belong behind that leaf.   *)
(*                                                                         *)
(* What search finds is then followed through every write: a call changes  *)
(* a window of one or two pages of one chain, and what the window has for  *)
(* each key tells what search finds for it.                                *)
(***************************************************************************)
EXTENDS IsamIndex, NaturalSets, SequenceTheorems, FiniteSetTheorems

\* Time for each prover, for slower machines than the one the proofs were written on.
USE SMTT(60), ZenonT(60)

\* The files as they are once build has run.
Files == [pages : Seq(DataPage), sep : Seq(Key)]

WellFormed(f) ==
  /\ f \in Files /\ Len(f.pages) >= Leaves
  /\ \A i \in 1..Len(f.pages) :
       f.pages[i].next \in 0..Len(f.pages) /\ (i > Leaves => f.pages[i].recs # <<>>)

\* The pages in `linked' are those of the chains, and perhaps others that a chain
\* once had.
LinkedBy(f, linked) ==
  /\ 1..Leaves \subseteq linked /\ linked \subseteq 1..Len(f.pages)
  /\ \A p \in linked : f.pages[p].next # 0 => f.pages[p].next \in linked \ 1..Leaves
  /\ \A p, q \in linked :
       f.pages[p].next # 0 /\ f.pages[p].next = f.pages[q].next => p = q

\* The records whose keys belong behind a leaf: a key that a leaf begins with
\* belongs behind that leaf and the one before.
Behind(sep, leaf) ==
  {r \in Record : /\ leaf > 1 => sep[leaf - 1] <= r.key
                  /\ leaf < Leaves => r.key <= sep[leaf]}

\* The leaf whose chain has, or once had, each of the linked pages.
OwnedBy(f, linked, owner) ==
  /\ owner \in [Nat -> 1..Leaves]
  /\ \A leaf \in 1..Leaves : owner[leaf] = leaf
  /\ \A p \in linked : f.pages[p].next # 0 => owner[f.pages[p].next] = owner[p]
  /\ \A p \in linked : f.pages[p].recs \in Seq(Behind(f.sep, owner[p]))

Linked(f) == \E linked \in SUBSET (1..Len(f.pages)) :
               \E owner : LinkedBy(f, linked) /\ OwnedBy(f, linked, owner)

\* The leaves begin with larger and larger keys.
LeavesOrdered(f) ==
  /\ Len(f.sep) = Leaves - 1
  /\ \A i, j \in 1..Leaves - 1 : i <= j => f.sep[i] <= f.sep[j]

IInv == TypeOK /\ (built => LeavesOrdered(isam) /\ Linked(isam))

-----------------------------------------------------------------------------
(* The tree.                                                                *)

\* The recursive definition of Width has a solution.
LEMMA WidthDefined ==
  Width[0] = 1 /\ \A n \in 1..Levels : Width[n] = (M + 1) * Width[n - 1]
<1> DEFINE Solves(w, n) == w = [i \in 0..n |-> IF i = 0 THEN 1 ELSE (M + 1) * w[i - 1]]
           S == {n \in Nat : \E w : Solves(w, n)}
<1>1. 0 \in S
  <2>1. Solves([i \in 0..0 |-> 1], 0)
    OBVIOUS
  <2> QED BY <2>1
<1>2. ASSUME NEW n \in Nat, n \in S
      PROVE  n + 1 \in S
  <2>1. PICK w : Solves(w, n)
    BY <1>2
  <2> DEFINE v == [i \in 0..n + 1 |-> IF i = n + 1 THEN (M + 1) * w[n] ELSE w[i]]
  <2>2. \A i \in 0..n + 1 : v[i] = IF i = 0 THEN 1 ELSE (M + 1) * v[i - 1]
    <3> SUFFICES ASSUME NEW i \in 0..n + 1
                 PROVE  v[i] = IF i = 0 THEN 1 ELSE (M + 1) * v[i - 1]
      OBVIOUS
    <3>1. CASE i = n + 1
      <4>1. i - 1 = n /\ n \in 0..n + 1 /\ n # n + 1 /\ i # 0
        BY <3>1
      <4>2. v[i] = (M + 1) * w[n] /\ v[n] = w[n]
        BY <3>1, <4>1
      <4> HIDE DEF v
      <4> QED BY <4>1, <4>2
    <3>2. CASE i \in 0..n
      <4>1. v[i] = w[i] /\ (i # 0 => v[i - 1] = w[i - 1])
        BY <3>2
      <4>2. w[i] = IF i = 0 THEN 1 ELSE (M + 1) * w[i - 1]
        BY <2>1, <3>2
      <4> QED BY <4>1, <4>2
    <3> QED BY <3>1, <3>2
  <2>3. Solves(v, n + 1)
    BY <2>2
  <2> HIDE DEF v
  <2> QED BY <2>3
<1>3. Levels \in S
  <2> HIDE DEF S
  <2> QED BY <1>1, <1>2, SetInduction, IsamIndexAssumption
<1>4. Solves(Width, Levels)
  BY <1>3 DEF Width
<1>5. \A n \in 0..Levels : Width[n] = IF n = 0 THEN 1 ELSE (M + 1) * Width[n - 1]
  BY <1>4
<1> QED BY <1>5, IsamIndexAssumption

\* There are leaves below every page.
LEMMA WidthPositive ==
  \A n \in 0..Levels : Width[n] \in Nat \ {0}
<1> DEFINE S == {n \in Nat : n \in 0..Levels => Width[n] \in Nat \ {0}}
<1>1. 0 \in S
  BY WidthDefined, IsamIndexAssumption
<1>2. ASSUME NEW n \in Nat, n \in S
      PROVE  n + 1 \in S
  <2> SUFFICES ASSUME n + 1 \in 0..Levels
               PROVE  Width[n + 1] \in Nat \ {0}
    OBVIOUS
  <2>1. Width[n] \in Nat \ {0}
    BY <1>2, IsamIndexAssumption
  <2>2. Width[n + 1] = (M + 1) * Width[n]
    <3>1. n + 1 \in 1..Levels /\ (n + 1) - 1 = n
      OBVIOUS
    <3> QED BY <3>1, WidthDefined
  <2>3. (M + 1) * Width[n] = M * Width[n] + Width[n] /\ M * Width[n] \in Nat
    BY <2>1, IsamIndexAssumption
  <2> QED BY <2>1, <2>2, <2>3
<1>3. Nat \subseteq S
  <2> HIDE DEF S
  <2> QED BY <1>1, <1>2, SetInduction
<1> QED BY <1>3

LEMMA LeavesPositive == Leaves \in Nat \ {0}
BY WidthPositive, IsamIndexAssumption DEF Leaves

LEMMA TimesMonotone ==
  ASSUME NEW a \in Nat, NEW b \in Nat, NEW w \in Nat, a <= b
  PROVE  a * w \in Nat /\ a * w <= b * w
<1>1. (b - a) * w \in Nat /\ a * w \in Nat /\ b - a \in Nat
  OBVIOUS
<1>2. b * w = a * w + (b - a) * w
  OBVIOUS
<1> QED BY <1>1, <1>2

\* The walk down the tree ends at a leaf, whatever the keys of the index pages: one
\* that begins with a key that is passed, before one that does not.
LEMMA LeafFound ==
  ASSUME NEW f, NEW passed
  PROVE  LET leaf == Leaf(f, passed)
         IN  /\ leaf \in 1..Leaves
             /\ leaf > 1 => f.sep[leaf - 1] \in passed
             /\ leaf < Leaves => f.sep[leaf] \notin passed
<1> DEFINE width(level) == Width[level - 1]
           index(level, first) ==
             Min({c \in 0..M : c = M \/ f.sep[first + (c + 1) * width(level) - 1] \notin passed})
           child(level, first) == first + index(level, first) * width(level)
           Solves(w, n) ==
             w = [level \in 0..n |-> [first \in Nat |->
                    IF level = 0 THEN first ELSE w[level - 1][child(level, first)]]]
           down == CHOOSE w : Solves(w, Levels)
<1>1. \A level, first :
        LET c == index(level, first)
        IN  /\ c \in 0..M
            /\ c # M => f.sep[first + (c + 1) * width(level) - 1] \notin passed
            /\ \A d \in 0..M : d < c => f.sep[first + (d + 1) * width(level) - 1] \in passed
  <2> SUFFICES ASSUME NEW level, NEW first
               PROVE  LET c == index(level, first)
                      IN  /\ c \in 0..M
                          /\ c # M => f.sep[first + (c + 1) * width(level) - 1] \notin passed
                          /\ \A d \in 0..M : d < c =>
                               f.sep[first + (d + 1) * width(level) - 1] \in passed
    OBVIOUS
  <2> DEFINE At(c) == f.sep[first + (c + 1) * width(level) - 1]
             cs == {c \in 0..M : c = M \/ At(c) \notin passed}
  <2> HIDE DEF At
  <2>1. cs \subseteq 0..M /\ cs \subseteq Nat /\ M \in cs
    BY IsamIndexAssumption
  <2>2. \A c \in cs : c = M \/ At(c) \notin passed
    OBVIOUS
  <2>3. \A d \in 0..M : d \notin cs => At(d) \in passed
    OBVIOUS
  <2> HIDE DEF cs
  <2>4. Min(cs) \in cs /\ \A d \in cs : Min(cs) <= d
    BY <2>1, MinIsLeast
  <2> DEFINE least == Min(cs)
  <2>5. /\ least \in 0..M /\ least \in Nat
        /\ least # M => At(least) \notin passed
    BY <2>1, <2>2, <2>4
  <2>6. ASSUME NEW d \in 0..M, d < least
        PROVE  At(d) \in passed
    <3>1. d \notin cs
      BY <2>4, <2>5, <2>6
    <3> QED BY <2>3, <3>1
  <2>7. index(level, first) = least
    BY DEF cs, At
  <2> HIDE DEF least, index
  <2> QED BY <2>5, <2>6, <2>7 DEF At
<1> HIDE DEF index
<1>2. \A level \in 1..Levels, first \in Nat :
        /\ child(level, first) \in Nat /\ child(level, first) >= first
        /\ child(level, first) + Width[level - 1] <= first + Width[level]
  <2> SUFFICES ASSUME NEW level \in 1..Levels, NEW first \in Nat
               PROVE  /\ child(level, first) \in Nat /\ child(level, first) >= first
                      /\ child(level, first) + Width[level - 1] <= first + Width[level]
    OBVIOUS
  <2>1. /\ index(level, first) \in Nat /\ index(level, first) + 1 <= M + 1 /\ M + 1 \in Nat
        /\ index(level, first) + 1 \in Nat /\ level - 1 \in 0..Levels
    BY <1>1, IsamIndexAssumption
  <2>2. /\ Width[level - 1] \in Nat /\ Width[level] \in Nat
        /\ Width[level] = (M + 1) * Width[level - 1]
    BY <2>1, WidthDefined, WidthPositive
  <2>3. (index(level, first) + 1) * Width[level - 1] <= Width[level]
    BY <2>1, <2>2, TimesMonotone
  <2>4. /\ index(level, first) * Width[level - 1] \in Nat
        /\ (index(level, first) + 1) * Width[level - 1]
             = index(level, first) * Width[level - 1] + Width[level - 1]
    BY <2>1, <2>2
  <2> QED BY <2>2, <2>3, <2>4
<1> HIDE DEF child
<1>3. \E w : Solves(w, Levels)
  <2> DEFINE S == {n \in Nat : n <= Levels => \E w : Solves(w, n)}
  <2>1. 0 \in S
    <3>1. Solves([level \in 0..0 |-> [first \in Nat |-> first]], 0)
      OBVIOUS
    <3> QED BY <3>1
  <2>2. ASSUME NEW n \in Nat, n \in S
        PROVE  n + 1 \in S
    <3> SUFFICES ASSUME n + 1 <= Levels PROVE \E w : Solves(w, n + 1)
      OBVIOUS
    <3>1. PICK w : Solves(w, n)
      BY <2>2, IsamIndexAssumption
    <3> DEFINE v == [level \in 0..n + 1 |-> [first \in Nat |->
                       IF level = n + 1 THEN w[n][child(level, first)] ELSE w[level][first]]]
    <3>2. \A level \in 0..n + 1, first \in Nat :
            v[level][first] = IF level = 0 THEN first ELSE v[level - 1][child(level, first)]
      <4> SUFFICES ASSUME NEW level \in 0..n + 1, NEW first \in Nat
                   PROVE  v[level][first] = IF level = 0 THEN first
                                            ELSE v[level - 1][child(level, first)]
        OBVIOUS
      <4>1. level # 0 => child(level, first) \in Nat
        BY <1>2, IsamIndexAssumption
      <4>2. CASE level = n + 1
        <5>1. level - 1 = n /\ n \in 0..n + 1 /\ n # n + 1 /\ level # 0
          BY <4>2
        <5>2. /\ v[level][first] = w[n][child(level, first)]
              /\ v[n][child(level, first)] = w[n][child(level, first)]
          BY <4>1, <4>2, <5>1
        <5> HIDE DEF v
        <5> QED BY <5>1, <5>2
      <4>3. CASE level \in 0..n
        <5>1. /\ v[level][first] = w[level][first]
              /\ level # 0 => v[level - 1][child(level, first)] = w[level - 1][child(level, first)]
          <6>1. CASE level = 0
            BY <4>3, <6>1
          <6>2. CASE level # 0
            <7>1. level - 1 \in 0..n + 1 /\ level - 1 # n + 1 /\ child(level, first) \in Nat
              BY <4>1, <4>3, <6>2
            <7> QED BY <4>3, <7>1
          <6> QED BY <6>1, <6>2
        <5>2. w[level] = [i \in Nat |-> IF level = 0 THEN i ELSE w[level - 1][child(level, i)]]
          BY <3>1, <4>3
        <5>3. w[level][first] = IF level = 0 THEN first ELSE w[level - 1][child(level, first)]
          BY <5>2
        <5> HIDE DEF v
        <5> QED BY <5>1, <5>3
      <4> QED BY <4>2, <4>3
    <3>3. Solves(v, n + 1)
      BY <3>2
    <3> HIDE DEF v
    <3> QED BY <3>3
  <2>3. Nat \subseteq S
    <3> HIDE DEF S
    <3> QED BY <2>1, <2>2, SetInduction
  <2>4. Levels \in S
    <3> HIDE DEF S
    <3> QED BY <2>3, IsamIndexAssumption
  <2> QED BY <2>4
<1>4. Solves(down, Levels)
  <2> HIDE DEF Solves
  <2> QED BY <1>3
<1>5. \A level \in 0..Levels, first \in Nat :
        down[level][first] = IF level = 0 THEN first ELSE down[level - 1][child(level, first)]
  <2> HIDE DEF down
  <2> TAKE level \in 0..Levels, first \in Nat
  <2>1. down[level] = [i \in Nat |-> IF level = 0 THEN i ELSE down[level - 1][child(level, i)]]
    BY <1>4
  <2> QED BY <2>1
<1> DEFINE Found(leaf, first, last) ==
             /\ leaf \in first..last
             /\ leaf > first => f.sep[leaf - 1] \in passed
             /\ leaf < last => f.sep[leaf] \notin passed
           S == {n \in Nat : n <= Levels =>
                   \A first \in Nat \ {0} : Found(down[n][first], first, first + Width[n] - 1)}
<1> HIDE DEF down, Solves
<1>6. 0 \in S
  <2> SUFFICES ASSUME NEW first \in Nat \ {0}
               PROVE  Found(down[0][first], first, first + Width[0] - 1)
    OBVIOUS
  <2>1. 0 \in 0..Levels /\ Width[0] = 1
    BY WidthDefined, IsamIndexAssumption
  <2>2. down[0][first] = first /\ first + Width[0] - 1 = first
    BY <1>5, <2>1
  <2> QED BY <2>2
<1>7. ASSUME NEW n \in Nat, n \in S
      PROVE  n + 1 \in S
  <2> SUFFICES ASSUME n + 1 <= Levels, NEW first \in Nat \ {0}
               PROVE  Found(down[n + 1][first], first, first + Width[n + 1] - 1)
    BY DEF S
  <2>1. /\ n + 1 \in 1..Levels /\ (n + 1) - 1 = n /\ first \in Nat /\ n + 1 # 0
        /\ n \in 0..Levels /\ n + 1 \in 0..Levels /\ n <= Levels
    BY <1>7, IsamIndexAssumption
  <2>2. /\ child(n + 1, first) \in Nat \ {0}
        /\ child(n + 1, first) + Width[n] <= first + Width[n + 1]
    BY <1>2, <2>1
  <2>3. Width[n] \in Nat /\ Width[n + 1] \in Nat
    BY <2>1, WidthPositive
  <2>4. down[n + 1][first] = down[n][child(n + 1, first)]
    BY <1>5, <2>1
  <2> DEFINE c == index(n + 1, first)
             w == Width[n]
             begin == child(n + 1, first)
             leaf == down[n][begin]
             end == first + Width[n + 1] - 1
  <2>5. Found(leaf, begin, begin + w - 1)
    BY <1>7, <2>1, <2>2
  <2>6. /\ c \in 0..M /\ begin = first + c * w
        /\ c # M => f.sep[first + (c + 1) * w - 1] \notin passed
        /\ \A d \in 0..M : d < c => f.sep[first + (d + 1) * w - 1] \in passed
    BY <1>1, <2>1 DEF child
  <2>7. c # M => f.sep[begin + w - 1] \notin passed
    <3>1. first + (c + 1) * w - 1 = begin + w - 1
      <4>1. c \in Nat /\ w \in Nat /\ first \in Nat
        BY <2>1, <2>3, <2>6, IsamIndexAssumption
      <4> HIDE DEF c, w, begin
      <4>2. (c + 1) * w = c * w + w /\ c * w \in Nat
        BY <4>1
      <4> QED BY <2>6, <4>1, <4>2
    <3> HIDE DEF c, w, begin
    <3> QED BY <2>6, <3>1
  <2>8. c # 0 => f.sep[begin - 1] \in passed
    <3> SUFFICES ASSUME c # 0 PROVE f.sep[begin - 1] \in passed
      OBVIOUS
    <3>1. c - 1 \in 0..M /\ c - 1 < c /\ (c - 1) + 1 = c
      <4> HIDE DEF c
      <4> QED BY <2>6, IsamIndexAssumption
    <3> HIDE DEF c, w, begin
    <3>2. f.sep[first + ((c - 1) + 1) * w - 1] \in passed
      BY <2>6, <3>1
    <3>3. first + ((c - 1) + 1) * w - 1 = begin - 1
      <4>1. c \in Nat /\ w \in Nat /\ begin = first + c * w
        BY <2>3, <2>6, IsamIndexAssumption DEF w
      <4> QED BY <2>1, <3>1, <4>1
    <3> QED BY <3>2, <3>3
  <2>9. c = 0 => begin = first
    <3> HIDE DEF c, begin
    <3>1. w \in Nat
      BY <2>3
    <3> QED BY <2>1, <2>6, <3>1
  <2>10. ASSUME c = M PROVE begin + w - 1 = end
    <3> DEFINE all == Width[n + 1]
    <3>1. all = (M + 1) * w
      BY <2>1, WidthDefined
    <3>2. M \in Nat /\ w \in Nat /\ first \in Nat /\ begin = first + M * w
      BY <2>1, <2>3, <2>6, <2>10, IsamIndexAssumption
    <3> HIDE DEF c, w, begin, all
    <3>3. (M + 1) * w = M * w + w /\ M * w \in Nat
      BY <3>2
    <3>4. end = first + all - 1
      BY DEF all
    <3> HIDE DEF end
    <3> QED BY <3>1, <3>2, <3>3, <3>4
  <2>11. begin \in Nat /\ begin >= first /\ begin + w - 1 <= end /\ w \in Nat /\ end \in Int
    BY <1>2, <2>1, <2>2, <2>3
  <2> HIDE DEF c, w, begin, end, leaf
  <2>12. Found(leaf, first, end)
    <3>1. leaf \in first..end /\ leaf \in begin..begin + w - 1
      BY <2>1, <2>5, <2>11
    <3>2. ASSUME leaf > first PROVE f.sep[leaf - 1] \in passed
      <4>1. CASE leaf > begin
        BY <2>5, <4>1
      <4>2. CASE ~ (leaf > begin)
        <5>1. leaf = begin
          BY <2>11, <3>1, <4>2
        <5> QED BY <2>8, <2>9, <2>11, <3>2, <5>1
      <4> QED BY <4>1, <4>2
    <3>3. ASSUME leaf < end PROVE f.sep[leaf] \notin passed
      <4>1. CASE leaf < begin + w - 1
        BY <2>5, <4>1
      <4>2. CASE ~ (leaf < begin + w - 1)
        <5>1. leaf = begin + w - 1
          BY <2>11, <3>1, <4>2
        <5> QED BY <2>7, <2>10, <2>11, <3>3, <5>1
      <4> QED BY <4>1, <4>2
    <3> QED BY <3>1, <3>2, <3>3
  <2> QED BY <2>4, <2>12 DEF leaf, begin, end
<1>8. Nat \subseteq S
  <2> HIDE DEF S
  <2> QED BY <1>6, <1>7, SetInduction
<1>9. Found(down[Levels][1], 1, Leaves)
  <2>1. Levels \in S /\ Levels \in Nat /\ Levels <= Levels
    BY <1>8, IsamIndexAssumption
  <2>2. 1 + Width[Levels] - 1 = Leaves
    BY LeavesPositive DEF Leaves
  <2>3. Found(down[Levels][1], 1, 1 + Width[Levels] - 1)
    <3> HIDE DEF Found
    <3> QED BY <2>1
  <2> QED BY <2>2, <2>3
<1>10. Leaf(f, passed) = down[Levels][1]
  BY DEF Leaf, down, Solves, child, index
<1> QED BY <1>9, <1>10

-----------------------------------------------------------------------------
(* Chains.                                                                  *)

\* Every pointer is to a page of the file.
Pointing(f) ==
  /\ Len(f.pages) \in Nat
  /\ \A i \in 1..Len(f.pages) : f.pages[i].next \in 0..Len(f.pages)

\* A chain begins with the page it is of, each of its pages points to the next
\* one, and it goes on until a page points to none, or for as many steps as there
\* are pages.
LEMMA ChainWalk ==
  ASSUME NEW f, Pointing(f), NEW page \in 1..Len(f.pages)
  PROVE  LET c == Chain(f, page)
         IN  /\ c \in Seq(1..Len(f.pages)) /\ Len(c) \in Nat \ {0} /\ c[1] = page
             /\ \A i \in 1..Len(c) - 1 : f.pages[c[i]].next = c[i + 1]
             /\ Len(c) = Len(f.pages) \/ f.pages[c[Len(c)]].next = 0
<1> DEFINE size == Len(f.pages)
           To(p) == f.pages[p].next
           Solves(w, m) ==
             w = [n \in 0..m |-> [p \in 0..size |->
                    IF p = 0 \/ n = 0 THEN <<>> ELSE <<p>> \o w[n - 1][f.pages[p].next]]]
           walk == CHOOSE w : Solves(w, size)
           None == [p \in 0..size |-> <<>>]
           Before(row) == [p \in 0..size |-> IF p = 0 THEN <<>> ELSE <<p>> \o row[To(p)]]
           Rows(w, m) == \A n \in 0..m : w[n] = IF n = 0 THEN None ELSE Before(w[n - 1])
<1>1. size \in Nat /\ \A p \in 1..size : To(p) \in 0..size
  BY DEF Pointing
<1>2. ASSUME NEW w, NEW m \in Nat, w = [n \in 0..m |-> w[n]]
      PROVE  Solves(w, m) <=> Rows(w, m)
  <2>1. \A n \in 0..m :
          [p \in 0..size |-> IF p = 0 \/ n = 0 THEN <<>> ELSE <<p>> \o w[n - 1][f.pages[p].next]]
            = IF n = 0 THEN None ELSE Before(w[n - 1])
    <3> HIDE DEF size
    <3> TAKE n \in 0..m
    <3>1. CASE n = 0
      BY <3>1
    <3>2. CASE n # 0
      BY <3>2
    <3> QED BY <3>1, <3>2
  <2> HIDE DEF None, Before
  <2>2. Solves(w, m) <=> \A n \in 0..m :
          w[n] = [p \in 0..size |->
                    IF p = 0 \/ n = 0 THEN <<>> ELSE <<p>> \o w[n - 1][f.pages[p].next]]
    <3>1. ASSUME Solves(w, m), NEW n \in 0..m
          PROVE  w[n] = [p \in 0..size |->
                    IF p = 0 \/ n = 0 THEN <<>> ELSE <<p>> \o w[n - 1][f.pages[p].next]]
      BY <3>1
    <3>2. ASSUME \A n \in 0..m : w[n] = [p \in 0..size |->
                    IF p = 0 \/ n = 0 THEN <<>> ELSE <<p>> \o w[n - 1][f.pages[p].next]]
          PROVE  Solves(w, m)
      BY <1>2, <3>2
    <3> QED BY <3>1, <3>2
  <2> QED BY <2>1, <2>2
<1>3. \E w : w = [n \in 0..size |-> w[n]] /\ Rows(w, size)
  <2> HIDE DEF None, Before, size
  <2> DEFINE S == {m \in Nat : \E w : w = [n \in 0..m |-> w[n]] /\ Rows(w, m)}
  <2>1. 0 \in S
    <3> DEFINE v == [n \in 0..0 |-> None]
    <3>1. v = [n \in 0..0 |-> v[n]] /\ Rows(v, 0)
      OBVIOUS
    <3> HIDE DEF v
    <3> QED BY <3>1
  <2>2. ASSUME NEW m \in Nat, m \in S
        PROVE  m + 1 \in S
    <3>1. PICK w : w = [n \in 0..m |-> w[n]] /\ Rows(w, m)
      BY <2>2
    <3> DEFINE v == [n \in 0..m + 1 |-> IF n = m + 1 THEN Before(w[m]) ELSE w[n]]
    <3>2. \A n \in 0..m + 1 : v[n] = IF n = 0 THEN None ELSE Before(v[n - 1])
      <4> TAKE n \in 0..m + 1
      <4>1. CASE n = m + 1
        <5>1. n - 1 = m /\ m \in 0..m + 1 /\ m # m + 1 /\ n # 0
          BY <4>1
        <5>2. v[n] = Before(w[m]) /\ v[m] = w[m]
          BY <4>1, <5>1
        <5> HIDE DEF v
        <5> QED BY <5>1, <5>2
      <4>2. CASE n \in 0..m
        <5>1. v[n] = w[n] /\ (n # 0 => v[n - 1] = w[n - 1])
          BY <4>2
        <5> HIDE DEF v
        <5> QED BY <3>1, <4>2, <5>1
      <4> QED BY <4>1, <4>2
    <3>3. v = [n \in 0..m + 1 |-> v[n]]
      OBVIOUS
    <3> HIDE DEF v
    <3>4. Rows(v, m + 1)
      BY <3>2
    <3> HIDE DEF Rows
    <3> QED BY <3>3, <3>4
  <2>3. size \in S
    <3> HIDE DEF S
    <3> QED BY <1>1, <2>1, <2>2, SetInduction
  <2> QED BY <2>3
<1>4. Solves(walk, size)
  <2>1. \E w : Solves(w, size)
    <3>1. PICK w : w = [n \in 0..size |-> w[n]] /\ Rows(w, size)
      BY <1>3
    <3> HIDE DEF Rows, Solves, size
    <3> QED BY <1>1, <1>2, <3>1
  <2> HIDE DEF Solves
  <2> QED BY <2>1
<1>5. Chain(f, page) = walk[size][page]
  BY DEF Chain
<1> HIDE DEF walk
<1>6. Rows(walk, size)
  <2>1. walk = [n \in 0..size |-> walk[n]]
    BY <1>4
  <2> HIDE DEF Rows, Solves, size
  <2> QED BY <1>1, <1>2, <1>4, <2>1
<1>7. /\ \A p \in 0..size : walk[0][p] = <<>>
      /\ \A n \in 1..size : walk[n][0] = <<>>
      /\ \A n \in 1..size, p \in 1..size : walk[n][p] = <<p>> \o walk[n - 1][To(p)]
  <2> HIDE DEF size, None, Before
  <2>1. walk[0] = None
    BY <1>1, <1>6
  <2>2. \A n \in 1..size : walk[n] = Before(walk[n - 1])
    BY <1>1, <1>6
  <2>3. \A n \in 1..size : walk[n][0] = <<>>
    <3> TAKE n \in 1..size
    <3>1. walk[n] = Before(walk[n - 1]) /\ 0 \in 0..size
      BY <1>1, <2>2
    <3> QED BY <3>1 DEF Before
  <2>4. \A n \in 1..size, p \in 1..size : walk[n][p] = <<p>> \o walk[n - 1][To(p)]
    <3> TAKE n \in 1..size, p \in 1..size
    <3>1. walk[n] = Before(walk[n - 1]) /\ p \in 0..size /\ p # 0
      BY <2>2
    <3> QED BY <3>1 DEF Before
  <2> QED BY <2>1, <2>3, <2>4 DEF None
<1> HIDE DEF Solves, Rows, None, Before, size, To
<1> DEFINE Good(n, c, p) ==
      /\ c \in Seq(1..size)
      /\ c # <<>> \/ n = 0 \/ p = 0
      /\ c # <<>> => Len(c) \in Nat \ {0} /\ c[1] = p
      /\ \A i \in 1..Len(c) - 1 : To(c[i]) = c[i + 1]
      /\ c = <<>> \/ Len(c) = n \/ To(c[Len(c)]) = 0
    S == {n \in Nat : n <= size => \A p \in 0..size : Good(n, walk[n][p], p)}
<1>8. (\A n \in Nat : Good(n, <<>>, 0)) /\ (\A p \in 0..size : Good(0, <<>>, p))
  <2>1. <<>> \in Seq(1..size) /\ Len(<<>>) = 0
    OBVIOUS
  <2> QED BY <2>1
<1>9. 0 \in S
  <2> HIDE DEF Good
  <2> QED BY <1>7, <1>8
<1>10. ASSUME NEW n \in Nat, n \in S
       PROVE  n + 1 \in S
  <2> SUFFICES ASSUME n + 1 <= size
               PROVE  \A p \in 0..size : Good(n + 1, walk[n + 1][p], p)
    BY DEF S
  <2> TAKE p \in 0..size
  <2>1. n + 1 \in 1..size /\ (n + 1) - 1 = n /\ n <= size
    BY <1>1
  <2>2. CASE p = 0
    <3>1. walk[n + 1][p] = <<>> /\ n + 1 \in Nat
      BY <1>7, <2>1, <2>2
    <3> HIDE DEF Good
    <3> QED BY <1>8, <2>2, <3>1
  <2>3. CASE p # 0
    <3> DEFINE q == To(p)
               t == walk[n][q]
    <3>1. q \in 0..size /\ p \in 1..size
      BY <1>1, <2>3
    <3>2. Good(n, t, q)
      BY <1>10, <2>1, <3>1
    <3>3. walk[n + 1][p] = <<p>> \o t
      <4>1. walk[n + 1][p] = <<p>> \o walk[(n + 1) - 1][To(p)]
        BY <1>7, <2>1, <3>1
      <4> QED BY <2>1, <4>1
    <3>4. To(p) = q
      OBVIOUS
    <3> HIDE DEF t, q
    <3>5. <<p>> \in Seq(1..size) /\ Len(<<p>>) = 1 /\ <<p>>[1] = p
      BY <3>1
    <3>6. /\ <<p>> \o t \in Seq(1..size) /\ Len(<<p>> \o t) = 1 + Len(t) /\ Len(t) \in Nat
          /\ (<<p>> \o t)[1] = p
          /\ \A i \in 1..Len(t) : (<<p>> \o t)[i + 1] = t[i]
      BY <3>2, <3>5
    <3>7. ASSUME NEW i \in 1..Len(t)
          PROVE  To((<<p>> \o t)[i]) = (<<p>> \o t)[i + 1]
      <4>1. CASE i = 1
        <5>1. t # <<>> /\ t[1] = q
          BY <3>2, <3>6, <3>7
        <5> QED BY <3>4, <3>6, <4>1, <5>1
      <4>2. CASE i # 1
        <5>1. i - 1 \in 1..Len(t) - 1 /\ i - 1 \in 1..Len(t) /\ (i - 1) + 1 = i
          BY <3>6, <4>2
        <5>2. To(t[i - 1]) = t[(i - 1) + 1]
          BY <3>2, <5>1
        <5>3. (<<p>> \o t)[(i - 1) + 1] = t[i - 1] /\ (<<p>> \o t)[i + 1] = t[i]
          BY <3>6, <5>1
        <5> QED BY <5>1, <5>2, <5>3
      <4> QED BY <4>1, <4>2
    <3> DEFINE u == <<p>> \o t
    <3>8. /\ u \in Seq(1..size) /\ Len(u) = 1 + Len(t) /\ Len(t) \in Nat /\ u[1] = p
          /\ \A i \in 1..Len(t) : To(u[i]) = u[i + 1]
      BY <3>6, <3>7
    <3>9. walk[n + 1][p] = u
      BY <3>3
    <3>10. CASE t = <<>>
      <4>1. Len(t) = 0 /\ (n = 0 \/ q = 0)
        BY <3>2, <3>10
      <4>2. Len(u) = 1 /\ To(u[1]) = q
        BY <3>4, <3>8, <4>1
      <4> HIDE DEF u
      <4>3. Len(u) = n + 1 \/ To(u[Len(u)]) = 0
        BY <4>1, <4>2
      <4>4. u # <<>> /\ 1..Len(u) - 1 = {}
        BY <4>2
      <4>5. Good(n + 1, u, p)
        BY <3>8, <4>2, <4>3, <4>4
      <4> HIDE DEF Good
      <4> QED BY <3>9, <4>5
    <3>11. CASE t # <<>>
      <4>1. Len(t) \in 1..Len(t) /\ (Len(t) = n \/ To(t[Len(t)]) = 0)
        BY <3>2, <3>11
      <4>2. u[Len(t) + 1] = t[Len(t)]
        BY <3>6, <4>1
      <4>3. Len(u) = n + 1 \/ To(u[Len(u)]) = 0
        <5> HIDE DEF u
        <5> QED BY <3>8, <4>1, <4>2
      <4> HIDE DEF u
      <4> QED BY <3>8, <3>9, <4>3
    <3> QED BY <3>10, <3>11
  <2> QED BY <2>2, <2>3
<1>11. \A n \in 0..size : n \in S
  <2> HIDE DEF S
  <2> QED BY <1>9, <1>10, SetInduction
<1>12. page \in 1..size /\ size \in 1..size /\ size - 1 \in 0..size /\ size \in 0..size
  BY <1>1 DEF size
<1>13. \A n \in 0..size, p \in 0..size : Good(n, walk[n][p], p)
  <2> HIDE DEF Good
  <2> QED BY <1>1, <1>11
<1>14. walk[size][page] # <<>>
  <2>1. walk[size][page] = <<page>> \o walk[size - 1][To(page)]
    BY <1>7, <1>12
  <2>2. walk[size - 1][To(page)] \in Seq(1..size)
    BY <1>1, <1>12, <1>13
  <2>3. <<page>> \in Seq(1..size) /\ Len(<<page>>) = 1
    BY <1>12
  <2> QED BY <2>1, <2>2, <2>3
<1>15. Good(size, walk[size][page], page)
  <2> HIDE DEF Good
  <2> QED BY <1>12, <1>13
<1> QED BY <1>5, <1>14, <1>15 DEF To, size

LEMMA ChainFollows ==
  ASSUME NEW f, Pointing(f), NEW page \in 1..Len(f.pages)
  PROVE  LET c == Chain(f, page)
         IN  /\ c \in Seq(1..Len(f.pages)) /\ Len(c) \in Nat \ {0} /\ c[1] = page
             /\ \A i \in 1..Len(c) - 1 : f.pages[c[i]].next = c[i + 1]
BY ChainWalk

\* The chain of a leaf stays among the linked pages, and behind its first page
\* among those that are the first page of no leaf.
LEMMA ChainLinked ==
  ASSUME NEW f, Pointing(f), NEW linked, LinkedBy(f, linked), NEW leaf \in 1..Leaves
  PROVE  /\ leaf \in 1..Len(f.pages)
         /\ \A i \in 1..Len(Chain(f, leaf)) :
              Chain(f, leaf)[i] \in linked /\ (i > 1 => Chain(f, leaf)[i] \notin 1..Leaves)
<1> DEFINE c == Chain(f, leaf)
           S == {n \in Nat : n + 1 <= Len(c) =>
                   c[n + 1] \in linked /\ (n + 1 > 1 => c[n + 1] \notin 1..Leaves)}
<1>1. leaf \in 1..Len(f.pages) /\ leaf \in linked
  BY DEF LinkedBy
<1>2. /\ c \in Seq(1..Len(f.pages)) /\ Len(c) \in Nat \ {0} /\ c[1] = leaf
      /\ \A i \in 1..Len(c) - 1 : f.pages[c[i]].next = c[i + 1]
  BY <1>1, ChainFollows
<1> HIDE DEF c
<1>3. 0 \in S
  BY <1>1, <1>2
<1>4. ASSUME NEW n \in Nat, n \in S
      PROVE  n + 1 \in S
  <2> SUFFICES ASSUME (n + 1) + 1 <= Len(c)
               PROVE  c[(n + 1) + 1] \in linked /\ c[(n + 1) + 1] \notin 1..Leaves
    OBVIOUS
  <2>1. n + 1 \in 1..Len(c) - 1 /\ n + 1 <= Len(c) /\ (n + 1) + 1 \in 1..Len(c)
    BY <1>2
  <2>2. c[n + 1] \in linked /\ f.pages[c[n + 1]].next = c[(n + 1) + 1]
    BY <1>2, <1>4, <2>1
  <2>3. c[(n + 1) + 1] \in 1..Len(f.pages)
    BY <1>2, <2>1
  <2>4. f.pages[c[n + 1]].next # 0
    BY <2>2, <2>3
  <2> QED BY <2>2, <2>4 DEF LinkedBy
<1>5. Nat \subseteq S
  <2> HIDE DEF S
  <2> QED BY <1>3, <1>4, SetInduction
<1>6. ASSUME NEW i \in 1..Len(c)
      PROVE  c[i] \in linked /\ (i > 1 => c[i] \notin 1..Leaves)
  <2>1. i - 1 \in Nat /\ (i - 1) + 1 = i /\ i <= Len(c)
    BY <1>2
  <2>2. i - 1 \in S
    <3> HIDE DEF S
    <3> QED BY <1>5, <2>1
  <2> QED BY <2>1, <2>2
<1> QED BY <1>1, <1>6 DEF c

\* All pages of the chain of a leaf are owned by it.
LEMMA ChainOwned ==
  ASSUME NEW f, Pointing(f), NEW linked, LinkedBy(f, linked),
         NEW owner, OwnedBy(f, linked, owner), NEW leaf \in 1..Leaves
  PROVE  \A i \in 1..Len(Chain(f, leaf)) : owner[Chain(f, leaf)[i]] = leaf
<1> DEFINE c == Chain(f, leaf)
           S == {n \in Nat : n + 1 <= Len(c) => owner[c[n + 1]] = leaf}
<1>1. leaf \in 1..Len(f.pages) /\ \A i \in 1..Len(c) : c[i] \in linked
  BY ChainLinked
<1>2. /\ c \in Seq(1..Len(f.pages)) /\ Len(c) \in Nat \ {0} /\ c[1] = leaf
      /\ \A i \in 1..Len(c) - 1 : f.pages[c[i]].next = c[i + 1]
  BY <1>1, ChainFollows
<1> HIDE DEF c
<1>3. 0 \in S
  BY <1>2 DEF OwnedBy
<1>4. ASSUME NEW n \in Nat, n \in S
      PROVE  n + 1 \in S
  <2> SUFFICES ASSUME (n + 1) + 1 <= Len(c)
               PROVE  owner[c[(n + 1) + 1]] = leaf
    OBVIOUS
  <2>1. /\ n + 1 \in 1..Len(c) - 1 /\ n + 1 \in 1..Len(c) /\ n + 1 <= Len(c)
        /\ (n + 1) + 1 \in 1..Len(c)
    BY <1>2
  <2>2. f.pages[c[n + 1]].next = c[(n + 1) + 1] /\ c[n + 1] \in linked
    BY <1>1, <1>2, <2>1
  <2>3. c[(n + 1) + 1] # 0
    <3>1. c[(n + 1) + 1] \in 1..Len(f.pages)
      BY <1>2, <2>1, ElementOfSeq
    <3> QED BY <3>1
  <2>4. owner[c[n + 1]] = leaf
    BY <1>4, <2>1
  <2> QED BY <2>2, <2>3, <2>4 DEF OwnedBy
<1>5. Nat \subseteq S
  <2> HIDE DEF S
  <2> QED BY <1>3, <1>4, SetInduction
<1>6. ASSUME NEW i \in 1..Len(c)
      PROVE  owner[c[i]] = leaf
  <2>1. i - 1 \in Nat /\ (i - 1) + 1 = i /\ i <= Len(c)
    BY <1>2
  <2>2. i - 1 \in S
    <3> HIDE DEF S
    <3> QED BY <1>5, <2>1
  <2> QED BY <2>1, <2>2
<1> QED BY <1>6 DEF c

\* The chains of two leaves have no page in common, and that of one has no page
\* twice.
LEMMA ChainsDistinct ==
  ASSUME NEW f, Pointing(f), NEW linked, LinkedBy(f, linked),
         NEW a \in 1..Leaves, NEW b \in 1..Leaves,
         NEW i \in 1..Len(Chain(f, a)), NEW j \in 1..Len(Chain(f, b)),
         Chain(f, a)[i] = Chain(f, b)[j]
  PROVE  a = b /\ i = j
<1> DEFINE c == Chain(f, a)
           d == Chain(f, b)
           S == {n \in Nat : \A m \in Nat : n + 1 <= Len(c) /\ m + 1 <= Len(d) =>
                               (c[n + 1] = d[m + 1] => a = b /\ n = m)}
<1>1. \A x \in 1..Leaves :
        /\ x \in 1..Len(f.pages) /\ x \in 1..Leaves
        /\ \A k \in 1..Len(Chain(f, x)) :
             Chain(f, x)[k] \in linked /\ (k > 1 => Chain(f, x)[k] \notin 1..Leaves)
        /\ Chain(f, x) \in Seq(1..Len(f.pages)) /\ Len(Chain(f, x)) \in Nat \ {0}
        /\ Chain(f, x)[1] = x
        /\ \A k \in 1..Len(Chain(f, x)) - 1 : f.pages[Chain(f, x)[k]].next = Chain(f, x)[k + 1]
  BY ChainLinked, ChainFollows
<1>2. /\ \A k \in 1..Len(c) : c[k] \in linked /\ (k > 1 => c[k] \notin 1..Leaves)
      /\ c \in Seq(1..Len(f.pages)) /\ Len(c) \in Nat \ {0} /\ c[1] = a
      /\ \A k \in 1..Len(c) - 1 : f.pages[c[k]].next = c[k + 1]
  BY <1>1
<1>3. /\ \A k \in 1..Len(d) : d[k] \in linked /\ (k > 1 => d[k] \notin 1..Leaves)
      /\ d \in Seq(1..Len(f.pages)) /\ Len(d) \in Nat \ {0} /\ d[1] = b
      /\ \A k \in 1..Len(d) - 1 : f.pages[d[k]].next = d[k + 1]
  BY <1>1
<1>4. i \in 1..Len(c) /\ j \in 1..Len(d) /\ c[i] = d[j]
  OBVIOUS
<1> HIDE DEF c, d
<1>5. 0 \in S
  <2> SUFFICES ASSUME NEW m \in Nat, m + 1 <= Len(d), c[1] = d[m + 1]
               PROVE  a = b /\ 0 = m
    OBVIOUS
  <2>1. m + 1 \in 1..Len(d) /\ d[m + 1] \in 1..Leaves
    BY <1>2, <1>3
  <2>2. ~ (m + 1 > 1)
    BY <1>3, <2>1
  <2>3. m = 0 /\ m + 1 = 1
    BY <2>2
  <2> QED BY <1>2, <1>3, <2>3
<1>6. ASSUME NEW n \in Nat, n \in S
      PROVE  n + 1 \in S
  <2> SUFFICES ASSUME NEW m \in Nat, (n + 1) + 1 <= Len(c), m + 1 <= Len(d),
                      c[(n + 1) + 1] = d[m + 1]
               PROVE  a = b /\ n + 1 = m
    OBVIOUS
  <2>1. /\ n + 1 \in 1..Len(c) - 1 /\ n + 1 \in 1..Len(c) /\ (n + 1) + 1 \in 1..Len(c)
        /\ n + 1 <= Len(c) /\ m + 1 \in 1..Len(d)
    BY <1>2, <1>3
  <2>2. c[(n + 1) + 1] \notin 1..Leaves /\ c[(n + 1) + 1] \in 1..Len(f.pages)
    <3> HIDE DEF S
    <3>1. (n + 1) + 1 > 1
      OBVIOUS
    <3>2. c \in Seq(1..Len(f.pages))
      BY <1>2
    <3>3. c[(n + 1) + 1] \in 1..Len(f.pages)
      BY <2>1, <3>2, ElementOfSeq
    <3> QED BY <1>2, <2>1, <3>1, <3>3
  <2>3. m # 0
    BY <1>3, <2>2
  <2>4. /\ m \in 1..Len(d) - 1 /\ m \in 1..Len(d) /\ m - 1 \in Nat /\ (m - 1) + 1 = m
        /\ (m - 1) + 1 <= Len(d)
    BY <1>3, <2>1, <2>3
  <2>5. f.pages[c[n + 1]].next = c[(n + 1) + 1] /\ f.pages[d[m]].next = d[m + 1]
    BY <1>2, <1>3, <2>1, <2>4
  <2>6. f.pages[c[n + 1]].next # 0 /\ c[n + 1] \in linked /\ d[m] \in linked
    <3>1. c[(n + 1) + 1] # 0
      BY <2>2
    <3> QED BY <1>2, <1>3, <2>1, <2>4, <2>5, <3>1
  <2>7. c[n + 1] = d[m]
    BY <2>5, <2>6 DEF LinkedBy
  <2>8. a = b /\ n = m - 1
    BY <1>6, <2>1, <2>4, <2>7
  <2> QED BY <2>8
<1>7. Nat \subseteq S
  <2> HIDE DEF S
  <2> QED BY <1>5, <1>6, SetInduction
<1>8. /\ i - 1 \in Nat /\ j - 1 \in Nat /\ (i - 1) + 1 = i /\ (j - 1) + 1 = j
      /\ i <= Len(c) /\ j <= Len(d)
  BY <1>2, <1>3, <1>4
<1>9. i - 1 \in S
  <2> HIDE DEF S
  <2> QED BY <1>7, <1>8
<1>10. a = b /\ i - 1 = j - 1
  BY <1>4, <1>8, <1>9
<1> QED BY <1>8, <1>10

\* The invariant says of the state what ChainsDisjoint does.
LEMMA LinkedDisjoint ==
  ASSUME IInv
  PROVE  ChainsDisjoint
<1> SUFFICES ASSUME built, NEW a \in 1..Leaves, NEW b \in 1..Leaves,
                    NEW i \in DOMAIN ChainOf(a), NEW j \in DOMAIN ChainOf(b),
                    ChainOf(a)[i] = ChainOf(b)[j]
             PROVE  a = b /\ i = j
  BY DEF ChainsDisjoint
<1>1. Pointing(isam)
  BY DEF IInv, TypeOK, Pointing
<1>2. PICK linked : LinkedBy(isam, linked)
  BY DEF IInv, Linked
<1>3. /\ a \in 1..Len(isam.pages) /\ b \in 1..Len(isam.pages)
  BY <1>1, <1>2, ChainLinked
<1>4. DOMAIN ChainOf(a) = 1..Len(Chain(isam, a)) /\ DOMAIN ChainOf(b) = 1..Len(Chain(isam, b))
  BY <1>1, <1>3, ChainFollows DEF ChainOf
<1> QED BY <1>1, <1>2, <1>4, ChainsDistinct DEF ChainOf

\* The leaf that search comes to for a key begins with it or below it, the next
\* one above it: a record with the key may be behind this leaf.
LEMMA LeafOfKey ==
  ASSUME NEW f \in Files, LeavesOrdered(f), NEW rec \in Record
  PROVE  LeafOf(f, rec.key) \in 1..Leaves /\ rec \in Behind(f.sep, LeafOf(f, rec.key))
<1> DEFINE leaf == LeafOf(f, rec.key)
<1>1. /\ leaf \in 1..Leaves
      /\ leaf > 1 => f.sep[leaf - 1] \in {k \in Key : k <= rec.key}
      /\ leaf < Leaves => f.sep[leaf] \notin {k \in Key : k <= rec.key}
  BY LeafFound DEF LeafOf
<1> HIDE DEF leaf
<1>2. leaf < Leaves => f.sep[leaf] \in Key
  <2>1. f.sep \in Seq(Key) /\ Len(f.sep) = Leaves - 1
    BY DEF Files, LeavesOrdered
  <2>2. leaf < Leaves => leaf \in 1..Leaves - 1
    BY <1>1, LeavesPositive
  <2> QED BY <2>1, <2>2, ElementOfSeq
<1>3. rec.key \in Key /\ Key \subseteq Int
  BY IsamIndexAssumption DEF Record
<1>4. ASSUME leaf < Leaves PROVE rec.key <= f.sep[leaf]
  <2>1. f.sep[leaf] \in Key /\ ~ (f.sep[leaf] <= rec.key)
    BY <1>1, <1>2, <1>4
  <2>2. f.sep[leaf] \in Int /\ rec.key \in Int
    BY <1>3, <2>1
  <2> QED BY <2>1, <2>2
<1>5. leaf > 1 => f.sep[leaf - 1] <= rec.key
  BY <1>1
<1>6. rec \in Behind(f.sep, leaf)
  BY <1>4, <1>5 DEF Behind
<1> QED BY <1>1, <1>6 DEF leaf

\* A record that belongs behind a leaf is where the searches for its key begin, or
\* further on, but not after the leaf that begins above the key.
LEMMA BehindLeaf ==
  ASSUME NEW f \in Files, LeavesOrdered(f), NEW leaf \in 1..Leaves,
         NEW r \in Behind(f.sep, leaf)
  PROVE  leaf \in Leaf(f, {k \in Key : k < r.key})..LeafOf(f, r.key)
<1> DEFINE low == Leaf(f, {k \in Key : k < r.key})
           high == LeafOf(f, r.key)
<1>1. /\ low \in 1..Leaves
      /\ low > 1 => f.sep[low - 1] < r.key
  <2>1. low \in 1..Leaves /\ (low > 1 => f.sep[low - 1] \in {k \in Key : k < r.key})
    BY LeafFound
  <2> HIDE DEF low
  <2> QED BY <2>1
<1>2. /\ high \in 1..Leaves
      /\ high < Leaves => f.sep[high] \notin {k \in Key : k <= r.key}
  BY LeafFound DEF LeafOf
<1> HIDE DEF low, high
<1>3. Leaves \in Nat /\ \A i \in 1..Leaves - 1 : f.sep[i] \in Int
  <2>1. f.sep \in Seq(Key) /\ Len(f.sep) = Leaves - 1
    BY DEF Files, LeavesOrdered
  <2>2. \A i \in 1..Leaves - 1 : f.sep[i] \in Key
    BY <2>1, ElementOfSeq
  <2> QED BY <2>2, LeavesPositive, IsamIndexAssumption
<1>4. r.key \in Int /\ r.key \in Key
  BY IsamIndexAssumption DEF Behind, Record
<1>5. /\ leaf > 1 => f.sep[leaf - 1] <= r.key
      /\ leaf < Leaves => r.key <= f.sep[leaf]
  BY DEF Behind
<1>6. \A i, j \in 1..Leaves - 1 : i <= j => f.sep[i] <= f.sep[j]
  BY DEF LeavesOrdered
<1>7. low <= leaf
  <2> SUFFICES ASSUME low > leaf PROVE FALSE
    BY <1>1, <1>3
  <2>1. low - 1 \in 1..Leaves - 1 /\ leaf \in 1..Leaves - 1 /\ leaf <= low - 1
    BY <1>1, <1>3
  <2>2. f.sep[leaf] <= f.sep[low - 1]
    BY <1>6, <2>1
  <2>3. r.key <= f.sep[leaf] /\ f.sep[low - 1] < r.key
    BY <1>1, <1>3, <1>5, <2>1
  <2>4. f.sep[leaf] \in Int /\ f.sep[low - 1] \in Int
    BY <1>3, <2>1
  <2> QED BY <1>4, <2>2, <2>3, <2>4
<1>8. leaf <= high
  <2> SUFFICES ASSUME leaf > high PROVE FALSE
    BY <1>2, <1>3
  <2>1. leaf - 1 \in 1..Leaves - 1 /\ high \in 1..Leaves - 1 /\ high <= leaf - 1
    BY <1>2, <1>3
  <2>2. f.sep[high] <= f.sep[leaf - 1]
    BY <1>6, <2>1
  <2>3. f.sep[leaf - 1] <= r.key /\ high < Leaves
    BY <1>3, <1>5, <2>1
  <2>4. f.sep[high] \in Key /\ f.sep[high] \in Int /\ f.sep[leaf - 1] \in Int
    <3>1. f.sep \in Seq(Key) /\ Len(f.sep) = Leaves - 1
      BY DEF Files, LeavesOrdered
    <3> QED BY <1>3, <2>1, <3>1, ElementOfSeq
  <2>5. ~ (f.sep[high] <= r.key)
    BY <1>2, <2>3, <2>4
  <2> QED BY <1>4, <2>2, <2>3, <2>4, <2>5
<1> QED BY <1>1, <1>2, <1>7, <1>8 DEF low, high

\* Each record of a page in a chain belongs behind the leaf of the chain.
LEMMA PagesBehind ==
  ASSUME IInv, built, NEW leaf \in 1..Leaves, NEW i \in DOMAIN ChainOf(leaf),
         NEW r \in ToSet(isam.pages[ChainOf(leaf)[i]].recs)
  PROVE  r \in Behind(isam.sep, leaf)
<1>1. Pointing(isam) /\ isam \in Files /\ LeavesOrdered(isam)
  BY DEF IInv, TypeOK, Pointing, Files
<1>2. PICK linked, owner : LinkedBy(isam, linked) /\ OwnedBy(isam, linked, owner)
  BY DEF IInv, Linked
<1> DEFINE page == ChainOf(leaf)[i]
<1>3. page \in linked /\ owner[page] = leaf
  <2>1. leaf \in 1..Len(isam.pages) /\ \A j \in 1..Len(Chain(isam, leaf)) :
          Chain(isam, leaf)[j] \in linked /\ owner[Chain(isam, leaf)[j]] = leaf
    BY <1>1, <1>2, ChainLinked, ChainOwned
  <2>2. DOMAIN ChainOf(leaf) = 1..Len(Chain(isam, leaf))
    BY <1>1, <2>1, ChainFollows DEF ChainOf
  <2> QED BY <2>1, <2>2 DEF ChainOf
<1> HIDE DEF page
<1>4. isam.pages[page].recs \in Seq(Behind(isam.sep, leaf))
  BY <1>2, <1>3 DEF OwnedBy
<1> DEFINE recs == isam.pages[page].recs
<1>5. r \in Behind(isam.sep, leaf)
  <2>1. PICK j \in DOMAIN recs : r = recs[j]
    BY DEF ToSet, page
  <2>2. recs \in Seq(Behind(isam.sep, leaf))
    BY <1>4
  <2> HIDE DEF recs
  <2> QED BY <2>1, <2>2, LenProperties, ElementOfSeq
<1> QED BY <1>5

\* The invariant says of the state what RecordsInLeaf does.
LEMMA OwnedInLeaf ==
  ASSUME IInv
  PROVE  RecordsInLeaf
<1>1. built => isam \in Files /\ LeavesOrdered(isam)
  BY DEF IInv, TypeOK, Files
<1> QED BY <1>1, PagesBehind, BehindLeaf DEF RecordsInLeaf

-----------------------------------------------------------------------------
(* The records of chains.                                                   *)

\* A page has as many slots as it was made for.
LEMMA PageFields ==
  ASSUME NEW page \in DataPage
  PROVE  /\ page.recs \in Seq(Record) /\ page.spare \in Seq(Stale) /\ page.next \in Nat
         /\ Len(page.recs) \in Nat /\ Len(page.spare) \in Nat
         /\ Len(page.recs) + Len(page.spare) = N
BY DEF DataPage

LEMMA ToSetOfSeq ==
  ASSUME NEW Some, NEW s \in Seq(Some)
  PROVE  /\ ToSet(s) \subseteq Some /\ Len(s) \in Nat /\ DOMAIN s = 1..Len(s)
         /\ \A x : x \in ToSet(s) <=> \E i \in 1..Len(s) : x = s[i]
         /\ s # <<>> => Last(s) \in ToSet(s)
         /\ ToSet(<<>>) = {}
<1>1. Len(s) \in Nat /\ DOMAIN s = 1..Len(s) /\ \A i \in 1..Len(s) : s[i] \in Some
  BY LenProperties, ElementOfSeq
<1>2. \A x : x \in ToSet(s) <=> \E i \in 1..Len(s) : x = s[i]
  BY <1>1 DEF ToSet
<1>3. ASSUME s # <<>> PROVE Last(s) \in ToSet(s)
  <2>1. Len(s) \in 1..Len(s)
    BY <1>1, <1>3, EmptySeq
  <2> QED BY <1>2, <2>1 DEF Last
<1>4. ToSet(<<>>) = {}
  BY DEF ToSet
<1> QED BY <1>1, <1>2, <1>3, <1>4

LEMMA ToSetOfConcat ==
  ASSUME NEW Some, NEW s \in Seq(Some), NEW t \in Seq(Some)
  PROVE  s \o t \in Seq(Some) /\ ToSet(s \o t) = ToSet(s) \union ToSet(t)
<1>1. /\ s \o t \in Seq(Some) /\ Len(s \o t) = Len(s) + Len(t)
      /\ Len(s) \in Nat /\ Len(t) \in Nat
      /\ \A i \in 1..Len(s) : (s \o t)[i] = s[i]
      /\ \A i \in 1..Len(t) : (s \o t)[Len(s) + i] = t[i]
  <2>1. /\ s \o t \in Seq(Some) /\ Len(s \o t) = Len(s) + Len(t)
        /\ \A i \in 1..Len(s) + Len(t) :
             (s \o t)[i] = IF i <= Len(s) THEN s[i] ELSE t[i - Len(s)]
    BY ConcatProperties
  <2>2. Len(s) \in Nat /\ Len(t) \in Nat
    BY LenProperties
  <2>3. ASSUME NEW i \in 1..Len(s) PROVE (s \o t)[i] = s[i]
    <3>1. i \in 1..Len(s) + Len(t) /\ i <= Len(s)
      BY <2>2
    <3> QED BY <2>1, <3>1
  <2>4. ASSUME NEW i \in 1..Len(t) PROVE (s \o t)[Len(s) + i] = t[i]
    <3>1. Len(s) + i \in 1..Len(s) + Len(t) /\ ~ (Len(s) + i <= Len(s)) /\ Len(s) + i - Len(s) = i
      BY <2>2
    <3> QED BY <2>1, <3>1
  <2> QED BY <2>1, <2>2, <2>3, <2>4
<1> DEFINE u == s \o t
<1>2. \A x : x \in ToSet(u) <=> \E i \in 1..Len(u) : x = u[i]
  <2>1. u \in Seq(Some)
    BY <1>1
  <2> HIDE DEF u
  <2> QED BY <2>1, ToSetOfSeq
<1>3. /\ \A x : x \in ToSet(s) <=> \E i \in 1..Len(s) : x = s[i]
      /\ \A x : x \in ToSet(t) <=> \E i \in 1..Len(t) : x = t[i]
  BY ToSetOfSeq
<1> HIDE DEF u
<1>4. ASSUME NEW i \in 1..Len(u) PROVE u[i] \in ToSet(s) \union ToSet(t)
  <2>1. CASE i \in 1..Len(s)
    BY <1>1, <1>3, <2>1 DEF u
  <2>2. CASE i \notin 1..Len(s)
    <3>1. i - Len(s) \in 1..Len(t) /\ Len(s) + (i - Len(s)) = i
      BY <1>1, <2>2 DEF u
    <3>2. u[i] = t[i - Len(s)]
      BY <1>1, <3>1 DEF u
    <3> QED BY <1>3, <3>1, <3>2
  <2> QED BY <2>1, <2>2
<1>5. ASSUME NEW i \in 1..Len(s) PROVE s[i] \in ToSet(u)
  <2>1. i \in 1..Len(u) /\ u[i] = s[i]
    BY <1>1 DEF u
  <2> QED BY <1>2, <2>1
<1>6. ASSUME NEW i \in 1..Len(t) PROVE t[i] \in ToSet(u)
  <2>1. Len(s) + i \in 1..Len(u) /\ u[Len(s) + i] = t[i]
    BY <1>1 DEF u
  <2> QED BY <1>2, <2>1
<1>7. ToSet(u) = ToSet(s) \union ToSet(t)
  <2>1. ToSet(u) \subseteq ToSet(s) \union ToSet(t)
    BY <1>2, <1>4
  <2>2. ToSet(s) \subseteq ToSet(u) /\ ToSet(t) \subseteq ToSet(u)
    BY <1>3, <1>5, <1>6
  <2> QED BY <2>1, <2>2
<1> QED BY <1>1, <1>7 DEF u

\* Sequences are put one after the other in as many steps as there are.
LEMMA FlattenSteps ==
  ASSUME NEW Some, NEW seqs \in Seq(Seq(Some)), seqs # <<>>
  PROVE  \E flatten :
           /\ FlattenSeq(seqs) = flatten[Len(seqs)]
           /\ \A i \in 1..Len(seqs) :
                /\ flatten[i] \in Seq(Some)
                /\ flatten[i] = IF i = 1 THEN seqs[i] ELSE flatten[i - 1] \o seqs[i]
<1> DEFINE n == Len(seqs)
<1>0. n \in Nat \ {0} /\ \A i \in 1..n : seqs[i] \in Seq(Some)
  BY LenProperties, ElementOfSeq, EmptySeq
<1> DEFINE Solves(w) == w = [i \in 1..n |-> IF i = 1 THEN seqs[i] ELSE w[i - 1] \o seqs[i]]
           flatten == CHOOSE w : Solves(w)
<1>1. FlattenSeq(seqs) = flatten[n]
  BY DEF FlattenSeq
<1> HIDE DEF n
<1>2. \E w : Solves(w)
  <2> DEFINE step == [i \in 1..n |-> [s \in Seq(Some) |-> s \o seqs[i]]]
             All == Seq(Some)
             none == <<>>
  <2>1. step \in [1..n -> [All -> All]]
    BY <1>0
  <2>2. none \in All
    OBVIOUS
  <2>3. \A i \in 1..n, s \in Seq(Some) : step[i][s] = s \o seqs[i]
    OBVIOUS
  <2> HIDE DEF step
  <2>4. PICK w \in [0..n -> All] :
          w[0] = none /\ \A i \in 1..n : w[i] = step[i][w[i - 1]]
    <3> HIDE DEF All, none
    <3>1. Steps(n, All, step)
      BY <1>0, <2>1 DEF Steps
    <3>2. PICK w : Stepwise(w, n, All, none, step)
      BY ONLY <2>2, <3>1, StepwiseExists
    <3> QED BY <3>2 DEF Stepwise
  <2>5. ASSUME NEW i \in 1..n
        PROVE  w[i] = w[i - 1] \o seqs[i]
    <3>1. i - 1 \in 0..n /\ w[i - 1] \in Seq(Some)
      BY <1>0
    <3> QED BY <2>3, <2>4, <3>1
  <2>6. 1 \in 1..n /\ w[1] = seqs[1]
    <3>1. 1 \in 1..n /\ w[1] = w[0] \o seqs[1]
      <4>1. 1 \in 1..n /\ 1 - 1 = 0
        BY <1>0
      <4>2. w[1] = w[1 - 1] \o seqs[1]
        BY <2>5, <4>1
      <4> QED BY <4>1, <4>2
    <3>2. <<>> \o seqs[1] = seqs[1]
      BY <1>0, <3>1
    <3> QED BY <2>4, <3>1, <3>2
  <2> DEFINE v == [i \in 1..n |-> w[i]]
  <2>7. ASSUME NEW i \in 1..n
        PROVE  v[i] = IF i = 1 THEN seqs[i] ELSE v[i - 1] \o seqs[i]
    <3>1. CASE i = 1
      BY <2>6, <3>1
    <3>2. CASE i # 1
      <4>1. i - 1 \in 1..n
        BY <1>0, <3>2
      <4> QED BY <2>5, <3>2, <4>1
    <3> QED BY <3>1, <3>2
  <2>8. v = [i \in 1..n |-> v[i]]
    OBVIOUS
  <2> HIDE DEF v
  <2>9. Solves(v)
    BY <2>7, <2>8
  <2> QED BY <2>9
<1>3. Solves(flatten)
  <2> HIDE DEF Solves
  <2> QED BY <1>2
<1> HIDE DEF flatten
<1>4. \A i \in 1..n : flatten[i] = IF i = 1 THEN seqs[i] ELSE flatten[i - 1] \o seqs[i]
  BY <1>3
<1> HIDE DEF Solves
<1> DEFINE S == {m \in Nat : m + 1 <= n => flatten[m + 1] \in Seq(Some)}
<1>5. 0 \in S
  <2>1. 1 \in 1..n /\ flatten[1] = seqs[1]
    BY <1>0, <1>4
  <2> QED BY <1>0, <2>1
<1>6. ASSUME NEW m \in Nat, m \in S
      PROVE  m + 1 \in S
  <2> SUFFICES ASSUME (m + 1) + 1 <= n PROVE flatten[(m + 1) + 1] \in Seq(Some)
    OBVIOUS
  <2>1. (m + 1) + 1 \in 1..n /\ ((m + 1) + 1) - 1 = m + 1 /\ (m + 1) + 1 # 1
    BY <1>0
  <2>2. flatten[(m + 1) + 1] = flatten[m + 1] \o seqs[(m + 1) + 1]
    BY <1>4, <2>1
  <2>3. flatten[m + 1] \in Seq(Some) /\ seqs[(m + 1) + 1] \in Seq(Some)
    BY <1>0, <1>6, <2>1
  <2> QED BY <2>2, <2>3, ConcatProperties
<1>7. \A i \in 1..n : flatten[i] \in Seq(Some)
  <2> TAKE i \in 1..n
  <2>1. i - 1 \in Nat /\ (i - 1) + 1 = i /\ i <= n
    BY <1>0
  <2>2. i - 1 \in S
    <3> HIDE DEF S
    <3> QED BY <1>5, <1>6, <2>1, SetInduction
  <2> QED BY <2>1, <2>2
<1> QED BY <1>1, <1>4, <1>7 DEF n

\* The elements of sequences put one after the other.
LEMMA FlattenFacts ==
  ASSUME NEW Some, NEW seqs \in Seq(Seq(Some))
  PROVE  /\ FlattenSeq(seqs) \in Seq(Some)
         /\ ToSet(FlattenSeq(seqs)) = UNION {ToSet(seqs[i]) : i \in 1..Len(seqs)}
<1> DEFINE n == Len(seqs)
           Upto(m) == UNION {ToSet(seqs[i]) : i \in 1..m}
<1>1. n \in Nat /\ \A i \in 1..n : seqs[i] \in Seq(Some)
  BY LenProperties, ElementOfSeq
<1>2. CASE n = 0
  <2>1. seqs = <<>>
    BY <1>2, EmptySeq
  <2>2. FlattenSeq(seqs) = <<>> /\ 1..n = {}
    BY <1>2, <2>1 DEF FlattenSeq
  <2>3. <<>> \in Seq(Some) /\ ToSet(<<>>) = {}
    BY DEF ToSet
  <2> QED BY <2>2, <2>3
<1>3. CASE n # 0
  <2>1. seqs # <<>>
    BY <1>3, EmptySeq
  <2>2. PICK flatten :
          /\ FlattenSeq(seqs) = flatten[n]
          /\ \A i \in 1..n :
               /\ flatten[i] \in Seq(Some)
               /\ flatten[i] = IF i = 1 THEN seqs[i] ELSE flatten[i - 1] \o seqs[i]
    BY <2>1, FlattenSteps
  <2> HIDE DEF n
  <2> DEFINE S == {m \in Nat : m + 1 <= n =>
                     flatten[m + 1] \in Seq(Some) /\ ToSet(flatten[m + 1]) = Upto(m + 1)}
  <2>5. 0 \in S
    <3>1. 1 \in 1..n /\ flatten[1] = seqs[1]
      BY <1>1, <1>3, <2>2
    <3>2. Upto(1) = ToSet(seqs[1])
      BY <3>1
    <3> QED BY <1>1, <3>1, <3>2
  <2>6. ASSUME NEW m \in Nat, m \in S
        PROVE  m + 1 \in S
    <3> SUFFICES ASSUME (m + 1) + 1 <= n
                 PROVE  /\ flatten[(m + 1) + 1] \in Seq(Some)
                        /\ ToSet(flatten[(m + 1) + 1]) = Upto((m + 1) + 1)
      OBVIOUS
    <3>1. (m + 1) + 1 \in 1..n /\ m + 1 \in 1..n /\ m + 1 <= n
      BY <1>1
    <3>2. flatten[(m + 1) + 1] = flatten[m + 1] \o seqs[(m + 1) + 1]
      <4>1. ((m + 1) + 1) - 1 = m + 1 /\ (m + 1) + 1 # 1
        OBVIOUS
      <4> QED BY <2>2, <3>1, <4>1
    <3>3. flatten[m + 1] \in Seq(Some) /\ ToSet(flatten[m + 1]) = Upto(m + 1)
      BY <2>6, <3>1
    <3>4. Upto((m + 1) + 1) = Upto(m + 1) \union ToSet(seqs[(m + 1) + 1])
      <4>1. 1..(m + 1) + 1 = (1..m + 1) \union {(m + 1) + 1}
        OBVIOUS
      <4> QED BY <4>1
    <3> HIDE DEF Upto
    <3>5. seqs[(m + 1) + 1] \in Seq(Some)
      BY <1>1, <3>1
    <3>6. /\ flatten[m + 1] \o seqs[(m + 1) + 1] \in Seq(Some)
          /\ ToSet(flatten[m + 1] \o seqs[(m + 1) + 1])
               = ToSet(flatten[m + 1]) \union ToSet(seqs[(m + 1) + 1])
      BY ONLY <3>3, <3>5, ToSetOfConcat
    <3> QED BY <3>2, <3>3, <3>4, <3>6
  <2>7. n - 1 \in S /\ (n - 1) + 1 = n
    <3> HIDE DEF S
    <3>1. n - 1 \in Nat /\ (n - 1) + 1 = n
      BY <1>1, <1>3
    <3> QED BY <2>5, <2>6, <3>1, SetInduction
  <2>8. flatten[n] \in Seq(Some) /\ ToSet(flatten[n]) = Upto(n)
    BY <1>1, <2>7
  <2> QED BY <2>2, <2>8 DEF n
<1> QED BY <1>2, <1>3

\* What is read along a chain are the records of its pages.
LEMMA RecsFacts ==
  ASSUME NEW f \in Files, NEW chain \in Seq(1..Len(f.pages))
  PROVE  /\ Recs(f, chain) \in Seq(Record)
         /\ ToSet(Recs(f, chain)) = UNION {ToSet(f.pages[chain[i]].recs) : i \in 1..Len(chain)}
<1> DEFINE seqs == [i \in DOMAIN chain |-> f.pages[chain[i]].recs]
<1>1. Len(chain) \in Nat /\ DOMAIN chain = 1..Len(chain)
  BY LenProperties
<1>2. \A i \in 1..Len(chain) : f.pages[chain[i]].recs \in Seq(Record)
  <2> TAKE i \in 1..Len(chain)
  <2>1. chain[i] \in 1..Len(f.pages)
    BY ElementOfSeq
  <2>2. f.pages[chain[i]] \in DataPage
    BY <2>1, ElementOfSeq DEF Files
  <2> QED BY <2>2, PageFields
<1>3. seqs \in Seq(Seq(Record)) /\ Len(seqs) = Len(chain)
  BY <1>1, <1>2
<1>4. \A i \in 1..Len(chain) : seqs[i] = f.pages[chain[i]].recs
  BY <1>1
<1>5. Recs(f, chain) = FlattenSeq(seqs)
  BY DEF Recs
<1> HIDE DEF seqs
<1>6. /\ FlattenSeq(seqs) \in Seq(Record)
      /\ ToSet(FlattenSeq(seqs)) = UNION {ToSet(seqs[i]) : i \in 1..Len(seqs)}
  BY <1>3, FlattenFacts
<1>7. UNION {ToSet(seqs[i]) : i \in 1..Len(seqs)}
        = UNION {ToSet(f.pages[chain[i]].recs) : i \in 1..Len(chain)}
  BY <1>3, <1>4
<1> QED BY <1>5, <1>6, <1>7

\* The records of a chain belong behind its leaf.
LEMMA ChainBehind ==
  ASSUME IInv, built, NEW leaf \in 1..Leaves
  PROVE  /\ Recs(isam, ChainOf(leaf)) \in Seq(Record)
         /\ ToSet(Recs(isam, ChainOf(leaf))) \subseteq Behind(isam.sep, leaf)
         /\ Behind(isam.sep, leaf) \subseteq Record
<1>1. Pointing(isam) /\ isam \in Files
  BY DEF IInv, TypeOK, Pointing, Files
<1>2. leaf \in 1..Len(isam.pages) /\ ChainOf(leaf) \in Seq(1..Len(isam.pages))
  <2>1. PICK linked : LinkedBy(isam, linked)
    BY DEF IInv, Linked
  <2>2. leaf \in 1..Len(isam.pages)
    BY <1>1, <2>1, ChainLinked
  <2> QED BY <1>1, <2>2, ChainFollows DEF ChainOf
<1>3. \A i \in 1..Len(ChainOf(leaf)) :
        ToSet(isam.pages[ChainOf(leaf)[i]].recs) \subseteq Behind(isam.sep, leaf)
  <2>1. DOMAIN ChainOf(leaf) = 1..Len(ChainOf(leaf))
    BY <1>2, LenProperties
  <2> QED BY <2>1, PagesBehind
<1>4. /\ Recs(isam, ChainOf(leaf)) \in Seq(Record)
      /\ ToSet(Recs(isam, ChainOf(leaf)))
           = UNION {ToSet(isam.pages[ChainOf(leaf)[i]].recs) : i \in 1..Len(ChainOf(leaf))}
  BY <1>1, <1>2, RecsFacts
<1> QED BY <1>3, <1>4 DEF Behind

\* Only the first page of a chain can be empty, so range_search reads a chain as a
\* whole or not at all.
LEMMA ReadChainIs ==
  ASSUME IInv, built, NEW leaf \in 1..Leaves
  PROVE  ReadChain(isam, leaf) =
           IF IsEmpty(isam.pages[leaf]) THEN <<>> ELSE Recs(isam, ChainOf(leaf))
<1> DEFINE chain == ChainOf(leaf)
           empty == {i \in DOMAIN chain : isam.pages[chain[i]].recs = <<>>}
<1>1. Pointing(isam)
  BY DEF IInv, TypeOK, Pointing
<1>2. PICK linked : LinkedBy(isam, linked)
  BY DEF IInv, Linked
<1>3. leaf \in 1..Len(isam.pages)
  BY <1>1, <1>2, ChainLinked
<1>4. /\ chain \in Seq(1..Len(isam.pages)) /\ Len(chain) \in Nat \ {0} /\ chain[1] = leaf
      /\ DOMAIN chain = 1..Len(chain)
  BY <1>1, <1>3, ChainFollows DEF ChainOf
<1>5. \A i \in 1..Len(chain) : i > 1 => chain[i] \notin 1..Leaves
  BY <1>1, <1>2, ChainLinked DEF ChainOf
<1>6. ReadChain(isam, leaf) =
        Recs(isam, IF empty = {} THEN chain ELSE SubSeq(chain, 1, Min(empty) - 1))
  BY DEF ReadChain, ChainOf
<1> HIDE DEF chain
<1>7. \A i \in empty : i = 1
  <2> SUFFICES ASSUME NEW i \in 1..Len(chain), isam.pages[chain[i]].recs = <<>>, i > 1
               PROVE  FALSE
    BY <1>4
  <2>1. chain[i] \in 1..Len(isam.pages) /\ chain[i] \notin 1..Leaves
    BY <1>4, <1>5, ElementOfSeq
  <2>2. chain[i] > Leaves
    BY <2>1, LeavesPositive
  <2> QED BY <2>1, <2>2 DEF IInv, TypeOK
<1>8. 1 \in empty <=> IsEmpty(isam.pages[leaf])
  BY <1>4 DEF IsEmpty
<1> HIDE DEF empty
<1>9. CASE IsEmpty(isam.pages[leaf])
  <2>1. empty = {1} /\ empty \subseteq Nat /\ empty # {}
    BY <1>7, <1>8, <1>9
  <2>2. Min(empty) = 1
    BY <2>1, MinIsLeast
  <2>3. ReadChain(isam, leaf) = Recs(isam, SubSeq(chain, 1, 0))
    BY <1>6, <2>1, <2>2
  <2>4. SubSeq(chain, 1, 0) = <<>>
    BY <1>4
  <2>5. Recs(isam, <<>>) = <<>>
    BY DEF Recs, FlattenSeq
  <2> QED BY <1>9, <2>3, <2>4, <2>5
<1>10. CASE ~ IsEmpty(isam.pages[leaf])
  <2>1. empty = {}
    BY <1>7, <1>8, <1>10
  <2> QED BY <1>6, <1>10, <2>1 DEF chain
<1> QED BY <1>9, <1>10

\* All records, and those range_search can come to, leaf by leaf.
LEMMA RecordsByLeaf ==
  ASSUME IInv, built
  PROVE  /\ AllRecs \in Seq(Record)
         /\ ToSet(AllRecs) = UNION {ToSet(Recs(isam, ChainOf(leaf))) : leaf \in 1..Leaves}
         /\ ToSet(Listed) = UNION {ToSet(ReadChain(isam, leaf)) : leaf \in 1..Leaves}
<1> DEFINE all == [leaf \in 1..Leaves |-> Recs(isam, ChainOf(leaf))]
           listed == [leaf \in 1..Leaves |->
                        IF IsEmpty(isam.pages[leaf]) THEN <<>> ELSE Recs(isam, ChainOf(leaf))]
<1>1. Leaves \in Nat
  BY LeavesPositive
<1>2. \A leaf \in 1..Leaves : Recs(isam, ChainOf(leaf)) \in Seq(Record)
  BY ChainBehind
<1>3. all \in Seq(Seq(Record)) /\ Len(all) = Leaves
  BY <1>1, <1>2
<1>4. listed \in Seq(Seq(Record)) /\ Len(listed) = Leaves
  <2>1. <<>> \in Seq(Record)
    OBVIOUS
  <2> QED BY <1>1, <1>2, <2>1
<1>5. /\ \A leaf \in 1..Leaves : all[leaf] = Recs(isam, ChainOf(leaf))
      /\ \A leaf \in 1..Leaves : listed[leaf] = ReadChain(isam, leaf)
  BY ReadChainIs
<1>6. AllRecs = FlattenSeq(all) /\ Listed = FlattenSeq(listed)
  BY DEF AllRecs, Listed
<1> HIDE DEF all, listed
<1>7. /\ FlattenSeq(all) \in Seq(Record)
      /\ ToSet(FlattenSeq(all)) = UNION {ToSet(all[i]) : i \in 1..Len(all)}
  BY <1>3, FlattenFacts
<1>8. ToSet(FlattenSeq(listed)) = UNION {ToSet(listed[i]) : i \in 1..Len(listed)}
  BY <1>4, FlattenFacts
<1> QED BY <1>3, <1>4, <1>5, <1>6, <1>7, <1>8

-----------------------------------------------------------------------------
(* What the searches find.                                                  *)

\* A key that no leaf begins with is behind the leaf that search comes to.
LEMMA OnlyLeaf ==
  ASSUME NEW f \in Files, LeavesOrdered(f), NEW leaf \in 1..Leaves,
         NEW r \in Behind(f.sep, leaf), r.key \notin ToSet(f.sep)
  PROVE  leaf = LeafOf(f, r.key)
<1> DEFINE high == LeafOf(f, r.key)
<1>1. leaf <= high /\ high \in 1..Leaves /\ leaf \in Nat /\ Leaves \in Nat
  <2>1. leaf \in Leaf(f, {k \in Key : k < r.key})..high
    BY BehindLeaf
  <2>2. high \in 1..Leaves
    BY LeafFound DEF LeafOf
  <2> HIDE DEF high
  <2>3. leaf <= high
    BY <2>1
  <2> QED BY <2>2, <2>3, LeavesPositive
<1>2. high > 1 => f.sep[high - 1] <= r.key
  <2>1. high > 1 => f.sep[high - 1] \in {k \in Key : k <= r.key}
    BY LeafFound DEF LeafOf
  <2> HIDE DEF high
  <2> QED BY <2>1
<1> HIDE DEF high
<1>3. CASE leaf < high
  <2>1. leaf \in 1..Leaves - 1 /\ high - 1 \in 1..Leaves - 1 /\ leaf <= high - 1 /\ leaf < Leaves
    BY <1>1, <1>3
  <2>2. f.sep[leaf] <= f.sep[high - 1]
    BY <2>1 DEF LeavesOrdered
  <2>3. f.sep \in Seq(Key) /\ Len(f.sep) = Leaves - 1
    BY DEF Files, LeavesOrdered
  <2>4. f.sep[leaf] \in Key /\ f.sep[high - 1] \in Key /\ f.sep[leaf] \in ToSet(f.sep)
    BY <2>1, <2>3, ToSetOfSeq
  <2>5. r.key <= f.sep[leaf] /\ r.key \in Key
    BY <2>1 DEF Behind, Record
  <2>6. f.sep[leaf] \in Int /\ f.sep[high - 1] \in Int /\ r.key \in Int
    BY <2>4, <2>5, IsamIndexAssumption
  <2>7. r.key = f.sep[leaf]
    BY <1>1, <1>2, <1>3, <2>2, <2>5, <2>6
  <2> QED BY <2>4, <2>7
<1> QED BY <1>1, <1>3 DEF high

\* search finds the record of a key that has only one.
LEMMA SearchFinds ==
  ASSUME IInv, built, NEW key \in Key, key \notin ToSet(isam.sep),
         Cardinality({i \in DOMAIN AllRecs : AllRecs[i].key = key}) <= 1
  PROVE  Search(isam, key) = RawsOf(Within(AllRecs, {key}))
<1> DEFINE home == LeafOf(isam, key)
           recs == Recs(isam, ChainOf(home))
           same == {i \in DOMAIN recs : recs[i].key = key}
           all == AllRecs
           places == {i \in DOMAIN all : all[i].key = key}
<1>1. isam \in Files /\ LeavesOrdered(isam)
  BY DEF IInv, TypeOK, Files
<1>2. home \in 1..Leaves
  BY LeafFound DEF LeafOf
<1>3. /\ recs \in Seq(Record) /\ DOMAIN recs = 1..Len(recs) /\ Len(recs) \in Nat
      /\ \A x : x \in ToSet(recs) <=> \E i \in 1..Len(recs) : x = recs[i]
  <2>1. recs \in Seq(Record)
    BY <1>2, ChainBehind
  <2> HIDE DEF recs
  <2> QED BY <2>1, ToSetOfSeq
<1>4. Search(isam, key) = IF same = {} THEN {} ELSE recs[Min(same)].raws
  <2> DEFINE Raws(seq) ==
               LET found == {i \in DOMAIN seq : seq[i].key = key}
               IN  IF found = {} THEN {} ELSE seq[Min(found)].raws
             first == [seq \in Seq(Record) |-> Raws(seq)]
  <2>1. Search(isam, key) = first[recs]
    BY DEF Search, ChainOf
  <2>2. first[recs] = Raws(recs)
    <3> HIDE DEF recs, Raws
    <3> QED BY <1>3
  <2> QED BY ONLY <2>1, <2>2
<1>5. /\ all \in Seq(Record) /\ DOMAIN all = 1..Len(all) /\ Len(all) \in Nat
      /\ \A x : x \in ToSet(all) <=> \E i \in 1..Len(all) : x = all[i]
      /\ ToSet(all) = UNION {ToSet(Recs(isam, ChainOf(leaf))) : leaf \in 1..Leaves}
  BY RecordsByLeaf, ToSetOfSeq
<1>6. ToSet(recs) \subseteq ToSet(all)
  BY <1>2, <1>5
<1>7. \A r \in ToSet(all) : r.key = key => r \in ToSet(recs)
  <2> SUFFICES ASSUME NEW leaf \in 1..Leaves, NEW r \in ToSet(Recs(isam, ChainOf(leaf))),
                      r.key = key
               PROVE  r \in ToSet(recs)
    BY <1>5
  <2>1. r \in Behind(isam.sep, leaf)
    BY ChainBehind
  <2>2. leaf = LeafOf(isam, r.key)
    BY <1>1, <2>1, OnlyLeaf
  <2> QED BY <2>2
<1>8. \A r, s \in ToSet(all) : r.key = key /\ s.key = key => r = s
  <2>1. \A i, j \in places : i = j
    <3>1. IsFiniteSet(places)
      <4>1. places \subseteq 1..Len(all)
        BY <1>5
      <4>2. Len(all) \in Int /\ 1 \in Int
        BY <1>5
      <4> HIDE DEF all
      <4>3. IsFiniteSet(1..Len(all))
        BY <4>2, FS_Interval
      <4> QED BY <4>1, <4>3, FS_Subset
    <3>2. Cardinality(places) <= 1
      OBVIOUS
    <3> HIDE DEF places
    <3> SUFFICES ASSUME NEW i \in places, NEW j \in places, i # j PROVE FALSE
      OBVIOUS
    <3>3. {i, j} \subseteq places
      OBVIOUS
    <3>4. Cardinality({i, j}) = 2
      <4>1. IsFiniteSet({i}) /\ Cardinality({i}) = 1
        BY FS_Singleton
      <4>2. {i, j} = {i} \union {j} /\ j \notin {i}
        OBVIOUS
      <4>3. Cardinality({i} \union {j}) = 1 + 1
        BY ONLY <4>1, <4>2, FS_AddElement
      <4> QED BY ONLY <4>2, <4>3
    <3>5. Cardinality({i, j}) <= Cardinality(places) /\ Cardinality(places) \in Nat
      BY <3>1, <3>3, FS_Subset, FS_CardinalityType
    <3> QED BY <3>2, <3>4, <3>5
  <2> HIDE DEF all
  <2> QED BY <1>5, <2>1
<1> HIDE DEF home, recs, all
<1>9. Within(all, {key}) = {r \in ToSet(all) : r.key = key}
  BY DEF Within
<1>10. CASE same = {}
  <2>1. Within(all, {key}) = {}
    <3> SUFFICES ASSUME NEW r \in ToSet(all), r.key = key PROVE FALSE
      BY <1>9
    <3>1. r \in ToSet(recs)
      BY <1>7
    <3>2. PICK i \in 1..Len(recs) : r = recs[i]
      BY <1>3, <3>1
    <3>3. i \in same
      BY <1>3, <3>2
    <3> QED BY <1>10, <3>3
  <2>2. RawsOf({}) = {}
    BY DEF RawsOf
  <2> QED BY <1>4, <1>10, <2>1, <2>2 DEF all
<1>11. CASE same # {}
  <2>1. Min(same) \in same
    <3>1. same \subseteq Nat
      BY <1>3
    <3> HIDE DEF same
    <3> QED BY <1>11, <3>1, MinIsLeast
  <2> DEFINE rec == recs[Min(same)]
  <2>2. rec \in ToSet(all) /\ rec.key = key
    BY <1>3, <1>6, <2>1
  <2> HIDE DEF rec
  <2>3. Within(all, {key}) = {rec}
    BY <1>8, <1>9, <2>2
  <2>4. RawsOf({rec}) = rec.raws
    BY DEF RawsOf
  <2> QED BY <1>4, <1>11, <2>3, <2>4 DEF all, rec
<1> QED BY <1>10, <1>11

\* range_search, leaf after leaf.  `Part(leaf)' is what it takes from a leaf,
\* `LastRead' the key it has read last when it leaves it.
LEMMA RangeFinds ==
  ASSUME IInv, built, NEW begin \in Key, NEW end \in Key
  PROVE  RangeSearch(isam, begin, end) = RawsOf(Within(Listed, begin..end))
<1> DEFINE recs(leaf) == ReadChain(isam, leaf)
           Part(leaf) == Within(recs(leaf), begin..end)
           LastRead(leaf, last) == IF recs(leaf) = <<>> THEN last ELSE Last(recs(leaf)).key
           Row(leaf, next) == [last \in Key |->
             RawsOf(Part(leaf)) \union
               IF leaf < Leaves /\ LastRead(leaf, last) <= end THEN next[LastRead(leaf, last)] ELSE {}]
           Solves(w) == w = [leaf \in 1..Leaves |-> [last \in Key |->
             RawsOf(Part(leaf)) \union
               IF leaf < Leaves /\ LastRead(leaf, last) <= end
               THEN w[leaf + 1][LastRead(leaf, last)] ELSE {}]]
           from == CHOOSE w : Solves(w)
           low == Leaf(isam, {k \in Key : k < begin})
<1>1. RangeSearch(isam, begin, end) = from[low][begin]
  BY DEF RangeSearch
<1>2. isam \in Files /\ LeavesOrdered(isam) /\ Leaves \in Nat \ {0} /\ Key \subseteq Int
  BY LeavesPositive, IsamIndexAssumption DEF IInv, TypeOK, Files
<1>3. \A leaf \in 1..Leaves : recs(leaf) \in Seq(Record) /\ ToSet(recs(leaf)) \subseteq Behind(isam.sep, leaf)
  <2> TAKE leaf \in 1..Leaves
  <2>1. <<>> \in Seq(Record) /\ ToSet(<<>>) = {}
    BY DEF ToSet
  <2> QED BY <2>1, ReadChainIs, ChainBehind
<1>4. ToSet(Listed) = UNION {ToSet(recs(leaf)) : leaf \in 1..Leaves}
  BY RecordsByLeaf
<1> HIDE DEF recs
<1>5. \A leaf \in 1..Leaves : \A r \in Part(leaf) :
        /\ r \in Record /\ r.key \in Int /\ begin <= r.key /\ r.key <= end
        /\ leaf > 1 => isam.sep[leaf - 1] <= r.key
        /\ leaf < Leaves => r.key <= isam.sep[leaf]
  <2> TAKE leaf \in 1..Leaves
  <2> TAKE r \in Part(leaf)
  <2>1. r \in ToSet(recs(leaf)) /\ r.key \in begin..end
    BY DEF Within
  <2>2. r \in Behind(isam.sep, leaf)
    BY <1>3, <2>1
  <2> QED BY <1>2, <2>1, <2>2 DEF Behind, Record
<1>6. \A leaf \in 1..Leaves, last \in Key :
        /\ LastRead(leaf, last) \in Key
        /\ recs(leaf) # <<>> /\ leaf < Leaves => LastRead(leaf, last) <= isam.sep[leaf]
  <2> TAKE leaf \in 1..Leaves, last \in Key
  <2>1. CASE recs(leaf) = <<>>
    BY <2>1
  <2>2. CASE recs(leaf) # <<>>
    <3>1. Last(recs(leaf)) \in ToSet(recs(leaf))
      BY <1>3, <2>2, ToSetOfSeq
    <3>2. Last(recs(leaf)) \in Behind(isam.sep, leaf)
      BY <1>3, <3>1
    <3> QED BY <2>2, <3>2 DEF Behind, Record
  <2> QED BY <2>1, <2>2
<1>7. \A leaf \in 1..Leaves : RawsOf(Part(leaf)) \in SUBSET Position
  <2> TAKE leaf \in 1..Leaves
  <2>1. \A r \in Part(leaf) : r.raws \in SUBSET Position
    BY <1>5 DEF Record
  <2> HIDE DEF Part
  <2> QED BY <2>1 DEF RawsOf
<1>8. \A i \in 1..Leaves - 1 : isam.sep[i] \in Int
  <2>1. isam.sep \in Seq(Key) /\ Len(isam.sep) = Leaves - 1
    BY <1>2 DEF Files, LeavesOrdered
  <2>2. \A i \in 1..Leaves - 1 : isam.sep[i] \in Key
    BY <2>1, ElementOfSeq
  <2> QED BY <1>2, <2>2
<1> HIDE DEF Part, LastRead
<1>9. \E w : Solves(w)
  <2> DEFINE All == [Key -> SUBSET Position]
             none == [last \in Key |-> {}]
             step == [i \in 1..Leaves |-> [next \in All |-> Row(Leaves + 1 - i, next)]]
  <2>1. \A leaf \in 1..Leaves, next \in All : Row(leaf, next) \in All
    <3> TAKE leaf \in 1..Leaves, next \in All
    <3>1. ASSUME NEW last \in Key
          PROVE  RawsOf(Part(leaf)) \union
                   (IF leaf < Leaves /\ LastRead(leaf, last) <= end
                    THEN next[LastRead(leaf, last)] ELSE {}) \in SUBSET Position
      <4>1. next[LastRead(leaf, last)] \in SUBSET Position /\ RawsOf(Part(leaf)) \in SUBSET Position
        BY <1>6, <1>7
      <4> QED BY <4>1
    <3> QED BY <3>1
  <2> HIDE DEF Row
  <2>2. step \in [1..Leaves -> [All -> All]]
    <3>1. \A i \in 1..Leaves : Leaves + 1 - i \in 1..Leaves
      BY <1>2
    <3> HIDE DEF All
    <3> QED BY <2>1, <3>1
  <2>3. none \in All
    OBVIOUS
  <2>4. \A i \in 1..Leaves, next \in All : step[i][next] = Row(Leaves + 1 - i, next)
    <3> HIDE DEF All
    <3> QED OBVIOUS
  <2> HIDE DEF All, none, step
  <2>5. PICK w : Stepwise(w, Leaves, All, none, step)
    <3>1. Steps(Leaves, All, step)
      BY <1>2, <2>2 DEF Steps
    <3> QED BY ONLY <2>3, <3>1, StepwiseExists
  <2> DEFINE v == [leaf \in 1..Leaves |-> w[Leaves + 1 - leaf]]
  <2>6. ASSUME NEW leaf \in 1..Leaves
        PROVE  v[leaf] = [last \in Key |->
                 RawsOf(Part(leaf)) \union
                   IF leaf < Leaves /\ LastRead(leaf, last) <= end
                   THEN v[leaf + 1][LastRead(leaf, last)] ELSE {}]
    <3> DEFINE i == Leaves + 1 - leaf
    <3>1. i \in 1..Leaves /\ i - 1 \in 0..Leaves /\ Leaves + 1 - i = leaf
      BY <1>2
    <3>2. w[i] = Row(leaf, w[i - 1])
      BY <2>4, <2>5, <3>1 DEF Stepwise
    <3>3. v[leaf] = w[i]
      OBVIOUS
    <3>4. leaf < Leaves => v[leaf + 1] = w[i - 1]
      <4>1. leaf < Leaves => leaf + 1 \in 1..Leaves /\ Leaves + 1 - (leaf + 1) = i - 1
        BY <1>2
      <4> HIDE DEF i
      <4> QED BY <4>1
    <3> HIDE DEF v, i
    <3> QED BY <3>2, <3>3, <3>4 DEF Row
  <2>7. v = [leaf \in 1..Leaves |-> v[leaf]]
    OBVIOUS
  <2> HIDE DEF v
  <2>8. Solves(v)
    BY <2>6, <2>7
  <2> QED BY <2>8
<1>10. \A leaf \in 1..Leaves, last \in Key :
         from[leaf][last] = RawsOf(Part(leaf)) \union
           IF leaf < Leaves /\ LastRead(leaf, last) <= end
           THEN from[leaf + 1][LastRead(leaf, last)] ELSE {}
  <2>1. Solves(from)
    <3> HIDE DEF Solves
    <3> QED BY <1>9
  <2> HIDE DEF from
  <2> DEFINE Value(leaf, last) == RawsOf(Part(leaf)) \union
               IF leaf < Leaves /\ LastRead(leaf, last) <= end
               THEN from[leaf + 1][LastRead(leaf, last)] ELSE {}
             rows == [leaf \in 1..Leaves |-> [last \in Key |-> Value(leaf, last)]]
  <2>2. from = rows
    BY <2>1
  <2>3. \A leaf \in 1..Leaves, last \in Key : rows[leaf][last] = Value(leaf, last)
    <3> HIDE DEF Value
    <3> QED OBVIOUS
  <2>4. \A leaf \in 1..Leaves, last \in Key : from[leaf][last] = Value(leaf, last)
    <3> HIDE DEF Value, rows
    <3> QED BY ONLY <2>2, <2>3
  <2> QED BY ONLY <2>4
<1> HIDE DEF Solves, from, Row
<1> DEFINE After(leaf) == UNION {Part(l) : l \in leaf..Leaves}
           Right(leaf) == \A last \in Key :
             last <= end \/ begin > end => from[leaf][last] = RawsOf(After(leaf))
           S == {m \in Nat : m < Leaves => Right(Leaves - m)}
<1>11. 0 \in S
  <2>1. After(Leaves) = Part(Leaves)
    BY <1>2
  <2>2. Leaves \in 1..Leaves /\ ~ (Leaves < Leaves)
    BY <1>2
  <2> HIDE DEF After
  <2>3. \A last \in Key : from[Leaves][last] = RawsOf(Part(Leaves)) \union {}
    BY <1>10, <2>2
  <2>4. Right(Leaves)
    BY <2>1, <2>3
  <2> HIDE DEF Right
  <2>5. Leaves - 0 = Leaves
    BY <1>2
  <2> QED BY <2>4, <2>5
\* Once a key above the end of the range is read, no leaf has more of the range.
<1>12. ASSUME NEW leaf \in 1..Leaves, leaf < Leaves, NEW last \in Key,
              last <= end \/ begin > end, ~ (LastRead(leaf, last) <= end)
       PROVE  After(leaf + 1) = {}
  <2> SUFFICES ASSUME NEW l \in leaf + 1..Leaves, NEW r \in Part(l) PROVE FALSE
    OBVIOUS
  <2>1. l \in 1..Leaves /\ l > 1 /\ l - 1 \in 1..Leaves - 1 /\ leaf \in 1..Leaves - 1 /\ leaf <= l - 1
    BY <1>2, <1>12
  <2>2. r.key \in Int /\ begin <= r.key /\ r.key <= end /\ isam.sep[l - 1] <= r.key
    BY <1>5, <2>1
  <2>3. CASE recs(leaf) = <<>>
    <3>1. LastRead(leaf, last) = last
      BY <2>3 DEF LastRead
    <3>2. begin > end
      BY <1>12, <3>1
    <3> QED BY <1>2, <2>2, <3>2
  <2>4. CASE recs(leaf) # <<>>
    <3>1. LastRead(leaf, last) <= isam.sep[leaf] /\ LastRead(leaf, last) \in Int
      BY <1>2, <1>6, <1>12, <2>4
    <3>2. isam.sep[leaf] <= isam.sep[l - 1]
      BY <1>2, <2>1 DEF LeavesOrdered
    <3>3. isam.sep[leaf] \in Int /\ isam.sep[l - 1] \in Int /\ end \in Int
      BY <1>2, <1>8, <2>1
    <3> QED BY <1>12, <2>2, <3>1, <3>2, <3>3
  <2> QED BY <2>3, <2>4
<1>13. ASSUME NEW m \in Nat, m \in S
       PROVE  m + 1 \in S
  <2> SUFFICES ASSUME m + 1 < Leaves PROVE Right(Leaves - (m + 1))
    OBVIOUS
  <2> DEFINE leaf == Leaves - (m + 1)
  <2>1. leaf \in 1..Leaves /\ leaf < Leaves /\ leaf + 1 = Leaves - m /\ m < Leaves
    BY <1>2
  <2>2. Right(leaf + 1)
    <3> HIDE DEF Right
    <3> QED BY <1>13, <2>1
  <2> HIDE DEF leaf
  <2>3. RawsOf(After(leaf)) = RawsOf(Part(leaf)) \union RawsOf(After(leaf + 1))
    <3>1. leaf..Leaves = {leaf} \union leaf + 1..Leaves
      BY <1>2, <2>1
    <3>2. After(leaf) = Part(leaf) \union After(leaf + 1)
      BY <3>1
    <3> HIDE DEF After
    <3> QED BY <3>2 DEF RawsOf
  <2>4. ASSUME NEW last \in Key, last <= end \/ begin > end
        PROVE  from[leaf][last] = RawsOf(After(leaf))
    <3> HIDE DEF After
    <3>1. CASE LastRead(leaf, last) <= end
      <4>1. from[leaf][last] = RawsOf(Part(leaf)) \union from[leaf + 1][LastRead(leaf, last)]
        BY <1>10, <2>1, <3>1
      <4>2. from[leaf + 1][LastRead(leaf, last)] = RawsOf(After(leaf + 1))
        BY <1>6, <2>1, <2>2, <3>1
      <4> QED BY <2>3, <4>1, <4>2
    <3>2. CASE ~ (LastRead(leaf, last) <= end)
      <4>1. from[leaf][last] = RawsOf(Part(leaf)) \union {}
        BY <1>10, <2>1, <3>2
      <4>2. After(leaf + 1) = {}
        BY <1>12, <2>1, <2>4, <3>2
      <4>3. RawsOf({}) = {}
        BY DEF RawsOf
      <4> QED BY <2>3, <4>1, <4>2, <4>3
    <3> QED BY <3>1, <3>2
  <2>5. Right(leaf)
    BY <2>4
  <2> QED BY <2>5 DEF leaf
<1>14. low \in 1..Leaves /\ (low > 1 => isam.sep[low - 1] < begin)
  <2>1. low \in 1..Leaves /\ (low > 1 => isam.sep[low - 1] \in {k \in Key : k < begin})
    BY LeafFound
  <2> HIDE DEF low
  <2> QED BY <2>1
<1> HIDE DEF low
<1>15. from[low][begin] = RawsOf(After(low))
  <2>1. Leaves - low \in Nat /\ Leaves - low < Leaves /\ Leaves - (Leaves - low) = low
    BY <1>2, <1>14
  <2> HIDE DEF S
  <2>2. Leaves - low \in S
    BY <1>11, <1>13, <2>1, SetInduction
  <2>3. Right(low)
    <3> HIDE DEF Right
    <3> QED BY <2>1, <2>2 DEF S
  <2>4. begin <= end \/ begin > end
    BY <1>2
  <2> QED BY <2>3, <2>4
<1>16. Within(Listed, begin..end) = After(low)
  <2>1. Within(Listed, begin..end) = UNION {Part(l) : l \in 1..Leaves}
    BY <1>4 DEF Within, Part
  <2>2. ASSUME NEW l \in 1..Leaves, l < low, NEW r \in Part(l)
        PROVE  FALSE
    <3>1. l \in 1..Leaves - 1 /\ low - 1 \in 1..Leaves - 1 /\ l <= low - 1 /\ low > 1 /\ l < Leaves
      BY <1>2, <1>14, <2>2
    <3>2. isam.sep[l] <= isam.sep[low - 1]
      BY <1>2, <3>1 DEF LeavesOrdered
    <3>3. begin <= r.key /\ r.key <= isam.sep[l] /\ r.key \in Int
      BY <1>5, <2>2, <3>1
    <3>4. isam.sep[l] \in Int /\ isam.sep[low - 1] \in Int /\ begin \in Int
      BY <1>2, <1>8, <3>1
    <3> QED BY <1>14, <3>1, <3>2, <3>3, <3>4
  <2>3. \A l \in 1..Leaves : l \in low..Leaves \/ Part(l) = {}
    <3> TAKE l \in 1..Leaves
    <3>1. l < low \/ l \in low..Leaves
      BY <1>2, <1>14
    <3> QED BY <2>2, <3>1
  <2>4. low..Leaves \subseteq 1..Leaves
    BY <1>2, <1>14
  <2> QED BY <2>1, <2>3, <2>4
<1> QED BY <1>1, <1>15, <1>16

\* The invariant says of the searches what SearchAgrees does.
LEMMA SearchesFind ==
  ASSUME IInv
  PROVE  SearchAgrees
BY SearchFinds, RangeFinds DEF SearchAgrees

-----------------------------------------------------------------------------
(* Writing pages.                                                           *)

\* What a write at a place of the file changes.
LEMMA WriteFacts ==
  ASSUME NEW f \in Files, NEW at \in 1..Len(f.pages), NEW page \in DataPage
  PROVE  /\ Write(f, at, page) \in Files
         /\ Len(Write(f, at, page).pages) = Len(f.pages) /\ Len(f.pages) \in Nat
         /\ \A i \in 1..Len(f.pages) :
              Write(f, at, page).pages[i] = IF i = at THEN page ELSE f.pages[i]
<1> DEFINE pages == [f.pages EXCEPT ![at] = page]
<1>1. f.pages \in Seq(DataPage) /\ f.sep \in Seq(Key)
  BY DEF Files
<1>2. Write(f, at, page).pages = pages
  BY DEF Write, Files
<1>3. Write(f, at, page) = [pages |-> Write(f, at, page).pages, sep |-> f.sep]
  BY DEF Write, Files
<1>4. Len(f.pages) \in Nat
  BY <1>1, LenProperties
<1> HIDE DEF DataPage
<1>5. /\ pages \in Seq(DataPage) /\ Len(pages) = Len(f.pages)
      /\ \A i \in 1..Len(f.pages) : pages[i] = IF i = at THEN page ELSE f.pages[i]
  BY <1>1, ExceptSeq
<1> HIDE DEF pages
<1>6. Write(f, at, page) = [pages |-> pages, sep |-> f.sep]
  BY <1>2, <1>3
<1>7. Write(f, at, page) \in Files
  BY ONLY <1>1, <1>5, <1>6 DEF Files
<1> QED BY ONLY <1>2, <1>4, <1>5, <1>7

\* What a new page at the end of the file changes.
LEMMA WriteAtEndFacts ==
  ASSUME NEW f \in Files, NEW page \in DataPage
  PROVE  /\ WriteAtEnd(f, page) \in Files
         /\ Len(WriteAtEnd(f, page).pages) = Len(f.pages) + 1 /\ Len(f.pages) \in Nat
         /\ \A i \in 1..Len(f.pages) : WriteAtEnd(f, page).pages[i] = f.pages[i]
         /\ WriteAtEnd(f, page).pages[Len(f.pages) + 1] = page
<1>1. f.pages \in Seq(DataPage)
  BY DEF Files
<1> DEFINE pages == Append(f.pages, page)
<1>2. WriteAtEnd(f, page) = [f EXCEPT !.pages = pages]
  BY DEF WriteAtEnd
<1> HIDE DEF pages
<1>3. WriteAtEnd(f, page) = [pages |-> pages, sep |-> f.sep]
  BY <1>2 DEF Files
<1>4. Len(f.pages) \in Nat
  BY <1>1, LenProperties
<1> HIDE DEF DataPage
<1>5. /\ pages \in Seq(DataPage) /\ Len(pages) = Len(f.pages) + 1
      /\ \A i \in 1..Len(f.pages) : pages[i] = f.pages[i]
      /\ pages[Len(f.pages) + 1] = page
  BY <1>1, AppendProperties DEF pages
<1> QED BY <1>3, <1>4, <1>5 DEF Files

\* No operation but build writes the index pages.
LEMMA SepKept ==
  ASSUME NEW f \in Files, NEW at, NEW page
  PROVE  Write(f, at, page).sep = f.sep /\ WriteAtEnd(f, page).sep = f.sep
BY DEF Write, WriteAtEnd, Files

LEMMA OrderKept ==
  ASSUME NEW f, LeavesOrdered(f), NEW g, g.sep = f.sep
  PROVE  LeavesOrdered(g)
BY DEF LeavesOrdered

LEMMA OrderKeptByNewPage ==
  ASSUME NEW f \in Files, LeavesOrdered(f), NEW new \in DataPage, NEW at, NEW page
  PROVE  LeavesOrdered(Write(WriteAtEnd(f, new), at, page))
<1> DEFINE g == WriteAtEnd(f, new)
<1> HIDE DEF DataPage
<1>1. g \in Files
  BY WriteAtEndFacts
<1>2. g.sep = f.sep
  BY SepKept
<1> HIDE DEF g
<1>3. Write(g, at, page).sep = f.sep
  BY <1>1, <1>2, SepKept
<1>4. LeavesOrdered(Write(g, at, page))
  BY <1>3, OrderKept
<1> QED BY <1>4 DEF g

\* A page that is written where it is, with the pointer it had, leaves the chains
\* alone.
LEMMA KeptByWrite ==
  ASSUME NEW f, WellFormed(f), NEW at \in 1..Len(f.pages), NEW page \in DataPage,
         page.next = f.pages[at].next, at > Leaves => page.recs # <<>>
  PROVE  /\ WellFormed(Write(f, at, page))
         /\ Len(Write(f, at, page).pages) = Len(f.pages)
         /\ \A i \in 1..Len(f.pages) :
              Write(f, at, page).pages[i] = IF i = at THEN page ELSE f.pages[i]
         /\ \A linked : LinkedBy(f, linked) => LinkedBy(Write(f, at, page), linked)
<1> DEFINE g == Write(f, at, page)
<1> HIDE DEF DataPage
<1>0. f \in Files /\ at \in 1..Len(f.pages) /\ page \in DataPage
  BY DEF WellFormed
<1>1. /\ g \in Files /\ Len(g.pages) = Len(f.pages) /\ Len(f.pages) \in Nat
      /\ \A i \in 1..Len(f.pages) : g.pages[i] = IF i = at THEN page ELSE f.pages[i]
  BY ONLY <1>0, WriteFacts
<1> HIDE DEF g
<1>2. \A i \in 1..Len(f.pages) : g.pages[i].next = f.pages[i].next
  BY <1>1
<1>3. WellFormed(g)
  BY <1>1, <1>2 DEF WellFormed
<1>4. ASSUME NEW linked, LinkedBy(f, linked)
      PROVE  LinkedBy(g, linked)
  BY <1>1, <1>2, <1>4 DEF LinkedBy
<1> QED BY <1>1, <1>3, <1>4 DEF g

\* Its records are such as belong behind the leaf that owns the page.
LEMMA OwnedByWrite ==
  ASSUME NEW f \in Files, NEW linked, linked \subseteq 1..Len(f.pages),
         NEW owner, OwnedBy(f, linked, owner), NEW at \in linked, NEW page \in DataPage,
         page.next = f.pages[at].next, page.recs \in Seq(Behind(f.sep, owner[at]))
  PROVE  OwnedBy(Write(f, at, page), linked, owner)
<1> DEFINE g == Write(f, at, page)
<1> HIDE DEF DataPage
<1>1. at \in 1..Len(f.pages)
  OBVIOUS
<1>2. \A i \in 1..Len(f.pages) : g.pages[i] = IF i = at THEN page ELSE f.pages[i]
  BY <1>1, WriteFacts
<1>3. g.sep = f.sep
  BY SepKept
<1> HIDE DEF g
<1>4. \A p \in linked : g.pages[p].next = f.pages[p].next
  BY <1>2
<1>5. \A p \in linked : g.pages[p].recs \in Seq(Behind(g.sep, owner[p]))
  BY <1>2, <1>3 DEF OwnedBy
<1>6. OwnedBy(g, linked, owner)
  BY <1>4, <1>5 DEF OwnedBy
<1> QED BY <1>6 DEF g

\* A page of a chain that is made to point to a new page at the end of the file:
\* the new page takes over its pointer, or ends the chain.  Both have records that
\* belong behind the leaf of the chain.
Extends(f, linked, owner, at, page, new) ==
  /\ WellFormed(f) /\ LinkedBy(f, linked) /\ OwnedBy(f, linked, owner) /\ at \in linked
  /\ page \in DataPage /\ new \in DataPage
  /\ page.next = Len(f.pages) + 1 /\ new.next \in {0, f.pages[at].next}
  /\ (at > Leaves => page.recs # <<>>) /\ new.recs # <<>>
  /\ page.recs \in Seq(Behind(f.sep, owner[at])) /\ new.recs \in Seq(Behind(f.sep, owner[at]))

LEMMA KeptByNewPage ==
  ASSUME NEW f, NEW linked, NEW owner, NEW at, NEW page, NEW new,
         Extends(f, linked, owner, at, page, new)
  PROVE  LET g == Write(WriteAtEnd(f, new), at, page)
         IN  WellFormed(g) /\ Linked(g) /\ Len(g.pages) = Len(f.pages) + 1
<1> DEFINE e == WriteAtEnd(f, new)
           g == Write(e, at, page)
           last == Len(f.pages) + 1
           now == linked \union {last}
<1> HIDE DEF DataPage
<1>0. /\ WellFormed(f) /\ f \in Files /\ LinkedBy(f, linked) /\ OwnedBy(f, linked, owner)
      /\ at \in linked /\ page \in DataPage /\ new \in DataPage
      /\ page.next = last /\ new.next \in {0, f.pages[at].next}
      /\ (at > Leaves => page.recs # <<>>) /\ new.recs # <<>>
      /\ page.recs \in Seq(Behind(f.sep, owner[at]))
      /\ new.recs \in Seq(Behind(f.sep, owner[at]))
  BY DEF Extends, WellFormed
<1>sep. g.sep = f.sep
  <2>1. e \in Files /\ e.sep = f.sep
    BY <1>0, WriteAtEndFacts, SepKept
  <2> HIDE DEF e
  <2> QED BY <2>1, SepKept
<1>1. /\ e \in Files /\ Len(e.pages) = last /\ Len(f.pages) \in Nat
      /\ \A i \in 1..Len(f.pages) : e.pages[i] = f.pages[i]
      /\ e.pages[last] = new
  BY <1>0, WriteAtEndFacts
<1>2. at \in 1..Len(f.pages) /\ at \in 1..Len(e.pages) /\ at # last
  BY <1>0, <1>1 DEF LinkedBy
<1> HIDE DEF e
<1>3. /\ g \in Files /\ Len(g.pages) = last
      /\ \A i \in 1..last : g.pages[i] = IF i = at THEN page ELSE e.pages[i]
  BY <1>0, <1>1, <1>2, WriteFacts
<1> HIDE DEF g
<1>4. /\ g.pages[at] = page /\ g.pages[last] = new
      /\ \A i \in 1..Len(f.pages) : i # at => g.pages[i] = f.pages[i]
  <2>1. at \in 1..last /\ last \in 1..last /\ \A i \in 1..Len(f.pages) : i \in 1..last
    BY <1>1, <1>2
  <2> HIDE DEF last
  <2> QED BY <1>1, <1>2, <1>3, <2>1
<1>5. Leaves \in Nat /\ Len(f.pages) >= Leaves
  BY <1>0, LeavesPositive DEF WellFormed
<1>6. new.next \in 0..last /\ page.next \in 0..last
  BY <1>0, <1>1, <1>2 DEF WellFormed
<1>7. WellFormed(g)
  <2> SUFFICES ASSUME NEW i \in 1..last
               PROVE  g.pages[i].next \in 0..last /\ (i > Leaves => g.pages[i].recs # <<>>)
    BY <1>1, <1>3, <1>5 DEF WellFormed
  <2>1. CASE i = at
    BY <1>0, <1>4, <1>6, <2>1
  <2>2. CASE i = last
    BY <1>0, <1>4, <1>6, <2>2
  <2>3. CASE i # at /\ i # last
    <3>1. i \in 1..Len(f.pages) /\ g.pages[i] = f.pages[i]
      BY <1>1, <1>4, <2>3
    <3>2. f.pages[i].next \in 0..last
      BY <1>0, <1>1, <3>1 DEF WellFormed
    <3> QED BY <1>0, <3>1, <3>2 DEF WellFormed
  <2> QED BY <2>1, <2>2, <2>3
<1>7a. /\ \A p \in linked : p \in 1..Len(f.pages) /\ p # last
       /\ last \notin 1..Leaves /\ last # 0 /\ last \in Nat
       /\ \A p \in linked : f.pages[p].next # 0 => f.pages[p].next \in linked \ 1..Leaves
  BY <1>0, <1>1, <1>5 DEF LinkedBy
<1>8. LinkedBy(g, now)
  <2>1. /\ \A p \in linked : p \in 1..Len(f.pages) /\ p # last
        /\ last \notin 1..Leaves /\ last # 0 /\ last \in Nat
    BY <1>7a
  <2>2. 1..Leaves \subseteq now /\ now \subseteq 1..Len(g.pages)
    <3>1. 1..Leaves \subseteq linked
      BY <1>0 DEF LinkedBy
    <3>2. \A p \in now : p \in 1..Len(g.pages)
      BY <1>1, <1>3, <2>1
    <3> QED BY <3>1, <3>2
  <2>3. ASSUME NEW p \in now
        PROVE  \/ p = at /\ g.pages[p].next = last
               \/ p = last /\ g.pages[p].next \in {0, f.pages[at].next}
               \/ p \in linked /\ p # at /\ g.pages[p].next = f.pages[p].next
    BY <1>0, <1>4, <2>1, <2>3
  <2>4. \A p \in linked : f.pages[p].next # 0 => f.pages[p].next \in linked \ 1..Leaves
    BY <1>7a
  <2>5. \A p \in now : g.pages[p].next # 0 => g.pages[p].next \in now \ 1..Leaves
    BY <1>0, <2>1, <2>3, <2>4
  <2>6. ASSUME NEW p \in now, NEW q \in now,
               g.pages[p].next # 0, g.pages[p].next = g.pages[q].next
        PROVE  p = q
    <3> DEFINE Was(x) == IF x = last THEN at ELSE x
    <3>1. \A x \in now : g.pages[x].next # 0 /\ x # at =>
            /\ Was(x) \in linked /\ g.pages[x].next = f.pages[Was(x)].next
            /\ g.pages[x].next # last
      BY <1>0, <2>1, <2>3, <2>4
    <3>2. p = at <=> q = at
      BY <1>0, <2>3, <2>6, <3>1, <1>4
    <3>3. ASSUME p # at, q # at PROVE Was(p) = Was(q)
      BY <1>0, <2>6, <3>1, <3>2, <3>3 DEF LinkedBy
    <3> QED BY <2>6, <3>2, <3>3
  <2> QED BY <2>2, <2>5, <2>6 DEF LinkedBy
<1>9. now \in SUBSET (1..Len(g.pages))
  BY <1>8 DEF LinkedBy
<1> DEFINE owners == [owner EXCEPT ![last] = owner[at]]
<1>10. OwnedBy(g, now, owners)
  <2>1. /\ owner \in [Nat -> 1..Leaves] /\ \A leaf \in 1..Leaves : owner[leaf] = leaf
        /\ \A p \in linked : f.pages[p].next # 0 => owner[f.pages[p].next] = owner[p]
        /\ \A p \in linked : f.pages[p].recs \in Seq(Behind(f.sep, owner[p]))
    BY <1>0 DEF OwnedBy
  <2>2. at \in Nat /\ \A p \in linked : p \in Nat /\ p # last
    BY <1>0, <1>1, <1>7a
  <2>3. /\ owners \in [Nat -> 1..Leaves] /\ owners[last] = owner[at]
        /\ \A i \in Nat : i # last => owners[i] = owner[i]
    BY <1>7a, <2>1, <2>2
  <2> HIDE DEF owners
  <2>4. \A leaf \in 1..Leaves : owners[leaf] = leaf
    <3>1. \A leaf \in 1..Leaves : leaf \in Nat /\ leaf # last
      BY <1>5, <1>7a
    <3> HIDE DEF last
    <3> QED BY <2>1, <2>3, <3>1
  <2>5. /\ \A p \in linked : owners[p] = owner[p]
        /\ \A p \in linked : f.pages[p].next # 0 =>
             /\ owners[f.pages[p].next] = owner[p]
    BY <1>7a, <2>1, <2>2, <2>3
  <2>6. /\ \A p \in linked : p # at => g.pages[p] = f.pages[p]
        /\ g.pages[at] = page /\ g.pages[last] = new
    BY <1>4, <1>7a
  <2>7. ASSUME NEW p \in now, g.pages[p].next # 0
        PROVE  owners[g.pages[p].next] = owners[p]
    <3>1. CASE p = at
      BY <1>0, <2>3, <2>5, <2>6, <3>1
    <3>2. CASE p = last
      BY <1>0, <2>3, <2>5, <2>6, <2>7, <3>2
    <3>3. CASE p \in linked /\ p # at
      BY <2>5, <2>6, <2>7, <3>3
    <3> QED BY <3>1, <3>2, <3>3
  <2>8. ASSUME NEW p \in now
        PROVE  g.pages[p].recs \in Seq(Behind(g.sep, owners[p]))
    <3>1. CASE p = at
      BY <1>0, <1>sep, <2>5, <2>6, <3>1
    <3>2. CASE p = last
      BY <1>0, <1>sep, <2>3, <2>6, <3>2
    <3>3. CASE p \in linked /\ p # at
      BY <1>sep, <2>1, <2>5, <2>6, <3>3
    <3> QED BY <3>1, <3>2, <3>3
  <2> HIDE DEF now
  <2> QED BY <2>3, <2>4, <2>7, <2>8 DEF OwnedBy
<1> HIDE DEF now, owners
<1>11. Linked(g)
  BY <1>8, <1>9, <1>10 DEF Linked
<1> QED BY <1>3, <1>7, <1>11 DEF g, e

\* The page stands for the linked one at `at', and points past the one that follows it.
Skips(f, linked, at, page) ==
  /\ WellFormed(f) /\ LinkedBy(f, linked) /\ at \in linked /\ f.pages[at].next # 0
  /\ page \in DataPage /\ page.next = f.pages[f.pages[at].next].next
  /\ at > Leaves => page.recs # <<>>

\* A page of a chain that is made to point past its next page: that one is in no
\* chain any more.
LEMMA KeptBySkip ==
  ASSUME NEW f, NEW linked, NEW at, NEW page, Skips(f, linked, at, page)
  PROVE  /\ WellFormed(Write(f, at, page))
         /\ Len(Write(f, at, page).pages) = Len(f.pages)
         /\ \A i \in 1..Len(f.pages) :
              Write(f, at, page).pages[i] = IF i = at THEN page ELSE f.pages[i]
         /\ LinkedBy(Write(f, at, page), linked \ {f.pages[at].next})
<1> DEFINE g == Write(f, at, page)
           next == f.pages[at].next
           now == linked \ {next}
<1> HIDE DEF DataPage
<1>0. /\ WellFormed(f) /\ LinkedBy(f, linked) /\ at \in linked /\ f.pages[at].next # 0
      /\ page \in DataPage /\ page.next = f.pages[f.pages[at].next].next
      /\ at > Leaves => page.recs # <<>>
  BY DEF Skips
<1>1. at \in 1..Len(f.pages)
  BY <1>0 DEF LinkedBy
<1>2. /\ g \in Files /\ Len(g.pages) = Len(f.pages) /\ Len(f.pages) \in Nat
      /\ \A i \in 1..Len(f.pages) : g.pages[i] = IF i = at THEN page ELSE f.pages[i]
  BY <1>0, <1>1, WriteFacts DEF WellFormed
<1> HIDE DEF g
<1>3. /\ next \in linked /\ next \notin 1..Leaves /\ next \in 1..Len(f.pages)
      /\ page.next \in 0..Len(f.pages)
  BY <1>0, <1>1 DEF LinkedBy, WellFormed
<1>4. WellFormed(g)
  BY <1>0, <1>1, <1>2, <1>3 DEF WellFormed
<1>5. LinkedBy(g, now)
  <2>1. 1..Leaves \subseteq now /\ now \subseteq 1..Len(g.pages)
    BY <1>0, <1>2, <1>3 DEF LinkedBy
  <2>2. \A p, q \in linked : f.pages[p].next # 0 /\ f.pages[p].next = f.pages[q].next => p = q
    BY <1>0 DEF LinkedBy
  <2>3. \A p \in now : g.pages[p].next = IF p = at THEN f.pages[next].next ELSE f.pages[p].next
    BY <1>0, <1>2, <2>1
  <2>4. ASSUME NEW p \in now, g.pages[p].next # 0
        PROVE  g.pages[p].next \in now \ 1..Leaves
    <3>1. g.pages[p].next \in linked \ 1..Leaves
      BY <1>0, <1>3, <2>3, <2>4 DEF LinkedBy
    <3>2. g.pages[p].next # next
      BY <1>0, <1>3, <2>2, <2>3, <2>4
    <3> QED BY <3>1, <3>2
  <2>5. ASSUME NEW p \in now, NEW q \in now,
               g.pages[p].next # 0, g.pages[p].next = g.pages[q].next
        PROVE  p = q
    BY <1>0, <1>3, <2>2, <2>3, <2>5
  <2> QED BY <2>1, <2>4, <2>5 DEF LinkedBy
<1> QED BY <1>2, <1>4, <1>5 DEF g

\* The page has only records that belong behind the leaf of the chain.
LEMMA OwnedBySkip ==
  ASSUME NEW f, NEW linked, NEW at, NEW page, Skips(f, linked, at, page),
         NEW owner, OwnedBy(f, linked, owner), page.recs \in Seq(Behind(f.sep, owner[at]))
  PROVE  OwnedBy(Write(f, at, page), linked \ {f.pages[at].next}, owner)
<1> DEFINE g == Write(f, at, page)
           next == f.pages[at].next
<1> HIDE DEF DataPage
<1>1. /\ f \in Files /\ LinkedBy(f, linked) /\ at \in linked /\ next # 0
      /\ page \in DataPage /\ page.next = f.pages[next].next
  BY DEF Skips, WellFormed
<1>2. linked \subseteq 1..Len(f.pages) /\ next \in linked
  BY <1>1 DEF LinkedBy
<1>3. at \in 1..Len(f.pages)
  BY <1>1, <1>2
<1>4. \A i \in 1..Len(f.pages) : g.pages[i] = IF i = at THEN page ELSE f.pages[i]
  BY ONLY <1>1, <1>3, WriteFacts
<1>5. g.sep = f.sep
  BY <1>1, SepKept
<1> HIDE DEF g, next
<1>6. \A p \in linked : f.pages[p].next # 0 => owner[f.pages[p].next] = owner[p]
  BY DEF OwnedBy
<1>7. owner[next] = owner[at] /\ (page.next # 0 => owner[page.next] = owner[next])
  BY <1>1, <1>2, <1>6 DEF next
<1>8. \A p \in linked : g.pages[p] = IF p = at THEN page ELSE f.pages[p]
  BY <1>2, <1>4
<1>9. \A p \in linked : g.pages[p].next # 0 => owner[g.pages[p].next] = owner[p]
  BY <1>6, <1>7, <1>8
<1>10. \A p \in linked : g.pages[p].recs \in Seq(Behind(g.sep, owner[p]))
  BY <1>5, <1>8 DEF OwnedBy
<1>11. OwnedBy(g, linked \ {next}, owner)
  BY <1>9, <1>10 DEF OwnedBy
<1> QED BY <1>11 DEF g, next
-----------------------------------------------------------------------------
(* The pages that are written.                                              *)

LEMMA PageMade ==
  ASSUME NEW recs \in Seq(Record), NEW spare \in Seq(Stale), NEW next \in Nat,
         Len(recs) + Len(spare) = N
  PROVE  [recs |-> recs, spare |-> spare, next |-> next] \in DataPage
BY DEF DataPage

LEMMA PageHolding ==
  ASSUME NEW page \in DataPage, NEW recs \in Seq(Record), NEW spare \in Seq(Stale),
         Len(recs) + Len(spare) = N
  PROVE  LET new == Holding(page, recs, spare)
         IN  /\ new \in DataPage /\ new.next = page.next
             /\ new.recs = recs /\ new.spare = spare
<1>1. page.next \in Nat
  BY PageFields
<1> QED BY <1>1, PageMade DEF Holding

LEMMA SlotsMade ==
  ASSUME NEW n \in Nat, NEW key \in Stale
  PROVE  Slots(n, key) \in Seq(Stale) /\ Len(Slots(n, key)) = n
BY DEF Slots

LEMMA RecordMade ==
  ASSUME NEW key \in Key, NEW raw \in Position
  PROVE  [key |-> key, raws |-> {raw}] \in Record
BY DEF Record

\* An insertion makes a sequence of records, or of some of them, one longer.
LEMMA InsertAtFacts ==
  ASSUME NEW Some, NEW recs \in Seq(Some), NEW place \in 1..Len(recs) + 1, NEW rec \in Some
  PROVE  /\ InsertAt(recs, place, rec) \in Seq(Some)
         /\ Len(InsertAt(recs, place, rec)) = Len(recs) + 1
<1> DEFINE front == SubSeq(recs, 1, place - 1)
           back == SubSeq(recs, place, Len(recs))
<1>1. Len(recs) \in Nat /\ place \in Int /\ place - 1 \in Int /\ place - 1 <= Len(recs)
  BY LenProperties
<1>2. \A i \in 1..Len(recs) : recs[i] \in Some
  BY ElementOfSeq
<1>3. front \in Seq(Some) /\ Len(front) = place - 1
  <2>1. \A i \in 1..place - 1 : i \in 1..Len(recs)
    BY <1>1
  <2> QED BY <1>1, <1>2, <2>1, SubSeqProperties
<1>4. back \in Seq(Some) /\ Len(back) = Len(recs) - place + 1
  <2>1. \A i \in place..Len(recs) : i \in 1..Len(recs)
    BY <1>1
  <2> QED BY <1>1, <1>2, <2>1, SubSeqProperties
<1> HIDE DEF front, back
<1>5. <<rec>> \in Seq(Some) /\ Len(<<rec>>) = 1
  OBVIOUS
<1> DEFINE upTo == front \o <<rec>>
<1>6. upTo \in Seq(Some) /\ Len(upTo) = place
  BY <1>1, <1>3, <1>5, ConcatProperties
<1> HIDE DEF upTo
<1>7. upTo \o back \in Seq(Some) /\ Len(upTo \o back) = Len(upTo) + Len(back)
  BY <1>4, <1>6, ConcatProperties
<1>8. InsertAt(recs, place, rec) = upTo \o back
  BY DEF InsertAt, upTo, front, back
<1> QED BY <1>1, <1>4, <1>6, <1>7, <1>8

\* Wherever insertRecord puts a record of a page that is not full, the page is one
\* with this record more.
LEMMA RecordInserted ==
  ASSUME NEW page \in DataPage, ~ IsFull(page), NEW rec \in Record, NEW above
  PROVE  LET new == InsertRecord(page, rec, above)
         IN  /\ new \in DataPage /\ new.next = page.next /\ new.recs # <<>>
             /\ \A Some : page.recs \in Seq(Some) /\ rec \in Some => new.recs \in Seq(Some)
             /\ \E place \in 1..Len(page.recs) + 1 : new.recs = InsertAt(page.recs, place, rec)
<1> DEFINE count == Len(page.recs)
           stale == Head(page.spare)
           last == IsEmpty(page) \/ ~ (IF stale = Unset THEN above ELSE rec.key < stale)
           hs == {h \in 1..count : h = 1 \/ rec.key >= page.recs[h].key}
           place == IF last THEN count + 1 ELSE Max(hs)
<1> HIDE DEF Record, Stale, hs, place
<1>0. N \in Nat
  BY IsamIndexAssumption
<1>1. /\ page.recs \in Seq(Record) /\ page.spare \in Seq(Stale) /\ page.next \in Nat
      /\ count \in Nat /\ Len(page.spare) \in Nat /\ count + Len(page.spare) = N
  BY PageFields
<1>2. page.spare # <<>>
  <2> DEFINE room == Len(page.spare)
  <2>1. count # N /\ count \in Nat /\ room \in Nat /\ count + room = N
    BY <1>1 DEF IsFull
  <2> HIDE DEF count, room
  <2>2. room # 0
    BY <1>0, <2>1
  <2> QED BY <2>2, EmptySeq DEF room
<1>3. /\ Tail(page.spare) \in Seq(Stale) /\ Len(Tail(page.spare)) = Len(page.spare) - 1
  BY <1>1, <1>2, HeadTailProperties
<1> HIDE DEF last, stale
<1>4. place \in 1..count + 1
  <2>1. CASE last
    BY <1>1, <2>1 DEF place
  <2>2. CASE ~ last
    <3>1. page.recs # <<>>
      BY <2>2 DEF last, IsEmpty
    <3>2. 1 \in 1..count
      BY <1>1, <3>1, EmptySeq
    <3>3. hs \subseteq 0..count /\ 1 \in hs /\ hs \subseteq 1..count
      BY <1>1, <3>2 DEF hs
    <3>4. Max(hs) \in 1..count
      BY <1>1, <3>3, MaxIsGreatest
    <3>5. place = Max(hs)
      BY <2>2 DEF place
    <3> QED BY <1>1, <3>4, <3>5
  <2> QED BY <2>1, <2>2
<1> HIDE DEF place
<1> DEFINE recs == InsertAt(page.recs, place, rec)
<1>5. recs \in Seq(Record) /\ Len(recs) = count + 1
  BY <1>1, <1>4, InsertAtFacts
<1>5a. \A Some : page.recs \in Seq(Some) /\ rec \in Some => recs \in Seq(Some)
  BY <1>4, InsertAtFacts
<1> DEFINE spare == Tail(page.spare)
<1>6. InsertRecord(page, rec, above) = Holding(page, recs, spare)
  BY DEF InsertRecord, place, hs, last, stale
<1> HIDE DEF recs
<1>7. spare \in Seq(Stale) /\ Len(recs) + Len(spare) = N
  <2> DEFINE room == Len(page.spare)
  <2>1. /\ Len(recs) = count + 1 /\ Len(spare) = room - 1
        /\ count \in Nat /\ room \in Nat /\ count + room = N
    BY <1>1, <1>3, <1>5
  <2> HIDE DEF count, room, spare
  <2>2. Len(recs) + Len(spare) = N
    BY <1>0, <2>1
  <2> QED BY <1>3, <2>2 DEF spare
<1> HIDE DEF spare
<1>8. recs # <<>>
  <2>1. Len(recs) # 0
    BY <1>1, <1>5
  <2> QED BY <2>1, EmptySeq
<1> DEFINE new == Holding(page, recs, spare)
<1>9. new \in DataPage /\ new.next = page.next /\ new.recs = recs
  <2>1. /\ page \in DataPage /\ recs \in Seq(Record) /\ spare \in Seq(Stale)
        /\ Len(recs) + Len(spare) = N
    BY <1>5, <1>7
  <2> HIDE DEF new
  <2> QED BY ONLY <2>1, PageHolding DEF new
<1> HIDE DEF new
<1>10. \E p \in 1..count + 1 : new.recs = InsertAt(page.recs, p, rec)
  BY <1>4, <1>9 DEF recs
<1> QED BY <1>5a, <1>6, <1>8, <1>9, <1>10 DEF new

\* The halves of a full page: each has a record and a free slot.
LEMMA HalvesMade ==
  ASSUME NEW page \in DataPage, IsFull(page), NEW next \in Nat
  PROVE  LET half == N \div 2
             lower == [recs |-> SubSeq(page.recs, 1, half), spare |-> Slots(N - half, -1),
                       next |-> next]
             upper == Holding(page, SubSeq(page.recs, half + 1, N), Slots(half, Unset))
         IN  /\ lower \in DataPage /\ ~ IsFull(lower) /\ lower.recs # <<>>
             /\ upper \in DataPage /\ ~ IsFull(upper) /\ upper.recs # <<>>
             /\ \A Some : page.recs \in Seq(Some) =>
                  lower.recs \in Seq(Some) /\ upper.recs \in Seq(Some)
<1> DEFINE half == N \div 2
           low == SubSeq(page.recs, 1, half)
           high == SubSeq(page.recs, half + 1, N)
<1>1. N \in Nat /\ half \in Nat /\ half >= 1 /\ half <= N - 1 /\ N - half \in Nat
  BY IsamIndexAssumption
<1> HIDE DEF half
<1>2. -1 \in Stale /\ Unset \in Stale
  BY DEF Stale
<1> HIDE DEF Record, Stale
<1>3. page.recs \in Seq(Record) /\ Len(page.recs) = N /\ page.next \in Nat
  BY PageFields DEF IsFull
<1>4. \A i \in 1..N : page.recs[i] \in Record
  BY <1>3, ElementOfSeq
<1>5. low \in Seq(Record) /\ Len(low) = half
  <2>1. \A i \in 1..half : i \in 1..N
    BY <1>1
  <2> QED BY <1>1, <1>4, <2>1, SubSeqProperties
<1>6. high \in Seq(Record) /\ Len(high) = N - half
  <2>1. /\ \A i \in half + 1..N : i \in 1..N
        /\ half + 1 \in Int /\ half + 1 <= N /\ N - (half + 1) + 1 = N - half
    BY <1>1
  <2> QED BY <1>1, <1>4, <2>1, SubSeqProperties
<1>6a. \A Some : page.recs \in Seq(Some) => low \in Seq(Some) /\ high \in Seq(Some)
  <2> SUFFICES ASSUME NEW Some, page.recs \in Seq(Some)
               PROVE  low \in Seq(Some) /\ high \in Seq(Some)
    OBVIOUS
  <2>1. \A i \in 1..N : page.recs[i] \in Some
    BY <1>3, ElementOfSeq
  <2>2. low \in Seq(Some)
    <3>1. \A i \in 1..half : page.recs[i] \in Some
      BY <1>1, <2>1
    <3> QED BY <1>1, <3>1, SubSeqProperties
  <2>3. high \in Seq(Some)
    <3>1. \A i \in half + 1..N : page.recs[i] \in Some
      BY <1>1, <2>1
    <3> QED BY <1>1, <3>1, SubSeqProperties
  <2> QED BY <2>2, <2>3
<1>7. /\ Slots(N - half, -1) \in Seq(Stale) /\ Len(Slots(N - half, -1)) = N - half
      /\ Slots(half, Unset) \in Seq(Stale) /\ Len(Slots(half, Unset)) = half
  BY <1>1, <1>2, SlotsMade
<1> HIDE DEF low, high
<1> DEFINE lower == [recs |-> low, spare |-> Slots(N - half, -1), next |-> next]
           upper == [recs |-> high, spare |-> Slots(half, Unset), next |-> page.next]
<1>8. lower \in DataPage /\ upper \in DataPage
  <2>1. /\ Len(low) + Len(Slots(N - half, -1)) = N
        /\ Len(high) + Len(Slots(half, Unset)) = N
    BY <1>1, <1>5, <1>6, <1>7
  <2> QED BY <1>3, <1>5, <1>6, <1>7, <2>1, PageMade
<1>9. low # <<>> /\ high # <<>> /\ Len(low) # N /\ Len(high) # N
  BY <1>1, <1>5, <1>6
<1>10. lower.recs = low /\ upper.recs = high
  OBVIOUS
<1>11. Holding(page, high, Slots(half, Unset)) = upper
  BY DEF Holding
<1> HIDE DEF lower, upper
<1> QED BY <1>6a, <1>8, <1>9, <1>10, <1>11 DEF IsFull, low, high, half, lower

\* The pointer of a page can be changed by itself.
LEMMA PagePointing ==
  ASSUME NEW page \in DataPage, NEW next \in Nat
  PROVE  LET new == [page EXCEPT !.next = next]
         IN  new \in DataPage /\ new.next = next /\ new.recs = page.recs
<1>1. [page EXCEPT !.next = next] = [recs |-> page.recs, spare |-> page.spare, next |-> next]
  BY DEF DataPage
<1>2. /\ page.recs \in Seq(Record) /\ page.spare \in Seq(Stale)
      /\ Len(page.recs) + Len(page.spare) = N
  BY PageFields
<1> QED BY <1>1, <1>2, PageMade

\* The records that are left of a page are collected one after the other.
LEMMA WithoutSteps ==
  ASSUME NEW recs, Len(recs) \in Nat, NEW slots
  PROVE  \E left :
           /\ Without(recs, slots) = left[Len(recs)]
           /\ \A i \in 0..Len(recs) :
                left[i] = IF i = 0 THEN <<>>
                          ELSE IF i \in slots THEN left[i - 1] ELSE Append(left[i - 1], recs[i])
<1> DEFINE size == Len(recs)
           Solves(w, n) == w = [i \in 0..n |->
             IF i = 0 THEN <<>> ELSE IF i \in slots THEN w[i - 1] ELSE Append(w[i - 1], recs[i])]
           left == CHOOSE w : Solves(w, size)
           After(seq, i) == IF i \in slots THEN seq ELSE Append(seq, recs[i])
<1>1. size \in Nat
  OBVIOUS
<1>2. Without(recs, slots) = left[size]
  BY DEF Without
<1> HIDE DEF size
<1>3. \E w : Solves(w, size)
  <2> DEFINE S == {n \in Nat : \E w : Solves(w, n)}
  <2>1. 0 \in S
    <3>1. Solves([i \in 0..0 |-> <<>>], 0)
      OBVIOUS
    <3> QED BY <3>1
  <2>2. ASSUME NEW n \in Nat, n \in S
        PROVE  n + 1 \in S
    <3>1. PICK w : Solves(w, n)
      BY <2>2
    <3> DEFINE v == [i \in 0..n + 1 |-> IF i = n + 1 THEN After(w[n], n + 1) ELSE w[i]]
    <3> HIDE DEF After
    <3>2. \A i \in 0..n + 1 : v[i] = IF i = 0 THEN <<>> ELSE After(v[i - 1], i)
      <4> TAKE i \in 0..n + 1
      <4>1. CASE i = n + 1
        <5>1. i - 1 = n /\ n \in 0..n + 1 /\ n # n + 1 /\ i # 0
          BY <4>1
        <5>2. v[i] = After(w[n], i) /\ v[n] = w[n]
          BY <4>1, <5>1
        <5> HIDE DEF v
        <5> QED BY <5>1, <5>2
      <4>2. CASE i \in 0..n
        <5>1. v[i] = w[i] /\ (i # 0 => v[i - 1] = w[i - 1])
          BY <4>2
        <5>2. w[i] = IF i = 0 THEN <<>> ELSE After(w[i - 1], i)
          BY <3>1, <4>2 DEF After
        <5> HIDE DEF v
        <5> QED BY <5>1, <5>2
      <4> QED BY <4>1, <4>2
    <3>3. Solves(v, n + 1)
      BY <3>2 DEF After
    <3> HIDE DEF v
    <3> QED BY <3>3
  <2> HIDE DEF S
  <2>3. size \in S
    BY <1>1, <2>1, <2>2, SetInduction
  <2> QED BY <2>3 DEF S
<1>4. Solves(left, size)
  <2> HIDE DEF Solves
  <2> QED BY <1>3
<1> HIDE DEF left
<1>5. \A i \in 0..size : left[i] = IF i = 0 THEN <<>> ELSE After(left[i - 1], i)
  BY <1>4
<1> HIDE DEF Solves
<1> QED BY <1>2, <1>5 DEF size

\* What is left of the records of a page are as many as were not taken out.
LEMMA WithoutFacts ==
  ASSUME NEW Some, NEW recs \in Seq(Some), NEW slots \in SUBSET (1..Len(recs))
  PROVE  /\ Without(recs, slots) \in Seq(Some) /\ Cardinality(slots) \in Nat
         /\ Len(Without(recs, slots)) + Cardinality(slots) = Len(recs)
<1> DEFINE size == Len(recs)
           After(seq, i) == IF i \in slots THEN seq ELSE Append(seq, recs[i])
<1>1. size \in Nat /\ \A i \in 1..size : recs[i] \in Some
  BY LenProperties, ElementOfSeq
<1>2. PICK left :
        /\ Without(recs, slots) = left[size]
        /\ \A i \in 0..size : left[i] = IF i = 0 THEN <<>> ELSE After(left[i - 1], i)
  BY <1>1, WithoutSteps
<1> HIDE DEF size
<1> DEFINE Out(n) == slots \intersect 1..n
           S == {n \in Nat : n <= size =>
                   /\ left[n] \in Seq(Some) /\ IsFiniteSet(Out(n))
                   /\ Len(left[n]) + Cardinality(Out(n)) = n}
<1>out. /\ Out(0) = {} /\ Out(size) = slots
        /\ \A n \in Nat : n + 1 \in slots => Out(n + 1) = Out(n) \union {n + 1}
        /\ \A n \in Nat : n + 1 \notin slots => Out(n + 1) = Out(n)
        /\ \A n \in Nat : n + 1 \notin Out(n)
  <2>1. Out(0) = {} /\ Out(size) = slots
    <3>1. 1..0 = {} /\ slots \subseteq 1..size
      BY DEF size
    <3> QED BY <3>1
  <2>2. ASSUME NEW n \in Nat
        PROVE  /\ n + 1 \in slots => Out(n + 1) = Out(n) \union {n + 1}
               /\ n + 1 \notin slots => Out(n + 1) = Out(n)
               /\ n + 1 \notin Out(n)
    <3>1. 1..n + 1 = (1..n) \union {n + 1} /\ n + 1 \notin 1..n
      OBVIOUS
    <3> QED BY <3>1
  <2> HIDE DEF Out
  <2> QED BY <2>1, <2>2
<1> HIDE DEF Out
<1>6. 0 \in S
  <2>1. left[0] = <<>> /\ <<>> \in Seq(Some) /\ Len(<<>>) = 0
    BY <1>1, <1>2
  <2>2. IsFiniteSet(Out(0)) /\ Cardinality(Out(0)) = 0
    BY <1>out, FS_EmptySet
  <2>3. Len(left[0]) = 0
    BY <2>1
  <2>4. Len(left[0]) + Cardinality(Out(0)) = 0
    BY <2>2, <2>3
  <2> QED BY <1>1, <2>1, <2>2, <2>4
<1>7. ASSUME NEW n \in Nat, n \in S
      PROVE  n + 1 \in S
  <2> SUFFICES ASSUME n + 1 <= size
               PROVE  /\ left[n + 1] \in Seq(Some) /\ IsFiniteSet(Out(n + 1))
                      /\ Len(left[n + 1]) + Cardinality(Out(n + 1)) = n + 1
    BY DEF S
  <2>1. /\ left[n] \in Seq(Some) /\ IsFiniteSet(Out(n))
        /\ Len(left[n]) + Cardinality(Out(n)) = n /\ n + 1 \in 1..size
    BY <1>1, <1>7
  <2>2. left[n + 1] = After(left[n], n + 1)
    <3>1. n + 1 \in 0..size /\ n + 1 # 0 /\ (n + 1) - 1 = n
      BY <1>1, <2>1
    <3> HIDE DEF After
    <3> QED BY <1>2, <3>1
  <2>3. Len(left[n]) \in Nat /\ Cardinality(Out(n)) \in Nat
    BY <2>1, LenProperties, FS_CardinalityType
  <2>4. CASE n + 1 \in slots
    <3>1. Out(n + 1) = Out(n) \union {n + 1} /\ n + 1 \notin Out(n)
      BY <1>out, <2>4
    <3>2. IsFiniteSet(Out(n + 1)) /\ Cardinality(Out(n + 1)) = Cardinality(Out(n)) + 1
      BY <2>1, <3>1, FS_AddElement
    <3>3. left[n + 1] = left[n]
      BY <2>2, <2>4
    <3> DEFINE a == Len(left[n])
               b == Cardinality(Out(n))
    <3>4. /\ Len(left[n + 1]) = a /\ Cardinality(Out(n + 1)) = b + 1
          /\ a \in Nat /\ b \in Nat /\ a + b = n
      BY <2>1, <2>3, <3>2, <3>3
    <3> HIDE DEF a, b
    <3>5. Len(left[n + 1]) + Cardinality(Out(n + 1)) = n + 1
      BY <3>4
    <3> QED BY <2>1, <3>2, <3>3, <3>5
  <2>5. CASE n + 1 \notin slots
    <3>1. Out(n + 1) = Out(n)
      BY <1>out, <2>5
    <3>2. left[n + 1] = Append(left[n], recs[n + 1])
      BY <2>2, <2>5
    <3>3. left[n + 1] \in Seq(Some) /\ Len(left[n + 1]) = Len(left[n]) + 1
      BY <1>1, <2>1, <3>2, AppendProperties
    <3> DEFINE a == Len(left[n])
               b == Cardinality(Out(n))
    <3>4. /\ Len(left[n + 1]) = a + 1 /\ Cardinality(Out(n + 1)) = b
          /\ a \in Nat /\ b \in Nat /\ a + b = n
      BY <2>1, <2>3, <3>1, <3>3
    <3> HIDE DEF a, b
    <3>5. Len(left[n + 1]) + Cardinality(Out(n + 1)) = n + 1
      BY <3>4
    <3> QED BY <2>1, <3>1, <3>3, <3>5
  <2> QED BY <2>4, <2>5
<1>8. size \in S
  <2> HIDE DEF S
  <2> QED BY <1>1, <1>6, <1>7, SetInduction
<1>9. /\ left[size] \in Seq(Some) /\ IsFiniteSet(slots)
       /\ Len(left[size]) + Cardinality(slots) = size
  BY <1>1, <1>8, <1>out
<1> QED BY <1>2, <1>9, FS_CardinalityType DEF size

-----------------------------------------------------------------------------
(* The operations keep files well formed, and what is linked linked.        *)

Kept(f) == WellFormed(f) /\ LeavesOrdered(f) /\ Linked(f)

\* Only the last of two writes at a place counts.
LEMMA WriteTwice ==
  ASSUME NEW f \in Files, NEW at \in 1..Len(f.pages), NEW p \in DataPage, NEW q \in DataPage
  PROVE  Write(Write(f, at, p), at, q) = Write(f, at, q)
<1> DEFINE g == Write(f, at, p)
           h == Write(g, at, q)
           k == Write(f, at, q)
<1> HIDE DEF DataPage
<1>1. /\ g \in Files /\ Len(g.pages) = Len(f.pages)
      /\ \A i \in 1..Len(f.pages) : g.pages[i] = IF i = at THEN p ELSE f.pages[i]
  BY WriteFacts
<1>2. g.sep = f.sep /\ h.sep = g.sep /\ k.sep = f.sep
  <2>1. \A x \in Files : \A y : Write(x, at, y).sep = x.sep
    BY DEF Write, Files
  <2> HIDE DEF g
  <2> QED BY <1>1, <2>1 DEF g
<1> HIDE DEF g
<1>3. /\ h \in Files /\ Len(h.pages) = Len(f.pages)
      /\ \A i \in 1..Len(f.pages) : h.pages[i] = IF i = at THEN q ELSE f.pages[i]
  <2>1. /\ h \in Files /\ Len(h.pages) = Len(g.pages)
        /\ \A i \in 1..Len(g.pages) : h.pages[i] = IF i = at THEN q ELSE g.pages[i]
    BY <1>1, WriteFacts
  <2> QED BY <1>1, <2>1
<1>4. /\ k \in Files /\ Len(k.pages) = Len(f.pages)
      /\ \A i \in 1..Len(f.pages) : k.pages[i] = IF i = at THEN q ELSE f.pages[i]
  BY WriteFacts
<1> HIDE DEF h, k
<1>5. h.pages = k.pages
  <2>1. h.pages \in Seq(DataPage) /\ k.pages \in Seq(DataPage)
    BY <1>3, <1>4 DEF Files
  <2> QED BY <1>3, <1>4, <2>1, SeqEqual
<1>6. h = k
  BY <1>2, <1>3, <1>4, <1>5 DEF Files
<1> QED BY <1>6 DEF g, h, k

\* The chain an operation goes along, and the page where it stops.
LEMMA ChainOfKey ==
  ASSUME NEW f, WellFormed(f), NEW linked, LinkedBy(f, linked), NEW key
  PROVE  LET chain == Chain(f, LeafOf(f, key))
             stop == StopAt(f, chain, key)
         IN  /\ chain \in Seq(1..Len(f.pages)) /\ Len(chain) \in Nat \ {0}
             /\ Head(chain) = chain[1] /\ Last(chain) = chain[Len(chain)]
             /\ chain[1] \in 1..Leaves
             /\ \A i \in 1..Len(chain) :
                  /\ chain[i] \in linked /\ chain[i] \in 1..Len(f.pages)
                  /\ i > 1 => chain[i] \notin 1..Leaves
             /\ \A i \in 1..Len(chain) - 1 : f.pages[chain[i]].next = chain[i + 1]
             /\ stop \in 0..Len(chain)
<1> DEFINE leaf == LeafOf(f, key)
           chain == Chain(f, leaf)
           stops == {i \in DOMAIN chain :
                       LET recs == f.pages[chain[i]].recs
                       IN  recs = <<>> \/ key <= Last(recs).key}
<1>1. Pointing(f)
  BY LenProperties DEF WellFormed, Pointing, Files
<1>2. leaf \in 1..Leaves
  BY LeafFound DEF LeafOf
<1> HIDE DEF leaf
<1>3. leaf \in 1..Len(f.pages) /\ \A i \in 1..Len(chain) :
        chain[i] \in linked /\ (i > 1 => chain[i] \notin 1..Leaves)
  BY <1>1, <1>2, ChainLinked
<1>4. /\ chain \in Seq(1..Len(f.pages)) /\ Len(chain) \in Nat \ {0} /\ chain[1] = leaf
      /\ \A i \in 1..Len(chain) - 1 : f.pages[chain[i]].next = chain[i + 1]
  BY <1>1, <1>3, ChainFollows
<1>5. StopAt(f, chain, key) = IF stops = {} THEN 0 ELSE Min(stops)
  BY DEF StopAt
<1> HIDE DEF chain
<1>6. DOMAIN chain = 1..Len(chain) /\ \A i \in 1..Len(chain) : chain[i] \in 1..Len(f.pages)
  BY <1>4, LenProperties, ElementOfSeq
<1>7. Head(chain) = chain[1] /\ Last(chain) = chain[Len(chain)]
  BY <1>4 DEF Last
<1>8. StopAt(f, chain, key) \in 0..Len(chain)
  <2>1. stops \subseteq 1..Len(chain) /\ stops \subseteq Nat
    BY <1>4, <1>6
  <2> HIDE DEF stops
  <2>2. CASE stops = {}
    BY <1>4, <1>5, <2>2
  <2>3. CASE stops # {}
    <3>1. Min(stops) \in 1..Len(chain)
      BY <2>1, <2>3, MinIsLeast
    <3> QED BY <1>4, <1>5, <2>3, <3>1
  <2> QED BY <2>2, <2>3
<1> QED BY <1>2, <1>3, <1>4, <1>6, <1>7, <1>8 DEF chain, leaf

\* A merge with the next page takes it out of the chain, or leaves both in it.
LEMMA MergeKeeps ==
  ASSUME NEW f, WellFormed(f), LeavesOrdered(f), NEW linked, LinkedBy(f, linked),
         NEW owner, OwnedBy(f, linked, owner), NEW at \in linked,
         f.pages[at].recs # <<>>, Len(f.pages[at].recs) <= N \div 2
  PROVE  Kept(Merge(f, at)) /\ Len(Merge(f, at).pages) = Len(f.pages)
<1> DEFINE page == f.pages[at]
           to == page.next
           next == f.pages[to]
           both == [recs |-> page.recs \o next.recs, next |-> next.next,
                    spare |-> SubSeq(page.spare, Len(next.recs) + 1, Len(page.spare))]
           more == Holding(page, Append(page.recs, Head(next.recs)), Tail(page.spare))
           less == Holding(next, Tail(next.recs), <<0>> \o next.spare)
           fits == Len(page.recs) + Len(next.recs) <= N
           Own == Behind(f.sep, owner[at])
<1>1. Merge(f, at) = IF to = 0 THEN f
                     ELSE IF fits THEN Write(f, at, both) ELSE Write(Write(f, at, more), to, less)
  BY DEF Merge
<1> HIDE DEF Record, Stale, DataPage
<1>2. linked \in SUBSET (1..Len(f.pages)) /\ at \in 1..Len(f.pages)
  BY DEF LinkedBy
<1>3. /\ page \in DataPage /\ Len(f.pages) \in Nat /\ f \in Files
      /\ to \in 0..Len(f.pages)
  <2>1. f.pages \in Seq(DataPage) /\ f \in Files
    BY DEF WellFormed, Files
  <2> QED BY <1>2, <2>1, ElementOfSeq, LenProperties DEF WellFormed
<1>4. CASE to = 0
  <2>1. Linked(f)
    BY <1>2 DEF Linked
  <2> QED BY <1>1, <1>4, <2>1 DEF Kept
<1> HIDE DEF Own
<1>5. CASE to # 0
  <2>1. to \in 1..Len(f.pages) /\ to \in linked /\ to \notin 1..Leaves
    BY <1>3, <1>5 DEF LinkedBy
  <2>2. next \in DataPage
    <3>1. f.pages \in Seq(DataPage)
      BY <1>3 DEF Files
    <3> HIDE DEF to
    <3> QED BY <2>1, <3>1, ElementOfSeq
  <2>3. next.recs # <<>> /\ next.next \in Nat /\ next.next \in 0..Len(f.pages)
    <3>1. Leaves \in Nat
      BY LeavesPositive
    <3>2. to > Leaves
      BY <1>3, <2>1, <3>1
    <3> HIDE DEF to
    <3> QED BY <2>1, <2>2, <3>2, PageFields DEF WellFormed
  <2>own. page.recs \in Seq(Own) /\ next.recs \in Seq(Own)
    <3>1. owner[to] = owner[at]
      BY <1>5 DEF OwnedBy
    <3>2. \A p \in linked : f.pages[p].recs \in Seq(Behind(f.sep, owner[p]))
      BY DEF OwnedBy
    <3> HIDE DEF to
    <3> QED BY <2>1, <3>1, <3>2 DEF Own
  <2>4. /\ page.recs \in Seq(Record) /\ page.spare \in Seq(Stale) /\ page.recs # <<>>
        /\ next.recs \in Seq(Record) /\ next.spare \in Seq(Stale)
        /\ Len(page.recs) \in Nat /\ Len(page.spare) \in Nat
        /\ Len(page.recs) + Len(page.spare) = N
        /\ Len(next.recs) \in Nat /\ Len(next.spare) \in Nat
        /\ Len(next.recs) + Len(next.spare) = N
    BY <1>3, <2>2, PageFields
  <2> DEFINE used == Len(page.recs)
             room == Len(page.spare)
             coming == Len(next.recs)
             left == Len(next.spare)
  <2>5. /\ used \in Nat /\ room \in Nat /\ coming \in Nat /\ left \in Nat
        /\ used + room = N /\ coming + left = N /\ used <= N \div 2
        /\ N \in Nat /\ N >= 2 /\ used # 0 /\ coming # 0
    <3>1. used \in Nat /\ room \in Nat /\ coming \in Nat /\ left \in Nat
      BY <2>4
    <3>2. used + room = N /\ coming + left = N
      BY <2>4
    <3>3. used <= N \div 2
      OBVIOUS
    <3>4. used # 0 /\ coming # 0
      BY <2>3, <2>4, EmptySeq
    <3>5. N \in Nat /\ N >= 2
      BY IsamIndexAssumption
    <3> HIDE DEF used, room, coming, left
    <3> QED BY <3>1, <3>2, <3>3, <3>4, <3>5
  <2>fit. fits <=> used + coming <= N
    OBVIOUS
  <2> HIDE DEF used, room, coming, left, fits
  <2>6. CASE fits
    <3> DEFINE recs == page.recs \o next.recs
               spare == SubSeq(page.spare, Len(next.recs) + 1, Len(page.spare))
    <3>1. recs \in Seq(Record) /\ Len(recs) = used + coming
      BY <2>4, ConcatProperties DEF used, coming
    <3>own. recs \in Seq(Own)
      BY <2>own, ConcatProperties
    <3>2. used + coming <= N
      BY <2>6, <2>fit
    <3>3. spare \in Seq(Stale) /\ Len(spare) = IF coming + 1 <= room THEN room - (coming + 1) + 1 ELSE 0
      <4>1. \A i \in coming + 1..room : page.spare[i] \in Stale
        <5>1. \A i \in coming + 1..room : i \in 1..room
          BY <2>5
        <5> QED BY <2>4, <5>1, ElementOfSeq DEF room
      <4>2. coming + 1 \in Int /\ room \in Int
        BY <2>5
      <4>3. spare = SubSeq(page.spare, coming + 1, room)
        BY DEF coming, room
      <4> HIDE DEF spare
      <4> QED BY <4>1, <4>2, <4>3, SubSeqProperties
    <3> HIDE DEF recs, spare
    <3>4. Len(recs) + Len(spare) = N /\ Len(recs) # 0
      <4>1. /\ Len(recs) = used + coming
            /\ Len(spare) = IF coming + 1 <= room THEN room - (coming + 1) + 1 ELSE 0
        BY <3>1, <3>3
      <4>2. /\ used \in Nat /\ room \in Nat /\ coming \in Nat /\ N \in Nat
            /\ used + room = N /\ used # 0
        BY <2>5
      <4>3. CASE coming + 1 <= room
        <5>1. Len(recs) = used + coming /\ Len(spare) = room - (coming + 1) + 1
          BY ONLY <4>1, <4>3
        <5> QED BY ONLY <4>2, <5>1
      <4>4. CASE ~ (coming + 1 <= room)
        <5>1. Len(recs) = used + coming /\ Len(spare) = 0
          BY ONLY <4>1, <4>4
        <5> QED BY ONLY <3>2, <4>2, <4>4, <5>1
      <4> QED BY ONLY <4>3, <4>4
    <3>5. both \in DataPage /\ both.next = next.next /\ both.recs # <<>> /\ both.recs = recs
      <4>1. both = [recs |-> recs, spare |-> spare, next |-> next.next]
        BY DEF recs, spare
      <4>2. recs # <<>>
        BY <3>1, <3>4, EmptySeq
      <4> QED BY <2>3, <3>1, <3>3, <3>4, <4>1, <4>2, PageMade
    <3> HIDE DEF both
    <3>6. /\ WellFormed(Write(f, at, both)) /\ LinkedBy(Write(f, at, both), linked \ {to})
          /\ OwnedBy(Write(f, at, both), linked \ {to}, owner)
          /\ Len(Write(f, at, both).pages) = Len(f.pages)
      <4>1. f.pages[at].next # 0 /\ both.next = f.pages[f.pages[at].next].next
        BY <1>5, <3>5
      <4>2. at > Leaves => both.recs # <<>>
        BY <3>5
      <4>3. both \in DataPage
        BY <3>5
      <4> HIDE DEF page, to, next
      <4>4. /\ WellFormed(Write(f, at, both))
            /\ LinkedBy(Write(f, at, both), linked \ {f.pages[at].next})
            /\ OwnedBy(Write(f, at, both), linked \ {f.pages[at].next}, owner)
            /\ Len(Write(f, at, both).pages) = Len(f.pages)
        <5> HIDE DEF more, less
        <5>1. Skips(f, linked, at, both)
          BY <4>1, <4>2, <4>3 DEF Skips
        <5>2. WellFormed(Write(f, at, both))
          BY ONLY <5>1, KeptBySkip
        <5>3. LinkedBy(Write(f, at, both), linked \ {f.pages[at].next})
          BY ONLY <5>1, KeptBySkip
        <5>4. Len(Write(f, at, both).pages) = Len(f.pages)
          <6>1. f \in Files /\ at \in 1..Len(f.pages) /\ both \in DataPage
            BY <5>1 DEF Skips, WellFormed, LinkedBy
          <6> QED BY ONLY <6>1, WriteFacts
        <5>5. OwnedBy(Write(f, at, both), linked \ {f.pages[at].next}, owner)
          <6>1. OwnedBy(f, linked, owner) /\ both.recs \in Seq(Behind(f.sep, owner[at]))
            BY <3>own, <3>5 DEF Own
          <6> QED BY ONLY <5>1, <6>1, OwnedBySkip
        <5> QED BY ONLY <5>2, <5>3, <5>4, <5>5
      <4> QED BY <4>4 DEF to, page
    <3>7. Kept(Write(f, at, both))
      <4>1. LeavesOrdered(Write(f, at, both))
        BY <1>3, SepKept, OrderKept
      <4>2. Linked(Write(f, at, both))
        BY <1>2, <3>6 DEF Linked
      <4> QED BY <3>6, <4>1, <4>2 DEF Kept
    <3> QED BY <1>1, <1>5, <2>6, <3>6, <3>7
  <2>7. CASE ~ fits
    <3>1. /\ Head(next.recs) \in Record /\ Tail(next.recs) \in Seq(Record)
          /\ Len(Tail(next.recs)) = coming - 1
      BY <2>3, <2>4, HeadTailProperties DEF coming
    <3>2. /\ Append(page.recs, Head(next.recs)) \in Seq(Record)
          /\ Len(Append(page.recs, Head(next.recs))) = used + 1
          /\ Append(page.recs, Head(next.recs)) # <<>>
      <4>1. page.recs \in Seq(Record) /\ Head(next.recs) \in Record
        BY <2>4, <3>1
      <4> HIDE DEF page, next, Record
      <4> QED BY ONLY <4>1, AppendProperties DEF used
    <3>own. Append(page.recs, Head(next.recs)) \in Seq(Own) /\ Tail(next.recs) \in Seq(Own)
      <4>1. Head(next.recs) \in Own /\ Tail(next.recs) \in Seq(Own)
        BY <2>3, <2>own, HeadTailProperties
      <4> HIDE DEF page, next
      <4> QED BY <2>own, <4>1, AppendProperties
    <3>3. used + coming > N
      BY <2>5, <2>7, <2>fit
    <3>4. page.spare # <<>>
      <4>1. room # 0
        BY <2>5
      <4> QED BY <4>1, EmptySeq DEF room
    <3>5. Tail(page.spare) \in Seq(Stale) /\ Len(Tail(page.spare)) = room - 1
      BY <2>4, <3>4, HeadTailProperties DEF room
    <3>6. <<0>> \o next.spare \in Seq(Stale) /\ Len(<<0>> \o next.spare) = 1 + left
      <4>1. <<0>> \in Seq(Stale) /\ Len(<<0>>) = 1
        BY DEF Stale
      <4> QED BY <2>4, <4>1, ConcatProperties DEF left
    <3> DEFINE a == Append(page.recs, Head(next.recs))
               b == Tail(page.spare)
               c == Tail(next.recs)
               d == <<0>> \o next.spare
    <3> HIDE DEF a, b, c, d
    <3>7. Len(a) + Len(b) = N /\ Len(c) + Len(d) = N /\ Len(c) # 0
      <4>1. Len(a) = used + 1 /\ Len(b) = room - 1 /\ Len(c) = coming - 1 /\ Len(d) = 1 + left
        BY <3>1, <3>2, <3>5, <3>6 DEF a, b, c, d
      <4>2. coming >= 2
        BY <2>5, <3>3
      <4> QED BY <2>5, <4>1, <4>2
    <3>8. more \in DataPage /\ more.next = page.next /\ more.recs # <<>> /\ more.recs = a
      <4>1. more = Holding(page, a, b)
        BY DEF a, b
      <4>2. /\ page \in DataPage /\ a \in Seq(Record) /\ b \in Seq(Stale)
            /\ Len(a) + Len(b) = N /\ a # <<>>
        BY <1>3, <3>2, <3>5, <3>7 DEF a, b
      <4> HIDE DEF more, page
      <4> QED BY ONLY <4>1, <4>2, PageHolding
    <3>9. less \in DataPage /\ less.next = next.next /\ less.recs # <<>> /\ less.recs = c
      <4>1. less = Holding(next, c, d)
        BY DEF c, d
      <4>2. c # <<>>
        BY <3>7, EmptySeq
      <4>3. /\ next \in DataPage /\ c \in Seq(Record) /\ d \in Seq(Stale)
            /\ Len(c) + Len(d) = N
        BY <2>2, <3>1, <3>6, <3>7 DEF c, d
      <4> HIDE DEF less, next
      <4> QED BY ONLY <4>1, <4>2, <4>3, PageHolding
    <3> HIDE DEF more, less
    <3> DEFINE g == Write(f, at, more)
    <3>10. /\ WellFormed(g) /\ LinkedBy(g, linked) /\ Len(g.pages) = Len(f.pages)
           /\ \A i \in 1..Len(f.pages) : g.pages[i] = IF i = at THEN more ELSE f.pages[i]
      BY <1>2, <3>8, KeptByWrite
    <3>gown. OwnedBy(g, linked, owner) /\ g.sep = f.sep
      <4>1. more.recs \in Seq(Behind(f.sep, owner[at]))
        BY <3>own, <3>8 DEF a, Own
      <4> QED BY <1>2, <1>3, <3>8, <4>1, OwnedByWrite, SepKept
    <3> HIDE DEF g
    <3>11. g.pages[to].next = less.next /\ to \in 1..Len(g.pages)
      BY <2>1, <3>8, <3>9, <3>10
    <3>12. /\ WellFormed(Write(g, to, less)) /\ LinkedBy(Write(g, to, less), linked)
           /\ Len(Write(g, to, less).pages) = Len(f.pages)
      <4>1. /\ WellFormed(g) /\ to \in 1..Len(g.pages) /\ less \in DataPage
            /\ less.next = g.pages[to].next /\ (to > Leaves => less.recs # <<>>)
        BY <3>9, <3>10, <3>11
      <4>2. /\ WellFormed(Write(g, to, less)) /\ Len(Write(g, to, less).pages) = Len(g.pages)
            /\ LinkedBy(g, linked) => LinkedBy(Write(g, to, less), linked)
        <5> HIDE DEF to
        <5> QED BY ONLY <4>1, KeptByWrite
      <4> QED BY <3>10, <4>2
    <3>own2. OwnedBy(Write(g, to, less), linked, owner)
      <4>1. less.recs \in Seq(Behind(g.sep, owner[to]))
        <5>1. owner[to] = owner[at]
          BY <1>5 DEF OwnedBy
        <5> QED BY <3>own, <3>9, <3>gown, <5>1 DEF c, Own
      <4>2. /\ g \in Files /\ linked \subseteq 1..Len(g.pages) /\ to \in linked
            /\ less \in DataPage /\ less.next = g.pages[to].next
        BY <1>2, <2>1, <3>9, <3>10, <3>11 DEF WellFormed
      <4> HIDE DEF to
      <4> QED BY ONLY <3>gown, <4>1, <4>2, OwnedByWrite
    <3>13. Kept(Write(g, to, less))
      <4>1. LeavesOrdered(Write(g, to, less))
        <5>1. g \in Files /\ g.sep = f.sep
          BY <3>10, <3>gown DEF WellFormed
        <5> HIDE DEF to
        <5> QED BY <5>1, SepKept, OrderKept
      <4>2. Linked(Write(g, to, less))
        BY <1>2, <3>12, <3>own2 DEF Linked
      <4> QED BY <3>12, <4>1, <4>2 DEF Kept
    <3> QED BY <1>1, <1>5, <2>7, <3>12, <3>13 DEF g
  <2> QED BY <2>6, <2>7
<1> QED BY <1>3, <1>4, <1>5

\* The first page of a chain is made to point past one further on: all pages in
\* between are in no chain any more.
LEMMA UnlinkKeeps ==
  ASSUME NEW f, WellFormed(f), LeavesOrdered(f), NEW linked, LinkedBy(f, linked),
         NEW owner, OwnedBy(f, linked, owner), NEW key,
         NEW stop \in 2..Len(Chain(f, LeafOf(f, key)))
  PROVE  LET chain == Chain(f, LeafOf(f, key))
             g == Write(f, Head(chain),
                        [f.pages[Head(chain)] EXCEPT !.next = f.pages[chain[stop]].next])
         IN  Kept(g) /\ Len(g.pages) = Len(f.pages)
<1> DEFINE chain == Chain(f, LeafOf(f, key))
           first == chain[1]
           size == Len(f.pages)
           Pointed(k) == [f.pages[first] EXCEPT !.next = f.pages[chain[k]].next]
           To(k) == Write(f, first, Pointed(k))
           Linking(k) == /\ WellFormed(To(k))
                         /\ \E pages \in SUBSET (1..size) :
                              LinkedBy(To(k), pages) /\ OwnedBy(To(k), pages, owner)
           S == {n \in Nat : n + 1 <= stop => Linking(n + 1)}
<1> HIDE DEF DataPage, Record, Stale
<1>1. /\ chain \in Seq(1..size) /\ Len(chain) \in Nat \ {0} /\ Head(chain) = first
      /\ first \in 1..Leaves
      /\ \A i \in 1..Len(chain) :
           chain[i] \in 1..size /\ (i > 1 => chain[i] \notin 1..Leaves)
      /\ \A i \in 1..Len(chain) - 1 : f.pages[chain[i]].next = chain[i + 1]
  <2>1. WellFormed(f) /\ LinkedBy(f, linked)
    OBVIOUS
  <2> HIDE DEF chain
  <2> QED BY ONLY <2>1, ChainOfKey DEF chain
<1>2. stop \in 2..Len(chain)
  OBVIOUS
<1> HIDE DEF chain
<1>3. first \in 1..size /\ 1 \in 1..Len(chain) /\ stop \in Nat /\ Leaves \in Nat /\ size \in Nat
  BY <1>1, <1>2, LeavesPositive, LenProperties DEF WellFormed, Files
<1>4. \A i \in 1..size : f.pages[i] \in DataPage /\ f.pages[i].next \in 0..size
  BY ElementOfSeq DEF WellFormed, Files
<1>5. \A k \in 1..Len(chain) :
        /\ Pointed(k) \in DataPage /\ Pointed(k).next = f.pages[chain[k]].next
        /\ Pointed(k).next \in 0..size /\ Pointed(k).recs = f.pages[first].recs
  <2> TAKE k \in 1..Len(chain)
  <2> DEFINE next == f.pages[chain[k]].next
             page == f.pages[first]
  <2>1. next \in 0..size /\ next \in Nat /\ page \in DataPage
    BY <1>1, <1>3, <1>4
  <2> HIDE DEF next, page
  <2>2. LET new == [page EXCEPT !.next = next]
        IN  new \in DataPage /\ new.next = next /\ new.recs = page.recs
    BY <2>1, PagePointing
  <2>3. Pointed(k) = [page EXCEPT !.next = next]
    BY DEF next, page
  <2> QED BY <2>1, <2>2, <2>3 DEF next, page
<1>6. \A k \in 1..Len(chain) :
        /\ To(k) \in Files /\ Len(To(k).pages) = size
        /\ \A i \in 1..size : To(k).pages[i] = IF i = first THEN Pointed(k) ELSE f.pages[i]
        /\ To(k).sep = f.sep
  <2> TAKE k \in 1..Len(chain)
  <2>1. Pointed(k) \in DataPage
    BY <1>5
  <2> HIDE DEF Pointed
  <2> QED BY <1>3, <2>1, WriteFacts, SepKept DEF WellFormed
<1>6a. \A k \in 1..Len(chain) : Pointed(k).recs \in Seq(Behind(f.sep, owner[first]))
  <2>1. first \in linked
    BY <1>1 DEF LinkedBy
  <2>2. f.pages[first].recs \in Seq(Behind(f.sep, owner[first]))
    BY <2>1 DEF OwnedBy
  <2> HIDE DEF Pointed, first
  <2> QED BY <1>5, <2>2
<1>7. first <= Leaves
  BY <1>1, <1>3
<1> HIDE DEF Pointed, first, size
<1>8. 0 \in S
  <2>1. Pointed(1) \in DataPage /\ Pointed(1).next = f.pages[first].next
    BY <1>3, <1>5 DEF first
  <2>2. ~ (first > Leaves)
    BY <1>1, <1>3, <1>7
  <2>3. WellFormed(To(1)) /\ \A pages : LinkedBy(f, pages) => LinkedBy(To(1), pages)
    BY <1>3, <2>1, <2>2, KeptByWrite DEF size
  <2>4. linked \in SUBSET (1..size)
    BY DEF LinkedBy, size
  <2>5. OwnedBy(To(1), linked, owner)
    <3>1. /\ f \in Files /\ linked \subseteq 1..Len(f.pages) /\ first \in linked
          /\ Pointed(1).recs \in Seq(Behind(f.sep, owner[first]))
      BY <1>1, <1>3, <1>6a DEF WellFormed, LinkedBy
    <3> QED BY <2>1, <3>1, OwnedByWrite
  <2> HIDE DEF To
  <2> QED BY <2>3, <2>4, <2>5
<1>9. ASSUME NEW n \in Nat, n \in S
      PROVE  n + 1 \in S
  <2> SUFFICES ASSUME (n + 1) + 1 <= stop
               PROVE  Linking((n + 1) + 1)
    BY DEF S
  <2>1. n + 1 <= stop /\ n + 1 \in 1..Len(chain) - 1 /\ n + 1 \in 1..Len(chain)
        /\ (n + 1) + 1 \in 1..Len(chain) /\ (n + 1) + 1 > 1
    <3> DEFINE many == Len(chain)
    <3>1. /\ many \in Nat /\ stop \in Nat /\ stop <= many /\ n \in Nat
          /\ (n + 1) + 1 <= stop
      BY <1>1, <1>2, <1>3
    <3> HIDE DEF many
    <3>2. /\ n + 1 <= stop /\ n + 1 \in 1..many - 1 /\ n + 1 \in 1..many
          /\ (n + 1) + 1 \in 1..many /\ (n + 1) + 1 > 1
      BY ONLY <3>1
    <3> QED BY ONLY <3>2 DEF many
  <2>2. Linking(n + 1)
    BY <1>9, <2>1
  <2> DEFINE g == To(n + 1)
             past == chain[(n + 1) + 1]
             page == Pointed((n + 1) + 1)
  <2>3. PICK pages \in SUBSET (1..size) : LinkedBy(g, pages) /\ OwnedBy(g, pages, owner)
    BY <2>2
  <2>4. WellFormed(g) /\ Len(g.pages) = size
    BY <1>6, <2>1, <2>2
  <2>5. first \in pages
    BY <1>1, <2>3 DEF LinkedBy
  <2>6. past \in 1..size /\ past # 0 /\ past # first
    BY <1>1, <1>3, <2>1
  <2>7. g.pages[first].next = past
    BY <1>1, <1>3, <1>5, <1>6, <2>1
  <2>8. g.pages[past] = f.pages[past]
    BY <1>6, <2>1, <2>6
  <2>9. page \in DataPage /\ page.next = f.pages[past].next
    BY <1>5, <2>1
  <2>10. Write(g, first, page) = To((n + 1) + 1)
    <3>1. Pointed(n + 1) \in DataPage /\ f \in Files /\ first \in 1..Len(f.pages)
      BY <1>3, <1>5, <2>1 DEF WellFormed, size
    <3> HIDE DEF page
    <3>2. Write(Write(f, first, Pointed(n + 1)), first, page) = Write(f, first, page)
      BY <2>9, <3>1, WriteTwice
    <3> QED BY <3>2 DEF page
  <2>own. page.recs \in Seq(Behind(g.sep, owner[first]))
    BY <1>6, <1>6a, <2>1
  <2> HIDE DEF g, past, page, To
  <2>11. /\ g.pages[first].next # 0 /\ page.next = g.pages[g.pages[first].next].next
         /\ ~ (first > Leaves)
    BY <1>3, <1>7, <2>6, <2>7, <2>8, <2>9, <1>1
  <2>12. /\ WellFormed(Write(g, first, page))
         /\ LinkedBy(Write(g, first, page), pages \ {g.pages[first].next})
         /\ OwnedBy(Write(g, first, page), pages \ {g.pages[first].next}, owner)
    <3>1. Skips(g, pages, first, page)
      BY <2>3, <2>4, <2>5, <2>9, <2>11 DEF Skips
    <3>2. OwnedBy(g, pages, owner)
      BY <2>3
    <3>3. /\ WellFormed(Write(g, first, page))
          /\ LinkedBy(Write(g, first, page), pages \ {g.pages[first].next})
      BY ONLY <3>1, KeptBySkip
    <3>4. OwnedBy(Write(g, first, page), pages \ {g.pages[first].next}, owner)
      BY ONLY <3>1, <3>2, <2>own, OwnedBySkip
    <3> QED BY ONLY <3>3, <3>4
  <2> QED BY <2>10, <2>12
<1>10. Linking(stop)
  <2>1. stop - 1 \in Nat /\ (stop - 1) + 1 = stop
    BY <1>2, <1>3
  <2>2. stop - 1 \in S
    <3> HIDE DEF S
    <3> QED BY <1>8, <1>9, <2>1, SetInduction
  <2> HIDE DEF Linking
  <2> QED BY <1>3, <2>1, <2>2
<1>11. Len(To(stop).pages) = size
  BY <1>2, <1>3, <1>6
<1>12. Kept(To(stop))
  <2>1. To(stop).sep = f.sep
    BY <1>2, <1>3, <1>6
  <2> HIDE DEF To
  <2>2. LeavesOrdered(To(stop))
    BY <2>1, OrderKept
  <2> QED BY <1>10, <1>11, <2>2 DEF Kept, Linked
<1> QED BY <1>1, <1>11, <1>12 DEF Pointed, first, chain, size

\* remove takes records out of a page and then perhaps the page out of its chain,
\* or merges it with the next one.
LEMMA EraseKeeps ==
  ASSUME Kept(isam), NEW key
  PROVE  /\ Kept(Erase(isam, key).isam)
         /\ Len(Erase(isam, key).isam.pages) = Len(isam.pages)
<1> DEFINE f == isam
           chain == Chain(f, LeafOf(f, key))
           stop == StopAt(f, chain, key)
           at == IF stop = 0 THEN 0 ELSE chain[stop]
           page == f.pages[at]
           out == TakenOut(page.recs, key)
           recs == Without(page.recs, out)
           spare == Slots(Cardinality(out), 0) \o page.spare
           left == Holding(page, recs, spare)
           unlinked == Write(f, Head(chain), [f.pages[Head(chain)] EXCEPT !.next = page.next])
           few == ~ IsEmpty(left) /\ Len(left.recs) <= N \div 2
<1>1. Erase(f, key).isam =
        IF stop = 0 \/ out = {} THEN f
        ELSE CASE stop > 1 /\ IsEmpty(left) -> unlinked
               [] few -> Merge(Write(f, at, left), at)
               [] OTHER -> Write(f, at, left)
  BY DEF Erase, Absent, Removed
<1>2. WellFormed(f) /\ LeavesOrdered(f) /\ f \in Files /\ Linked(f)
  BY DEF Kept, WellFormed
<1>3. PICK linked, owner : /\ linked \in SUBSET (1..Len(f.pages))
                          /\ LinkedBy(f, linked) /\ OwnedBy(f, linked, owner)
  BY <1>2 DEF Linked
<1>4. /\ Len(chain) \in Nat \ {0} /\ chain[1] \in 1..Leaves
      /\ \A i \in 1..Len(chain) :
           chain[i] \in linked /\ chain[i] \in 1..Len(f.pages)
      /\ stop \in 0..Len(chain)
  BY <1>2, <1>3, ChainOfKey
<1> HIDE DEF Record, Stale, DataPage, f, chain, stop
<1>5. CASE stop = 0
  BY <1>1, <1>5 DEF f
<1>6. CASE stop # 0
  <2>1. /\ stop \in 1..Len(chain) /\ at = chain[stop] /\ at \in linked
        /\ at \in 1..Len(f.pages)
    BY <1>4, <1>6
  <2> HIDE DEF at
  <2>2. page \in DataPage
    BY <1>2, <2>1, ElementOfSeq DEF Files
  <2>own. page.recs \in Seq(Behind(f.sep, owner[at]))
    BY <1>3, <2>1 DEF OwnedBy
  <2>3. /\ page.recs \in Seq(Record) /\ page.spare \in Seq(Stale)
        /\ Len(page.recs) \in Nat /\ Len(page.spare) \in Nat
        /\ Len(page.recs) + Len(page.spare) = N
    BY <2>2, PageFields
  <2> HIDE DEF page
  <2>4. out \in SUBSET (1..Len(page.recs))
    BY <2>3, LenProperties DEF TakenOut
  <2> HIDE DEF out
  <2>5. /\ recs \in Seq(Record) /\ Cardinality(out) \in Nat
        /\ Len(recs) + Cardinality(out) = Len(page.recs) /\ Len(recs) \in Nat
    BY <2>3, <2>4, WithoutFacts, LenProperties
  <2>5a. recs \in Seq(Behind(f.sep, owner[at]))
    BY <2>4, <2>own, WithoutFacts
  <2>6. spare \in Seq(Stale) /\ Len(spare) = Cardinality(out) + Len(page.spare)
    <3>1. /\ Slots(Cardinality(out), 0) \in Seq(Stale)
          /\ Len(Slots(Cardinality(out), 0)) = Cardinality(out)
      <4>1. 0 \in Stale
        BY DEF Stale
      <4> QED BY <2>5, <4>1, SlotsMade
    <3> DEFINE a == Slots(Cardinality(out), 0)
               b == page.spare
    <3>2. a \in Seq(Stale) /\ b \in Seq(Stale)
      BY <2>3, <3>1
    <3> HIDE DEF a, b
    <3>3. a \o b \in Seq(Stale) /\ Len(a \o b) = Len(a) + Len(b)
      BY <3>2, ConcatProperties
    <3> QED BY <3>1, <3>3 DEF a, b
  <2> HIDE DEF recs, spare
  <2>7. Len(recs) + Len(spare) = N
    <3> DEFINE a == Len(page.recs)
               b == Len(page.spare)
               c == Cardinality(out)
               d == Len(recs)
    <3>1. a \in Nat /\ b \in Nat /\ c \in Nat /\ d \in Nat /\ d + c = a /\ a + b = N
          /\ Len(spare) = c + b
      BY <2>3, <2>5, <2>6
    <3> HIDE DEF a, b, c, d
    <3>2. d + Len(spare) = N
      BY ONLY <3>1
    <3> QED BY ONLY <3>2 DEF d
  <2>8. left \in DataPage /\ left.next = page.next /\ left.recs = recs
    <3>1. left = Holding(page, recs, spare)
      BY DEF recs, spare
    <3>2. /\ page \in DataPage /\ recs \in Seq(Record) /\ spare \in Seq(Stale)
          /\ Len(recs) + Len(spare) = N
      BY <2>2, <2>5, <2>6, <2>7
    <3> HIDE DEF left
    <3> QED BY ONLY <3>1, <3>2, PageHolding
  <2> HIDE DEF left
  <2>9. CASE out = {}
    BY <1>1, <2>9 DEF f
  <2>10. CASE out # {} /\ stop > 1 /\ IsEmpty(left)
    <3>1. Erase(f, key).isam = unlinked
      BY <1>1, <1>6, <2>10
    <3>2. stop \in 2..Len(chain) /\ page = f.pages[chain[stop]]
      BY <1>4, <2>1, <2>10 DEF page
    <3>3. Kept(unlinked) /\ Len(unlinked.pages) = Len(f.pages)
      BY <1>2, <1>3, <3>2, UnlinkKeeps DEF chain
    <3> QED BY <3>1, <3>3 DEF f
  <2>11. CASE out # {} /\ ~ (stop > 1 /\ IsEmpty(left))
    <3>1. at > Leaves => left.recs # <<>>
      <4>1. CASE stop = 1
        BY <1>4, <2>1, <4>1, LeavesPositive
      <4>2. CASE stop # 1
        BY <1>4, <1>6, <2>11, <4>2 DEF IsEmpty
      <4> QED BY <4>1, <4>2
    <3> DEFINE g == Write(f, at, left)
    <3>2. /\ WellFormed(g) /\ LinkedBy(g, linked) /\ Len(g.pages) = Len(f.pages)
          /\ g.pages[at] = left
      BY <1>2, <1>3, <2>1, <2>8, <3>1, KeptByWrite DEF page
    <3>2a. OwnedBy(g, linked, owner) /\ LeavesOrdered(g)
      <4>1. left.next = f.pages[at].next /\ left.recs \in Seq(Behind(f.sep, owner[at]))
        BY <2>5a, <2>8 DEF page
      <4> QED BY <1>2, <1>3, <2>1, <2>8, <4>1, OwnedByWrite, SepKept, OrderKept
    <3> HIDE DEF g
    <3>3. CASE few
      <4>1. Erase(f, key).isam = Merge(g, at)
        BY <1>1, <1>6, <2>11, <3>3 DEF g
      <4>2. g.pages[at].recs # <<>> /\ Len(g.pages[at].recs) <= N \div 2
        BY <3>2, <3>3 DEF IsEmpty
      <4>3. Kept(Merge(g, at)) /\ Len(Merge(g, at).pages) = Len(g.pages)
        BY <2>1, <3>2, <3>2a, <4>2, MergeKeeps
      <4> QED BY <3>2, <4>1, <4>3 DEF f
    <3>4. CASE ~ few
      <4>1. Erase(f, key).isam = g
        BY <1>1, <1>6, <2>11, <3>4 DEF g
      <4>2. Kept(g)
        <5>1. linked \in SUBSET (1..Len(g.pages))
          BY <1>3, <3>2
        <5> QED BY <3>2, <3>2a, <5>1 DEF Kept, Linked
      <4> QED BY <3>2, <4>1, <4>2 DEF f
    <3> QED BY <3>3, <3>4
  <2> QED BY <2>9, <2>10, <2>11
<1> QED BY <1>5, <1>6

\* add writes into the page it stops at, splits it, or puts a page behind it.
LEMMA AddKeeps ==
  ASSUME NEW f, Kept(f), NEW rec \in Record, NEW above
  PROVE  /\ Kept(Add(f, rec, above))
         /\ Len(Add(f, rec, above).pages) <= Len(f.pages) + 1
<1> DEFINE chain == Chain(f, LeafOf(f, rec.key))
           stop == StopAt(f, chain, rec.key)
           at == IF stop = 0 THEN Last(chain) ELSE chain[stop]
           page == f.pages[at]
           same == {i \in DOMAIN page.recs : page.recs[i].key = rec.key}
           more == [page EXCEPT !.recs[Min(same)].raws = @ \union rec.raws]
           new == InsertRecord(page, rec, above)
           last == Len(f.pages) + 1
<1>1. Add(f, rec, above) =
        CASE stop # 0 /\ same # {} -> Write(f, at, more)
          [] stop # 0 /\ same = {} /\ IsFull(page) -> SplitAndInsert(f, at, rec, above)
          [] IsEmpty(page) \/ (stop = 0 /\ IsFull(page)) -> NewPage(f, at, rec)
          [] OTHER -> Write(f, at, new)
  BY DEF Add
<1>2. WellFormed(f) /\ LeavesOrdered(f) /\ f \in Files /\ Linked(f)
  BY DEF Kept, WellFormed
<1>3. PICK linked, owner : /\ linked \in SUBSET (1..Len(f.pages))
                          /\ LinkedBy(f, linked) /\ OwnedBy(f, linked, owner)
  BY <1>2 DEF Linked
<1>4. at \in linked /\ at \in 1..Len(f.pages) /\ owner[at] = LeafOf(f, rec.key)
  <2>1. /\ Len(chain) \in Nat \ {0} /\ Last(chain) = chain[Len(chain)]
        /\ \A i \in 1..Len(chain) : chain[i] \in linked /\ chain[i] \in 1..Len(f.pages)
        /\ stop \in 0..Len(chain)
    BY <1>2, <1>3, ChainOfKey
  <2>2. \A i \in 1..Len(chain) : owner[chain[i]] = LeafOf(f, rec.key)
    <3>1. Pointing(f)
      BY <1>2, LenProperties DEF WellFormed, Pointing, Files
    <3>2. LeafOf(f, rec.key) \in 1..Leaves
      BY <1>2, LeafOfKey
    <3> QED BY <1>3, <3>1, <3>2, ChainOwned
  <2> HIDE DEF chain, stop
  <2>3. Len(chain) \in 1..Len(chain) /\ (stop # 0 => stop \in 1..Len(chain))
    BY <2>1
  <2> QED BY <2>1, <2>2, <2>3
<1>own. rec \in Behind(f.sep, owner[at]) /\ page.recs \in Seq(Behind(f.sep, owner[at]))
  <2>1. rec \in Behind(f.sep, LeafOf(f, rec.key))
    BY <1>2, LeafOfKey
  <2> HIDE DEF at
  <2>2. page.recs \in Seq(Behind(f.sep, owner[at]))
    BY <1>3, <1>4 DEF OwnedBy
  <2> QED BY <1>4, <2>1, <2>2
<1> DEFINE Own == Behind(f.sep, owner[at])
<1>5. page \in DataPage /\ (at > Leaves => page.recs # <<>>)
  <2> HIDE DEF at
  <2> QED BY <1>2, <1>4, ElementOfSeq DEF WellFormed, Files
<1>5a. /\ rec \in Own /\ page.recs \in Seq(Own)
       /\ \A r \in Own : r \in Record /\
            \A raws \in (SUBSET Position) \ {{}} : [r EXCEPT !.raws = raws] \in Own
  <2> HIDE DEF page, at
  <2>1. ASSUME NEW r \in Own, NEW raws \in (SUBSET Position) \ {{}}
        PROVE  r \in Record /\ [r EXCEPT !.raws = raws] \in Own
    <3>1. r \in Record
      BY DEF Behind
    <3> DEFINE changed == [r EXCEPT !.raws = raws]
    <3>2. changed \in Record /\ changed.key = r.key
      BY <3>1 DEF Record
    <3> HIDE DEF changed
    <3>3. changed \in Own
      BY <3>2 DEF Behind
    <3> QED BY <3>1, <3>3 DEF changed
  <2>2. Own \subseteq Record
    BY DEF Behind
  <2> HIDE DEF Own
  <2> QED BY <1>own, <2>1, <2>2 DEF Own
<1>6. Len(f.pages) \in Nat
  BY <1>2, LenProperties DEF WellFormed, Files
<1>7. page.next \in Nat
  BY <1>5, PageFields
<1> HIDE DEF at, stop, chain, Own
<1>8. CASE stop # 0 /\ same # {}
  <2>1. Add(f, rec, above) = Write(f, at, more)
    <3>1. ~ IsEmpty(page)
      <4>1. DOMAIN page.recs # {}
        <5>1. same # {} /\ same \subseteq DOMAIN page.recs
          BY <1>8
        <5> HIDE DEF same, page
        <5> QED BY ONLY <5>1
      <4> HIDE DEF page
      <4> QED BY ONLY <4>1 DEF IsEmpty
    <3> HIDE DEF same, more, page
    <3> QED BY <1>1, <1>8, <3>1
  <2> HIDE DEF more, new
  <2> DEFINE i == Min(same)
             both == [page.recs[i] EXCEPT !.raws = @ \union rec.raws]
             recs == [page.recs EXCEPT ![i] = both]
  <2>2. /\ page.recs \in Seq(Record) /\ page.spare \in Seq(Stale)
        /\ Len(page.recs) + Len(page.spare) = N /\ Len(page.recs) \in Nat
    BY <1>5, PageFields
  <2>3. i \in 1..Len(page.recs)
    <3>1. DOMAIN page.recs = 1..Len(page.recs) /\ same \subseteq DOMAIN page.recs
      <4>1. DOMAIN page.recs = 1..Len(page.recs)
        <5> HIDE DEF page
        <5> QED BY ONLY <2>2, LenProperties
      <4>2. same \subseteq DOMAIN page.recs
        OBVIOUS
      <4> QED BY ONLY <4>1, <4>2
    <3>2. same # {}
      BY <1>8
    <3> HIDE DEF i, both, recs
    <3>3. same \subseteq Nat
      <4> DEFINE count == Len(page.recs)
      <4>1. count \in Nat
        BY <2>2
      <4>2. same \subseteq 1..count
        BY ONLY <3>1
      <4>3. 1..count \subseteq Nat
        <5> HIDE DEF count
        <5> QED BY ONLY <4>1
      <4> HIDE DEF same, count
      <4> QED BY ONLY <4>2, <4>3
    <3> HIDE DEF same, page
    <3> QED BY ONLY <3>1, <3>2, <3>3, MinIsLeast DEF i
  <2>4. both \in Record
    <3>1. page.recs[i] \in Record
      <4> HIDE DEF i, page, Record
      <4> QED BY ONLY <2>2, <2>3, ElementOfSeq
    <3> DEFINE old == page.recs[i]
    <3>2. rec \in Record
      OBVIOUS
    <3> HIDE DEF old, i, page
    <3>3. [old EXCEPT !.raws = @ \union rec.raws] \in Record
      BY ONLY <3>1, <3>2 DEF old, Record
    <3> QED BY <3>3 DEF old
  <2>4a. both \in Own
    <3>1. page.recs[i] \in Own
      <4> HIDE DEF i, page
      <4> QED BY ONLY <1>5a, <2>2, <2>3, ElementOfSeq
    <3> DEFINE old == page.recs[i]
    <3> HIDE DEF old, i, page
    <3>2. old.raws \union rec.raws \in (SUBSET Position) \ {{}}
      <4>1. old \in Record /\ rec \in Record
        BY <1>5a, <3>1 DEF old
      <4> QED BY ONLY <4>1 DEF Record
    <3>3. [old EXCEPT !.raws = old.raws \union rec.raws] \in Own
      BY <1>5a, <3>1, <3>2 DEF old
    <3> QED BY <3>3 DEF old
  <2> HIDE DEF Record, i, both
  <2>own. recs \in Seq(Own)
    BY <1>5a, <2>3, <2>4a, ExceptSeq
  <2>5. recs \in Seq(Record) /\ Len(recs) = Len(page.recs) /\ recs # <<>>
    <3>1. recs \in Seq(Record) /\ Len(recs) = Len(page.recs)
      BY <2>2, <2>3, <2>4, ExceptSeq
    <3>2. Len(recs) # 0
      BY <2>2, <2>3, <3>1
    <3> HIDE DEF recs
    <3> QED BY <3>1, <3>2, EmptySeq
  <2>6. more = Holding(page, recs, page.spare)
    <3>1. page = [recs |-> page.recs, spare |-> page.spare, next |-> page.next]
      BY <1>5 DEF DataPage
    <3>2. more = [page EXCEPT !.recs = recs]
      BY DEF more, recs, both, i
    <3> HIDE DEF more, recs, page
    <3>3. [page EXCEPT !.recs = recs]
            = [recs |-> recs, spare |-> page.spare, next |-> page.next]
      BY <3>1
    <3> QED BY <3>2, <3>3 DEF Holding
  <2> HIDE DEF recs
  <2>7. more \in DataPage /\ more.next = page.next /\ more.recs # <<>> /\ more.recs = recs
    <3> DEFINE old == page.spare
    <3>1. /\ page \in DataPage /\ recs \in Seq(Record) /\ old \in Seq(Stale)
          /\ Len(recs) + Len(old) = N
      BY <1>5, <2>2, <2>5
    <3>2. more = Holding(page, recs, old) /\ recs # <<>>
      BY <2>5, <2>6
    <3> HIDE DEF page, old
    <3> DEFINE held == Holding(page, recs, old)
    <3>3. held \in DataPage /\ held.next = page.next /\ held.recs = recs
      BY ONLY <3>1, PageHolding
    <3> HIDE DEF held
    <3> QED BY ONLY <3>2, <3>3 DEF held
  <2>8. /\ WellFormed(Write(f, at, more)) /\ LinkedBy(Write(f, at, more), linked)
        /\ Len(Write(f, at, more).pages) = Len(f.pages)
    BY <1>2, <1>3, <1>4, <2>7, KeptByWrite
  <2>9. OwnedBy(Write(f, at, more), linked, owner)
    BY <1>2, <1>3, <1>4, <2>own, <2>7, OwnedByWrite DEF Own
  <2>10. LeavesOrdered(Write(f, at, more)) /\ linked \in SUBSET (1..Len(Write(f, at, more).pages))
    BY <1>3, <1>2, <2>8, SepKept, OrderKept
  <2> QED BY <1>6, <2>1, <2>8, <2>9, <2>10 DEF Kept, Linked
<1>9. CASE stop # 0 /\ same = {} /\ IsFull(page)
  <2>1. Add(f, rec, above) = SplitAndInsert(f, at, rec, above)
    <3>1. ~ IsEmpty(page)
      BY <1>9, EmptySeq, IsamIndexAssumption DEF IsEmpty, IsFull
    <3> HIDE DEF same, more, page
    <3> QED BY <1>1, <1>9, <3>1
  <2> DEFINE half == N \div 2
             lower == [recs |-> SubSeq(page.recs, 1, half), spare |-> Slots(N - half, -1),
                       next |-> last]
             upper == Holding(page, SubSeq(page.recs, half + 1, N), Slots(half, Unset))
             here == Max({i \in 0..N - 1 : i = 0 \/ rec.key >= page.recs[i + 1].key}) < half
             low == IF here THEN InsertRecord(lower, rec, above) ELSE lower
             high == IF here THEN upper ELSE InsertRecord(upper, rec, above)
  <2>2. SplitAndInsert(f, at, rec, above) = Write(WriteAtEnd(f, high), at, low)
    BY DEF SplitAndInsert
  <2>3. /\ lower \in DataPage /\ ~ IsFull(lower) /\ lower.recs # <<>> /\ lower.next = last
        /\ upper \in DataPage /\ ~ IsFull(upper) /\ upper.recs # <<>> /\ upper.next = page.next
    <3>1. last \in Nat
      BY <1>6
    <3> HIDE DEF last
    <3>2. /\ lower \in DataPage /\ ~ IsFull(lower) /\ lower.recs # <<>>
          /\ upper \in DataPage /\ ~ IsFull(upper) /\ upper.recs # <<>>
      BY <1>5, <1>9, <3>1, HalvesMade
    <3> QED BY <3>2 DEF Holding
  <2>halves. lower.recs \in Seq(Own) /\ upper.recs \in Seq(Own)
    <3>1. last \in Nat
      BY <1>6
    <3> HIDE DEF last
    <3> QED BY <1>5, <1>5a, <1>9, <3>1, HalvesMade
  <2> HIDE DEF lower, upper, here
  <2>4. /\ low \in DataPage /\ low.next = last /\ low.recs # <<>>
        /\ high \in DataPage /\ high.next = page.next /\ high.recs # <<>>
    BY <2>3, RecordInserted
  <2>own. low.recs \in Seq(Own) /\ high.recs \in Seq(Own)
    BY <1>5a, <2>3, <2>halves, RecordInserted
  <2> HIDE DEF low, high
  <2>5. /\ WellFormed(Write(WriteAtEnd(f, high), at, low))
        /\ Linked(Write(WriteAtEnd(f, high), at, low))
        /\ Len(Write(WriteAtEnd(f, high), at, low).pages) = last
    <3>1. Extends(f, linked, owner, at, low, high)
      BY <1>2, <1>3, <1>4, <2>4, <2>own DEF Extends, Own
    <3> QED BY ONLY <3>1, KeptByNewPage DEF last
  <2>6. LeavesOrdered(Write(WriteAtEnd(f, high), at, low))
    BY <1>2, <2>4, OrderKeptByNewPage
  <2> QED BY <1>6, <2>1, <2>2, <2>5, <2>6 DEF Kept
<1>10. CASE ~ (stop # 0 /\ same # {}) /\ ~ (stop # 0 /\ same = {} /\ IsFull(page))
           /\ (IsEmpty(page) \/ (stop = 0 /\ IsFull(page)))
  <2>1. Add(f, rec, above) = NewPage(f, at, rec)
    BY <1>1, <1>10
  <2> DEFINE end == [recs |-> <<rec>>, spare |-> Slots(N - 1, Unset), next |-> 0]
             on == [page EXCEPT !.next = last]
  <2>2. NewPage(f, at, rec) = Write(WriteAtEnd(f, end), at, on)
    BY DEF NewPage
  <2>3. end \in DataPage /\ end.next = 0 /\ end.recs # <<>>
    <3>1. N - 1 \in Nat /\ Unset \in Stale
      BY IsamIndexAssumption DEF Stale
    <3> HIDE DEF Record, Stale
    <3>2. /\ Slots(N - 1, Unset) \in Seq(Stale) /\ Len(Slots(N - 1, Unset)) = N - 1
      BY <3>1, SlotsMade
    <3>3. <<rec>> \in Seq(Record) /\ Len(<<rec>>) = 1 /\ <<rec>> # <<>>
      OBVIOUS
    <3>4. Len(<<rec>>) + Len(Slots(N - 1, Unset)) = N
      BY <3>2, <3>3, IsamIndexAssumption
    <3> QED BY <3>2, <3>3, <3>4, PageMade
  <2>4. on \in DataPage /\ on.next = last /\ on.recs = page.recs
    <3>1. last \in Nat
      BY <1>6
    <3> HIDE DEF last
    <3> QED BY <1>5, <3>1, PagePointing
  <2>own. end.recs \in Seq(Own)
    <3>1. end.recs = <<rec>> /\ <<rec>> \in Seq(Own)
      BY <1>5a
    <3> QED BY <3>1
  <2> HIDE DEF end, on
  <2>5. /\ WellFormed(Write(WriteAtEnd(f, end), at, on))
        /\ Linked(Write(WriteAtEnd(f, end), at, on))
        /\ Len(Write(WriteAtEnd(f, end), at, on).pages) = last
    <3>1. /\ on \in DataPage /\ on.next = Len(f.pages) + 1
          /\ end \in DataPage /\ end.next \in {0, f.pages[at].next} /\ end.recs # <<>>
      BY <2>3, <2>4
    <3>2. at > Leaves => on.recs # <<>>
      BY <1>5, <2>4
    <3>3. /\ WellFormed(f) /\ LinkedBy(f, linked) /\ OwnedBy(f, linked, owner)
          /\ at \in linked
      BY <1>2, <1>3, <1>4
    <3>4. end.recs \in Seq(Own) /\ on.recs \in Seq(Own)
      BY <1>5a, <2>4, <2>own
    <3>5. Extends(f, linked, owner, at, on, end)
      BY ONLY <3>1, <3>2, <3>3, <3>4 DEF Extends, Own
    <3> QED BY ONLY <3>5, KeptByNewPage DEF last
  <2>6. LeavesOrdered(Write(WriteAtEnd(f, end), at, on))
    BY <1>2, <2>3, OrderKeptByNewPage
  <2> QED BY <1>6, <2>1, <2>2, <2>5, <2>6 DEF Kept
<1>11. CASE ~ (stop # 0 /\ same # {}) /\ ~ (stop # 0 /\ same = {} /\ IsFull(page))
           /\ ~ (IsEmpty(page) \/ (stop = 0 /\ IsFull(page)))
  <2>1. Add(f, rec, above) = Write(f, at, new) /\ ~ IsFull(page)
    <3> HIDE DEF same, more, new, page
    <3>1. CASE stop # 0
      BY <1>1, <1>11, <3>1
    <3>2. CASE stop = 0
      BY <1>1, <1>11, <3>2
    <3> QED BY <3>1, <3>2
  <2>2. new \in DataPage /\ new.next = page.next /\ new.recs # <<>> /\ new.recs \in Seq(Own)
    <3>1. page \in DataPage /\ ~ IsFull(page) /\ rec \in Record
      BY <1>5, <2>1
    <3>2. page.recs \in Seq(Own) /\ rec \in Own
      BY <1>5a
    <3> HIDE DEF page
    <3>3. new \in DataPage /\ new.next = page.next /\ new.recs # <<>>
      BY ONLY <3>1, RecordInserted DEF new
    <3>4. new.recs \in Seq(Own)
      BY ONLY <3>1, <3>2, RecordInserted DEF new
    <3> QED BY ONLY <3>3, <3>4
  <2> HIDE DEF new
  <2>3. /\ WellFormed(Write(f, at, new)) /\ LinkedBy(Write(f, at, new), linked)
        /\ Len(Write(f, at, new).pages) = Len(f.pages)
    BY <1>2, <1>3, <1>4, <2>2, KeptByWrite
  <2>4. OwnedBy(Write(f, at, new), linked, owner)
    BY <1>2, <1>3, <1>4, <2>2, OwnedByWrite DEF Own
  <2>5. LeavesOrdered(Write(f, at, new)) /\ linked \in SUBSET (1..Len(Write(f, at, new).pages))
    BY <1>3, <1>2, <2>3, SepKept, OrderKept
  <2> QED BY <1>6, <2>1, <2>3, <2>4, <2>5 DEF Kept, Linked
<1> QED BY <1>8, <1>9, <1>10, <1>11

\* The records of a batch are those of as many positions of the heap file, in the
\* order of their keys.
LEMMA BatchRecords ==
  ASSUME NEW batch \in Batches
  PROVE  /\ batch \in Seq(Key) /\ Len(batch) \in Nat
         /\ RecordsOf(batch) \in Seq(Record) /\ Len(RecordsOf(batch)) = Len(batch)
         /\ \A i \in 1..Len(batch) : RecordsOf(batch)[i].key = batch[i]
         /\ \A i, j \in 1..Len(batch) : i <= j => batch[i] <= batch[j]
<1> DEFINE Same(i) == {j \in 1..i : batch[j] = batch[i]}
           rec(i) == [key |-> batch[i], raws |-> {<<batch[i], Cardinality(Same(i))>>}]
<1>1. batch \in Seq(Key) /\ Len(batch) \in Nat /\ DOMAIN batch = 1..Len(batch)
  BY LenProperties, IsamIndexAssumption
<1>2. ASSUME NEW i \in 1..Len(batch)
      PROVE  rec(i) \in Record
  <2> DEFINE all == {j \in DOMAIN batch : batch[j] = batch[i]}
  <2>1. batch[i] \in Key
    BY <1>1, ElementOfSeq
  <2>2. IsFiniteSet(all)
    <3>1. IsFiniteSet(1..Len(batch)) /\ all \subseteq 1..Len(batch)
      BY <1>1, FS_Interval
    <3> HIDE DEF all
    <3> QED BY <3>1, FS_Subset
  <2>3. Same(i) \subseteq all /\ i \in Same(i)
    BY <1>1
  <2>4. Cardinality(all) <= MaxPerKey
    BY <2>1, IsamIndexAssumption
  <2> HIDE DEF all, Same
  <2>5. /\ IsFiniteSet(Same(i)) /\ Cardinality(Same(i)) <= Cardinality(all)
        /\ Cardinality(Same(i)) \in Nat /\ Cardinality(all) \in Nat
    BY <2>2, <2>3, FS_Subset, FS_CardinalityType
  <2>6. Cardinality(Same(i)) # 0
    BY <2>3, <2>5, FS_EmptySet
  <2> DEFINE number == Cardinality(Same(i))
  <2>7. number \in 1..MaxPerKey
    BY <2>4, <2>5, <2>6, IsamIndexAssumption
  <2> HIDE DEF number
  <2>8. <<batch[i], number>> \in Position
    BY <2>1, <2>7 DEF Position
  <2> QED BY <2>1, <2>8, RecordMade DEF number
<1>3. RecordsOf(batch) = [i \in 1..Len(batch) |-> rec(i)]
  BY <1>1 DEF RecordsOf
<1>4. \A i \in 1..Len(batch) : RecordsOf(batch)[i].key = batch[i]
  BY <1>3
<1>5. \A i, j \in 1..Len(batch) : i <= j => batch[i] <= batch[j]
  BY <1>1, IsamIndexAssumption
<1> HIDE DEF rec, Record
<1>6. RecordsOf(batch) \in Seq(Record) /\ Len(RecordsOf(batch)) = Len(batch)
  BY <1>1, <1>2, <1>3
<1> QED BY <1>1, <1>4, <1>5, <1>6

\* build fills the leaves one after another, and adds what is left of the batch.
LEMMA BuildKeeps ==
  ASSUME NEW batch \in Batches, Len(batch) >= Leaves * N, NEW above
  PROVE  Kept(Build(batch, above))
<1> DEFINE recs == RecordsOf(batch)
           size == Len(recs)
           page(i) == [recs |-> SubSeq(recs, (i - 1) * N + 1, i * N), spare |-> <<>>, next |-> 0]
           pages == [i \in 1..Leaves |-> page(i)]
           seps == [i \in 1..Leaves - 1 |-> batch[i * N + 1]]
           tree == [pages |-> pages, sep |-> seps]
           Solves(w, n) == w = [i \in 0..n |->
             IF i <= Leaves * N THEN tree ELSE Add(w[i - 1], recs[i], above[i])]
           added == CHOOSE w : Solves(w, size)
<1>1. Build(batch, above) = added[size]
  BY DEF Build
<1>2. /\ batch \in Seq(Key) /\ recs \in Seq(Record) /\ size = Len(batch) /\ size \in Nat
      /\ \A i \in 1..size : recs[i].key = batch[i]
      /\ \A i, j \in 1..size : i <= j => batch[i] <= batch[j]
  BY BatchRecords
<1>3. N \in Nat /\ N >= 2 /\ Leaves \in Nat \ {0} /\ Leaves * N \in Nat /\ size >= Leaves * N
  BY <1>2, LeavesPositive, IsamIndexAssumption
<1> HIDE DEF recs, size, Record, Stale, DataPage
<1>4. \A i \in 1..Leaves :
        /\ (i - 1) * N \in Nat /\ i * N \in Nat /\ i * N <= size /\ i * N = (i - 1) * N + N
  <2> TAKE i \in 1..Leaves
  <2>1. i - 1 \in Nat /\ i \in Nat /\ i <= Leaves
    BY <1>3
  <2>2. i * N \in Nat /\ i * N <= Leaves * N
    BY <1>3, <2>1, TimesMonotone
  <2>3. (i - 1) * N \in Nat /\ i * N = (i - 1) * N + N
    BY <1>3, <2>1
  <2>4. i * N <= size
    <3> DEFINE a == i * N
               b == Leaves * N
    <3>1. a \in Nat /\ b \in Nat /\ size \in Nat /\ a <= b /\ b <= size
      BY <1>2, <1>3, <2>2
    <3> HIDE DEF a, b
    <3>2. a <= size
      BY ONLY <3>1
    <3> QED BY ONLY <3>2 DEF a
  <2> QED BY ONLY <2>2, <2>3, <2>4
<1>4a. \A i \in 1..Leaves - 1 : i * N + 1 \in 1..size /\ i * N \in Nat
  <2> TAKE i \in 1..Leaves - 1
  <2>1. i \in 1..Leaves /\ i + 1 \in 1..Leaves /\ (i + 1) - 1 = i
    BY <1>3
  <2>2. i * N \in Nat /\ (i + 1) * N <= size /\ (i + 1) * N = i * N + N
    BY <1>4, <2>1
  <2> QED BY <1>2, <1>3, <2>2
<1>4b. /\ Len(seps) = Leaves - 1
       /\ \A i \in 1..Leaves - 1 : seps[i] = batch[i * N + 1]
  BY <1>3
<1>4c. \A i \in 1..Leaves : page(i).recs \in Seq(Behind(seps, i))
  <2> TAKE i \in 1..Leaves
  <2> DEFINE from == (i - 1) * N
             to == i * N
             part == SubSeq(recs, from + 1, to)
  <2>1. from \in Nat /\ to \in Nat /\ to <= size /\ to = from + N
    BY <1>4
  <2>2. i > 1 => from + 1 \in 1..size /\ seps[i - 1] = batch[from + 1]
    <3>1. i > 1 => i - 1 \in 1..Leaves - 1
      BY <1>3
    <3> HIDE DEF seps
    <3> QED BY <1>4a, <1>4b, <3>1
  <2>3. i < Leaves => to + 1 \in 1..size /\ seps[i] = batch[to + 1]
    <3>1. i < Leaves => i \in 1..Leaves - 1
      BY <1>3
    <3> HIDE DEF seps
    <3> QED BY <1>4a, <1>4b, <3>1
  <2> HIDE DEF from, to, seps
  <2>4. \A j \in from + 1..to : recs[j] \in Behind(seps, i)
    <3> TAKE j \in from + 1..to
    <3>1. j \in 1..size /\ from + 1 <= j /\ j <= to + 1
      BY <1>2, <2>1
    <3>2. recs[j] \in Record /\ recs[j].key = batch[j]
      BY <1>2, <3>1, ElementOfSeq DEF size
    <3>3. i > 1 => batch[from + 1] <= batch[j]
      BY <1>2, <2>2, <3>1
    <3>4. i < Leaves => batch[j] <= batch[to + 1]
      BY <1>2, <2>3, <3>1
    <3> QED BY <2>2, <2>3, <3>2, <3>3, <3>4 DEF Behind
  <2>5. from + 1 \in Int /\ to \in Int
    BY <2>1
  <2>6. part \in Seq(Behind(seps, i))
    BY <2>4, <2>5, SubSeqProperties
  <2>7. page(i).recs = part
    BY DEF from, to
  <2> HIDE DEF part
  <2> QED BY <2>6, <2>7
<1>5. \A i \in 1..Leaves : page(i) \in DataPage /\ page(i).next = 0
  <2> TAKE i \in 1..Leaves
  <2> DEFINE from == (i - 1) * N
             to == i * N
             part == SubSeq(recs, from + 1, to)
  <2>1. from \in Nat /\ to \in Nat /\ to <= size /\ to = from + N
    BY <1>4
  <2> HIDE DEF from, to
  <2>2. \A j \in from + 1..to : recs[j] \in Record
    <3>1. \A j \in from + 1..to : j \in 1..size
      BY <1>2, <2>1
    <3> QED BY <1>2, <3>1, ElementOfSeq DEF size
  <2>3. from + 1 \in Int /\ to \in Int /\ from + 1 <= to /\ to - (from + 1) + 1 = N
    BY <1>3, <2>1
  <2>4. part \in Seq(Record) /\ Len(part) = N
    BY <2>2, <2>3, SubSeqProperties
  <2>5. page(i) = [recs |-> part, spare |-> <<>>, next |-> 0]
    BY DEF from, to
  <2> HIDE DEF part
  <2>6. <<>> \in Seq(Stale) /\ Len(<<>>) = 0 /\ Len(part) + Len(<<>>) = N
    BY <1>3, <2>4
  <2> QED BY <2>4, <2>5, <2>6, PageMade
<1>6. \A i \in 1..Leaves - 1 : batch[i * N + 1] \in Key
  BY <1>2, <1>4a, ElementOfSeq
<1> HIDE DEF page
<1>7. /\ pages \in Seq(DataPage) /\ Len(pages) = Leaves
      /\ \A i \in 1..Leaves : pages[i].next = 0 /\ pages[i].recs \in Seq(Behind(seps, i))
  <2> HIDE DEF seps
  <2> QED BY <1>3, <1>4c, <1>5
<1>8. seps \in Seq(Key)
  <2>1. Leaves - 1 \in Nat
    BY <1>3
  <2> QED BY <1>6, <2>1
<1>8a. \A i, j \in 1..Leaves - 1 : i <= j => seps[i] <= seps[j]
  <2> TAKE i, j \in 1..Leaves - 1
  <2> HAVE i <= j
  <2>1. i * N <= j * N
    BY <1>3, TimesMonotone
  <2>2. i * N + 1 \in 1..size /\ j * N + 1 \in 1..size /\ i * N \in Nat /\ j * N \in Nat
    BY <1>4a
  <2> DEFINE a == i * N + 1
             b == j * N + 1
  <2>3. a \in 1..size /\ b \in 1..size /\ a <= b /\ seps[i] = batch[a] /\ seps[j] = batch[b]
    BY <1>4b, <2>1, <2>2
  <2> HIDE DEF a, b, seps
  <2> QED BY <1>2, <2>3
<1> HIDE DEF pages, seps
<1>9. Kept(tree)
  <2>1. tree \in Files /\ tree.pages = pages /\ tree.sep = seps
    BY <1>7, <1>8 DEF Files
  <2> HIDE DEF tree
  <2>2. WellFormed(tree)
    BY <1>3, <1>7, <2>1 DEF WellFormed
  <2>3. LinkedBy(tree, 1..Leaves)
    BY <1>7, <2>1 DEF LinkedBy
  <2>4. 1..Leaves \in SUBSET (1..Len(tree.pages))
    BY <1>7, <2>1
  <2> DEFINE owner == [p \in Nat |-> IF p \in 1..Leaves THEN p ELSE 1]
  <2>5. /\ owner \in [Nat -> 1..Leaves]
        /\ \A leaf \in 1..Leaves : owner[leaf] = leaf
    BY <1>3
  <2> HIDE DEF owner
  <2>6. OwnedBy(tree, 1..Leaves, owner)
    BY <1>7, <2>1, <2>5 DEF OwnedBy
  <2>7. LeavesOrdered(tree)
    <3>1. Len(tree.sep) = Leaves - 1
      BY <1>4b, <2>1 DEF seps
    <3> QED BY <1>8a, <2>1, <3>1 DEF LeavesOrdered
  <2>8. Linked(tree)
    BY <2>3, <2>4, <2>6 DEF Linked
  <2> QED BY <2>2, <2>7, <2>8 DEF Kept
<1> HIDE DEF tree
<1>10. \E w : Solves(w, size)
  <2> DEFINE S == {n \in Nat : \E w : Solves(w, n)}
             After(g, i) == Add(g, recs[i], above[i])
  <2> HIDE DEF After
  <2>1. 0 \in S
    <3>1. Solves([i \in 0..0 |-> tree], 0)
      BY <1>3
    <3> QED BY <3>1
  <2>2. ASSUME NEW n \in Nat, n \in S
        PROVE  n + 1 \in S
    <3>1. PICK w : Solves(w, n)
      BY <2>2
    <3> DEFINE v == [i \in 0..n + 1 |->
                       IF i = n + 1 THEN IF i <= Leaves * N THEN tree ELSE After(w[n], n + 1)
                       ELSE w[i]]
    <3>2. \A i \in 0..n + 1 : v[i] = IF i <= Leaves * N THEN tree ELSE After(v[i - 1], i)
      <4> TAKE i \in 0..n + 1
      <4>1. CASE i = n + 1
        <5>1. i - 1 = n /\ n \in 0..n + 1 /\ n # n + 1
          BY <4>1
        <5>2. v[i] = (IF i <= Leaves * N THEN tree ELSE After(w[n], i)) /\ v[n] = w[n]
          BY <4>1, <5>1
        <5> HIDE DEF v
        <5> QED BY <5>1, <5>2
      <4>2. CASE i \in 0..n
        <5>1. v[i] = w[i] /\ (i # 0 => v[i - 1] = w[i - 1])
          BY <4>2
        <5>2. w[i] = IF i <= Leaves * N THEN tree ELSE After(w[i - 1], i)
          BY <3>1, <4>2 DEF After
        <5>3. ~ (i <= Leaves * N) => i # 0
          BY <1>3
        <5> HIDE DEF v
        <5> QED BY <5>1, <5>2, <5>3
      <4> QED BY <4>1, <4>2
    <3>3. Solves(v, n + 1)
      BY <3>2 DEF After
    <3> HIDE DEF v
    <3> QED BY <3>3
  <2> HIDE DEF S
  <2>3. size \in S
    BY <1>2, <2>1, <2>2, SetInduction
  <2> QED BY <2>3 DEF S
<1>11. Solves(added, size)
  <2> HIDE DEF Solves
  <2> QED BY <1>10
<1> HIDE DEF added
<1>12. \A i \in 0..size :
         added[i] = IF i <= Leaves * N THEN tree ELSE Add(added[i - 1], recs[i], above[i])
  BY <1>11
<1> HIDE DEF Solves
<1> DEFINE S == {n \in Nat : n <= size => Kept(added[n])}
<1>13. 0 \in S
  <2>1. 0 \in 0..size /\ 0 <= Leaves * N
    BY <1>2, <1>3
  <2>2. added[0] = tree
    BY <1>12, <2>1
  <2> QED BY <1>9, <2>2
<1>14. ASSUME NEW n \in Nat, n \in S
       PROVE  n + 1 \in S
  <2> SUFFICES ASSUME n + 1 <= size PROVE Kept(added[n + 1])
    OBVIOUS
  <2>1. n + 1 \in 0..size /\ n + 1 \in 1..size /\ (n + 1) - 1 = n /\ Kept(added[n])
    BY <1>2, <1>14
  <2>2. CASE n + 1 <= Leaves * N
    BY <1>9, <1>12, <2>1, <2>2
  <2>3. CASE ~ (n + 1 <= Leaves * N)
    <3>1. added[n + 1] = Add(added[n], recs[n + 1], above[n + 1])
      BY <1>12, <2>1, <2>3
    <3>2. recs[n + 1] \in Record
      BY <1>2, <2>1, ElementOfSeq DEF size
    <3> QED BY <2>1, <3>1, <3>2, AddKeeps
  <2> QED BY <2>2, <2>3
<1>15. size \in S
  <2> HIDE DEF S
  <2> QED BY <1>2, <1>13, <1>14, SetInduction
<1> QED BY <1>1, <1>2, <1>15

-----------------------------------------------------------------------------
(* The invariant.                                                           *)

\* Between builds the files are kept, so the whole of IInv is about them.
LEMMA KeptIsInvariant ==
  ASSUME TypeOK, built, LeavesOrdered(isam), Linked(isam)
  PROVE  Kept(isam)
BY LenProperties DEF TypeOK, Kept, WellFormed, Files

LEMMA KeptLinked ==
  ASSUME Kept(isam')
  PROVE  LeavesOrdered(isam)' /\ Linked(isam)'
<1>1. LeavesOrdered(isam)'
  BY DEF Kept, LeavesOrdered
<1>2. Linked(isam)'
  BY DEF Kept, Linked, LinkedBy, OwnedBy
<1> QED BY <1>1, <1>2

LEMMA SameLinked ==
  ASSUME LeavesOrdered(isam), Linked(isam), UNCHANGED isam
  PROVE  LeavesOrdered(isam)' /\ Linked(isam)'
<1>1. LeavesOrdered(isam)'
  BY DEF LeavesOrdered
<1>2. Linked(isam)'
  <2>1. ASSUME NEW linked, LinkedBy(isam, linked) PROVE LinkedBy(isam, linked)'
    BY <2>1 DEF LinkedBy
  <2>2. ASSUME NEW linked, NEW owner, OwnedBy(isam, linked, owner)
        PROVE  OwnedBy(isam, linked, owner)'
    BY <2>2 DEF OwnedBy
  <2> QED BY <2>1, <2>2 DEF Linked
<1> QED BY <1>1, <1>2

LEMMA InitInvariant ==
  ASSUME Init
  PROVE  IInv
<1>1. isam.pages = <<>> /\ isam.sep = <<>> /\ isam = [pages |-> <<>>, sep |-> <<>>]
  BY DEF Init
<1>2. /\ <<>> \in Seq(DataPage) /\ <<>> \in Seq(Key) /\ Len(<<>>) = 0
  OBVIOUS
<1>3. isam \in [pages : Seq(DataPage), sep : Seq(Key)]
  BY <1>1, <1>2
<1>4. Len(isam.pages) = 0
  BY <1>1, <1>2
<1>5. 1..0 = {} /\ 0 <= MaxPages
  BY IsamIndexAssumption
<1> QED BY <1>3, <1>4, <1>5 DEF Init, IInv, TypeOK

LEMMA KeyAddInvariant ==
  ASSUME IInv, NEW key \in Key, KeyAdd(key)
  PROVE  IInv'
<1>1. built /\ TypeOK /\ Kept(isam) /\ built' = built
  BY KeptIsInvariant DEF IInv, KeyAdd
<1> DEFINE rec == [key |-> key, raws |-> {NewRaw(key)}]
<1>2. PICK above \in BOOLEAN : isam' = Add(isam, rec, above)
  BY DEF KeyAdd
<1>3. rec \in Record
  <2>1. NewRaw(key) \in Fresh(key)
    BY DEF KeyAdd, NewRaw
  <2>2. Fresh(key) \subseteq Position
    BY DEF Fresh, Position
  <2> QED BY <2>1, <2>2, RecordMade
<1> HIDE DEF rec
<1>4. Kept(isam') /\ Len(isam'.pages) <= Len(isam.pages) + 1
  BY <1>1, <1>2, <1>3, AddKeeps
<1>5. Len(isam.pages) < MaxPages /\ reply' = "ok" /\ call' = <<"add", key>>
  BY DEF KeyAdd
<1>6. Len(isam.pages) \in Nat /\ Len(isam'.pages) \in Nat
  BY <1>1, <1>4, LenProperties DEF Kept, WellFormed, Files
<1> DEFINE many == Len(isam.pages)
           now == Len(isam'.pages)
<1>7. Len(isam'.pages) <= MaxPages
  <2>1. many \in Nat /\ now \in Nat /\ now <= many + 1 /\ many < MaxPages /\ MaxPages \in Nat
    BY <1>4, <1>5, <1>6, IsamIndexAssumption
  <2> HIDE DEF many
  <2>2. now <= MaxPages
    <3> HIDE DEF now
    <3> QED BY <2>1
  <2> QED BY <2>2
<1>8. reply' \in {"none", "ok", "absent", "loaded", "throws"}
      /\ call' \in ({"add", "remove"} \X Key) \union ({"build"} \X Batches)
                     \union {<<"none">>, <<"reopen">>}
  BY <1>5
<1>9. TypeOK'
  BY <1>1, <1>4, <1>7, <1>8 DEF TypeOK, Kept, WellFormed, Files
<1> QED BY <1>4, <1>9, KeptLinked DEF IInv

LEMMA KeyRemoveInvariant ==
  ASSUME IInv, NEW key \in Key, KeyRemove(key)
  PROVE  IInv'
<1>1. built /\ TypeOK /\ Kept(isam) /\ built' = built
  BY KeptIsInvariant DEF IInv, KeyRemove
<1>2. /\ isam' = Erase(isam, key).isam
      /\ reply' = Erase(isam, key).outcome /\ call' = <<"remove", key>>
  BY DEF KeyRemove
<1>3. Erase(isam, key).outcome \in {"ok", "absent"}
  BY DEF Erase, Absent, Removed
<1>4. Kept(isam') /\ Len(isam'.pages) = Len(isam.pages)
  BY <1>1, <1>2, EraseKeeps
<1>5. reply' \in {"none", "ok", "absent", "loaded", "throws"}
      /\ call' \in ({"add", "remove"} \X Key) \union ({"build"} \X Batches)
                     \union {<<"none">>, <<"reopen">>}
  BY <1>2, <1>3
<1>6. Len(isam'.pages) <= MaxPages
  BY <1>1, <1>4 DEF TypeOK
<1>7. TypeOK'
  BY <1>1, <1>4, <1>5, <1>6 DEF TypeOK, Kept, WellFormed, Files
<1> QED BY <1>4, <1>7, KeptLinked DEF IInv

LEMMA BulkInsertInvariant ==
  ASSUME IInv, NEW batch \in Batches, BulkInsert(batch)
  PROVE  IInv'
<1>1. CASE Len(batch) < Leaves * N
  <2>1. UNCHANGED <<built, isam>> /\ reply' = "throws" /\ call' = <<"build", batch>>
    BY <1>1 DEF BulkInsert
  <2>2. TypeOK'
    BY <2>1 DEF IInv, TypeOK
  <2>3. built' => LeavesOrdered(isam)' /\ Linked(isam)'
    BY <2>1, SameLinked DEF IInv
  <2> QED BY <2>2, <2>3 DEF IInv
<1>2. CASE ~ (Len(batch) < Leaves * N)
  <2>1. /\ \E above \in [Leaves * N + 1..Len(batch) -> BOOLEAN] : isam' = Build(batch, above)
        /\ Len(isam'.pages) <= MaxPages /\ reply' = "loaded" /\ built' = TRUE
        /\ call' = <<"build", batch>>
    BY <1>2 DEF BulkInsert
  <2>2. PICK above : isam' = Build(batch, above)
    BY <2>1
  <2>3. Len(batch) >= Leaves * N
    BY <1>2, BatchRecords, LeavesPositive, IsamIndexAssumption
  <2>4. Kept(isam')
    BY <2>2, <2>3, BuildKeeps
  <2>5. TypeOK'
    BY <2>1, <2>4 DEF TypeOK, Kept, WellFormed, Files
  <2> QED BY <2>4, <2>5, KeptLinked DEF IInv
<1> QED BY <1>1, <1>2

LEMMA StepInvariant ==
  ASSUME IInv, [Next]_vars
  PROVE  IInv'
<1>1. ASSUME NEW key \in Key, KeyAdd(key)
      PROVE  IInv'
  BY <1>1, KeyAddInvariant
<1>2. ASSUME NEW key \in Key, KeyRemove(key)
      PROVE  IInv'
  BY <1>2, KeyRemoveInvariant
<1>3. CASE Reopen
  BY <1>3 DEF Reopen, IInv, TypeOK
<1>4. ASSUME NEW batch \in Batches, BulkInsert(batch)
      PROVE  IInv'
  BY <1>4, BulkInsertInvariant
<1>5. CASE UNCHANGED vars
  <2>1. TypeOK'
    BY <1>5 DEF IInv, TypeOK, vars
  <2>2. built' => LeavesOrdered(isam)' /\ Linked(isam)'
    BY <1>5, SameLinked DEF IInv, vars
  <2> QED BY <2>1, <2>2 DEF IInv
<1> QED BY <1>1, <1>2, <1>3, <1>4, <1>5 DEF Next, CallsOn

\* Whatever calls come, the linked pages of a built index stay one-to-one linked.
THEOREM IsamInvariant == Spec => []IInv
<1>1. Init => IInv
  BY InitInvariant
<1>2. IInv /\ [Next]_vars => IInv'
  BY StepInvariant
<1> QED BY <1>1, <1>2, PTL DEF Spec

\* No operation writes a page with more or fewer slots than a page has, or a
\* pointer to where there is no page; and only the first page of a leaf is empty.
THEOREM IsamTypeCorrect == Spec => []TypeOK
<1>1. IInv => TypeOK
  BY DEF IInv
<1> QED BY <1>1, IsamInvariant, PTL

\* Whatever splits, merges and lost pages move them, all records stay behind a leaf
\* their key belongs to.
THEOREM IsamRecordsInLeaf == Spec => []RecordsInLeaf
<1>1. IInv => RecordsInLeaf
  BY OwnedInLeaf
<1> QED BY <1>1, IsamInvariant, PTL

\* search finds the record of a key, and range_search those of a range, wherever
\* splits and merges have moved them and in whatever order the pages have them.
THEOREM IsamSearchesAgree == Spec => []SearchAgrees
<1>1. IInv => SearchAgrees
  BY SearchesFind
<1> QED BY <1>1, IsamInvariant, PTL

\* The chains of the leaves never meet and never lead back.
THEOREM IsamChainsDisjoint == Spec => []ChainsDisjoint
<1>1. IInv => ChainsDisjoint
  BY LinkedDisjoint
<1> QED BY <1>1, IsamInvariant, PTL

-----------------------------------------------------------------------------
(* What a sequence of records has for a key.                                *)

\* A record has a key of the index, and at least one position.
LEMMA RecordFields ==
  ASSUME NEW r \in Record
  PROVE  r.key \in Key /\ r.raws \in SUBSET Position /\ r.raws # {}
BY DEF Record

\* The positions of the first record with a key.
FirstIn(recs, key) ==
  LET same == {i \in DOMAIN recs : recs[i].key = key}
  IN  IF same = {} THEN {} ELSE recs[Min(same)].raws

\* A record has a position, so there are none only when there is no record.
LEMMA FirstInFacts ==
  ASSUME NEW recs \in Seq(Record), NEW key
  PROVE  /\ FirstIn(recs, key) \in SUBSET Position
         /\ FirstIn(recs, key) = {} => \A i \in 1..Len(recs) : recs[i].key # key
         /\ FirstIn(recs, key) # {} =>
              \E i \in 1..Len(recs) :
                /\ recs[i].key = key /\ FirstIn(recs, key) = recs[i].raws
                /\ \A j \in 1..Len(recs) : recs[j].key = key => i <= j
         /\ (\A i \in 1..Len(recs) : recs[i].key # key) => FirstIn(recs, key) = {}
<1> DEFINE same == {i \in DOMAIN recs : recs[i].key = key}
<1>1. Len(recs) \in Nat /\ DOMAIN recs = 1..Len(recs)
  BY LenProperties
<1>2. \A i \in 1..Len(recs) : recs[i].raws \in SUBSET Position /\ recs[i].raws # {}
  <2> TAKE i \in 1..Len(recs)
  <2>1. recs[i] \in Record
    BY ElementOfSeq
  <2> QED BY <2>1, RecordFields
<1>3. FirstIn(recs, key) = IF same = {} THEN {} ELSE recs[Min(same)].raws
  BY DEF FirstIn
<1>4. \A i : i \in same <=> i \in 1..Len(recs) /\ recs[i].key = key
  BY <1>1
<1>5. same \subseteq Nat
  BY <1>1
<1> HIDE DEF same
<1>6. CASE same = {}
  BY <1>3, <1>4, <1>6
<1>7. CASE same # {}
  <2>1. Min(same) \in same /\ \A j \in same : Min(same) <= j
    BY <1>5, <1>7, MinIsLeast
  <2> QED BY <1>2, <1>3, <1>4, <1>7, <2>1
<1> QED BY <1>6, <1>7

\* The record that has no record with its key before it is the first one.
LEMMA FirstInIs ==
  ASSUME NEW recs \in Seq(Record), NEW i \in 1..Len(recs),
         \A j \in 1..Len(recs) : recs[j].key = recs[i].key => i <= j
  PROVE  FirstIn(recs, recs[i].key) = recs[i].raws
<1> DEFINE key == recs[i].key
<1>1. FirstIn(recs, key) # {}
  BY FirstInFacts
<1>2. PICK k \in 1..Len(recs) :
        /\ recs[k].key = key /\ FirstIn(recs, key) = recs[k].raws
        /\ \A j \in 1..Len(recs) : recs[j].key = key => k <= j
  <2> HIDE DEF key
  <2> QED BY <1>1, FirstInFacts
<1>3. i <= k /\ k <= i
  BY <1>2
<1>4. i = k
  BY <1>3
<1> QED BY <1>2, <1>4

Then(first, second) == IF first = {} THEN second ELSE first

\* In two sequences one after the other, those of the first come first.
LEMMA FirstInConcat ==
  ASSUME NEW s \in Seq(Record), NEW t \in Seq(Record), NEW key
  PROVE  /\ s \o t \in Seq(Record)
         /\ FirstIn(s \o t, key) = Then(FirstIn(s, key), FirstIn(t, key))
<1> DEFINE u == s \o t
<1>1. /\ u \in Seq(Record) /\ Len(u) = Len(s) + Len(t)
      /\ \A i \in 1..Len(s) + Len(t) : u[i] = IF i <= Len(s) THEN s[i] ELSE t[i - Len(s)]
  BY ConcatProperties
<1>2. Len(s) \in Nat /\ Len(t) \in Nat
  BY LenProperties
<1> HIDE DEF u
<1>3. \A i \in 1..Len(s) : i \in 1..Len(u) /\ u[i] = s[i]
  BY <1>1, <1>2
<1>4. \A i \in 1..Len(t) : Len(s) + i \in 1..Len(u) /\ u[Len(s) + i] = t[i]
  <2> TAKE i \in 1..Len(t)
  <2>1. Len(s) + i \in 1..Len(u) /\ ~ (Len(s) + i <= Len(s)) /\ Len(s) + i - Len(s) = i
    BY <1>1, <1>2
  <2> QED BY <1>1, <2>1
<1>5. \A i \in 1..Len(u) : i \in 1..Len(s) \/ (i - Len(s) \in 1..Len(t) /\ u[i] = t[i - Len(s)])
  <2> TAKE i \in 1..Len(u)
  <2>1. i \in 1..Len(s) \/ (i - Len(s) \in 1..Len(t) /\ ~ (i <= Len(s)))
    BY <1>1, <1>2
  <2> QED BY <1>1, <2>1
<1>6. CASE FirstIn(s, key) # {}
  <2>1. PICK i \in 1..Len(s) :
          /\ s[i].key = key /\ FirstIn(s, key) = s[i].raws
          /\ \A j \in 1..Len(s) : s[j].key = key => i <= j
    BY <1>6, FirstInFacts
  <2>2. i \in 1..Len(u) /\ u[i] = s[i]
    BY <1>3
  <2>3. ASSUME NEW j \in 1..Len(u), u[j].key = u[i].key
        PROVE  i <= j
    <3>1. CASE j \in 1..Len(s)
      BY <1>3, <2>1, <2>2, <2>3, <3>1
    <3>2. CASE j - Len(s) \in 1..Len(t)
      BY <1>2, <3>2
    <3> QED BY <1>5, <3>1, <3>2
  <2>4. FirstIn(u, u[i].key) = u[i].raws
    BY <1>1, <2>2, <2>3, FirstInIs
  <2> QED BY <1>1, <1>6, <2>1, <2>2, <2>4 DEF Then, u
<1>7. CASE FirstIn(s, key) = {} /\ FirstIn(t, key) # {}
  <2>1. PICK i \in 1..Len(t) :
          /\ t[i].key = key /\ FirstIn(t, key) = t[i].raws
          /\ \A j \in 1..Len(t) : t[j].key = key => i <= j
    BY <1>7, FirstInFacts
  <2>2. \A j \in 1..Len(s) : s[j].key # key
    BY <1>7, FirstInFacts
  <2> DEFINE at == Len(s) + i
  <2>3. at \in 1..Len(u) /\ u[at] = t[i]
    BY <1>4
  <2>4. ASSUME NEW j \in 1..Len(u), u[j].key = u[at].key
        PROVE  at <= j
    <3>1. CASE j \in 1..Len(s)
      BY <1>3, <2>1, <2>2, <2>3, <2>4, <3>1
    <3>2. CASE j - Len(s) \in 1..Len(t) /\ u[j] = t[j - Len(s)]
      <4>1. i <= j - Len(s)
        BY <2>1, <2>3, <2>4, <3>2
      <4> QED BY <1>2, <4>1
    <3> QED BY <1>5, <3>1, <3>2
  <2> HIDE DEF at
  <2>5. FirstIn(u, u[at].key) = u[at].raws
    BY <1>1, <2>3, <2>4, FirstInIs
  <2> QED BY <1>1, <1>7, <2>1, <2>3, <2>5 DEF Then, u
<1>8. CASE FirstIn(s, key) = {} /\ FirstIn(t, key) = {}
  <2>1. (\A j \in 1..Len(s) : s[j].key # key) /\ (\A j \in 1..Len(t) : t[j].key # key)
    BY <1>8, FirstInFacts
  <2>2. \A j \in 1..Len(u) : u[j].key # key
    BY <1>3, <1>5, <2>1
  <2>3. FirstIn(u, key) = {}
    BY <1>1, <2>2, FirstInFacts
  <2> QED BY <1>1, <1>8, <2>3 DEF Then, u
<1> QED BY <1>6, <1>7, <1>8

\* What is found in a sequence of one record, and of none.
LEMMA FirstInOne ==
  ASSUME NEW rec \in Record, NEW key
  PROVE  /\ <<rec>> \in Seq(Record)
         /\ FirstIn(<<rec>>, key) = IF rec.key = key THEN rec.raws ELSE {}
         /\ FirstIn(<<>>, key) = {} /\ <<>> \in Seq(Record)
<1> DEFINE one == <<rec>>
<1>1. one \in Seq(Record) /\ Len(one) = 1 /\ one[1] = rec /\ 1 \in 1..1 /\ \A j \in 1..1 : j = 1
  <2> HIDE DEF Record
  <2> QED OBVIOUS
<1>2. <<>> \in Seq(Record) /\ Len(<<>>) = 0 /\ 1..0 = {}
  OBVIOUS
<1> HIDE DEF one
<1>3. FirstIn(<<>>, key) = {}
  BY <1>2, FirstInFacts
<1>4. FirstIn(one, key) = IF rec.key = key THEN rec.raws ELSE {}
  <2>1. CASE rec.key = key
    <3>1. FirstIn(one, one[1].key) = one[1].raws
      BY <1>1, FirstInIs
    <3> QED BY <1>1, <2>1, <3>1
  <2>2. CASE rec.key # key
    <3>1. \A i \in 1..Len(one) : one[i].key # key
      BY <1>1, <2>2
    <3>2. FirstIn(one, key) = {}
      BY <1>1, <3>1, FirstInFacts
    <3> QED BY <2>2, <3>2
  <2> QED BY <2>1, <2>2
<1> QED BY <1>1, <1>2, <1>3, <1>4 DEF one

\* The two parts of a sequence.
LEMMA Parted ==
  ASSUME NEW Some, NEW s \in Seq(Some), NEW n \in 0..Len(s)
  PROVE  /\ SubSeq(s, 1, n) \in Seq(Some) /\ SubSeq(s, n + 1, Len(s)) \in Seq(Some)
         /\ s = SubSeq(s, 1, n) \o SubSeq(s, n + 1, Len(s))
<1> DEFINE front == SubSeq(s, 1, n)
           back == SubSeq(s, n + 1, Len(s))
<1>1. Len(s) \in Nat /\ n \in Nat /\ n <= Len(s) /\ \A i \in 1..Len(s) : s[i] \in Some
  BY LenProperties, ElementOfSeq
<1>2. /\ front \in Seq(Some) /\ Len(front) = n
      /\ \A i \in 1..n : front[i] = s[i]
  <2>1. \A i \in 1..n : i \in 1..Len(s)
    BY <1>1
  <2> QED BY <1>1, <2>1, SubSeqProperties
<1>3. /\ back \in Seq(Some) /\ Len(back) = Len(s) - n
      /\ \A i \in 1..Len(s) - n : back[i] = s[n + i]
  <2>1. \A i \in n + 1..Len(s) : i \in 1..Len(s)
    BY <1>1
  <2>2. back \in Seq(Some) /\ Len(back) = Len(s) - n
    BY <1>1, <2>1, SubSeqProperties
  <2>3. ASSUME NEW i \in 1..Len(s) - n PROVE back[i] = s[n + i]
    BY <1>1, <2>1, SubSeqProperties
  <2> QED BY <2>2, <2>3
<1> HIDE DEF front, back
<1>4. /\ front \o back \in Seq(Some) /\ Len(front \o back) = Len(front) + Len(back)
      /\ \A i \in 1..Len(front) + Len(back) :
           (front \o back)[i] = IF i <= Len(front) THEN front[i] ELSE back[i - Len(front)]
  BY <1>2, <1>3, ConcatProperties
<1>5. Len(front \o back) = Len(s)
  BY <1>1, <1>2, <1>3, <1>4
<1>6. ASSUME NEW i \in 1..Len(s) PROVE (front \o back)[i] = s[i]
  <2>1. CASE i <= n
    BY <1>1, <1>2, <1>3, <1>4, <2>1
  <2>2. CASE ~ (i <= n)
    <3>1. i - n \in 1..Len(s) - n /\ n + (i - n) = i /\ i \in 1..Len(front) + Len(back)
      BY <1>1, <1>2, <1>3, <2>2
    <3>2. (front \o back)[i] = back[i - n]
      BY <1>2, <1>4, <2>2, <3>1
    <3> QED BY <1>3, <3>1, <3>2
  <2> QED BY <2>1, <2>2
<1>7. front \o back = s
  BY <1>4, <1>5, <1>6, SeqEqual
<1> QED BY <1>2, <1>3, <1>7 DEF front, back

\* A record that comes into a sequence that had none with its key is found, and no
\* other key is found elsewhere.
LEMMA FirstInInsert ==
  ASSUME NEW s \in Seq(Record), NEW place \in 1..Len(s) + 1, NEW rec \in Record, NEW key
  PROVE  /\ key # rec.key => FirstIn(InsertAt(s, place, rec), key) = FirstIn(s, key)
         /\ key = rec.key /\ FirstIn(s, key) = {} =>
              FirstIn(InsertAt(s, place, rec), key) = rec.raws
<1> DEFINE front == SubSeq(s, 1, place - 1)
           back == SubSeq(s, place, Len(s))
           one == <<rec>>
<1>1. front \in Seq(Record) /\ back \in Seq(Record) /\ s = front \o back
  <2>1. place - 1 \in 0..Len(s) /\ (place - 1) + 1 = place
    BY LenProperties
  <2> QED BY <2>1, Parted
<1>2. InsertAt(s, place, rec) = (front \o one) \o back
  BY DEF InsertAt
<1> HIDE DEF front, back, one
<1>3. one \in Seq(Record) /\ FirstIn(one, key) = IF rec.key = key THEN rec.raws ELSE {}
  BY FirstInOne DEF one
<1>4. FirstIn(s, key) = Then(FirstIn(front, key), FirstIn(back, key))
  BY <1>1, FirstInConcat
<1>5. /\ front \o one \in Seq(Record)
      /\ FirstIn(front \o one, key) = Then(FirstIn(front, key), FirstIn(one, key))
  <2>1. front \in Seq(Record) /\ one \in Seq(Record)
    BY <1>1, <1>3
  <2> QED BY ONLY <2>1, FirstInConcat
<1> DEFINE upTo == front \o one
<1> HIDE DEF upTo
<1>6. FirstIn(upTo \o back, key) = Then(FirstIn(upTo, key), FirstIn(back, key))
  <2>1. upTo \in Seq(Record)
    BY <1>5 DEF upTo
  <2> QED BY <1>1, <2>1, FirstInConcat
<1>7. FirstIn(InsertAt(s, place, rec), key)
        = Then(Then(FirstIn(front, key), FirstIn(one, key)), FirstIn(back, key))
  BY <1>2, <1>5, <1>6 DEF upTo
<1>8. rec.raws # {}
  BY RecordFields
<1> QED BY <1>3, <1>4, <1>7, <1>8 DEF Then

\* A record that changes, but not its key, is found as before; the others are found
\* where they were.
LEMMA FirstInChanged ==
  ASSUME NEW s \in Seq(Record), NEW t \in Seq(Record), Len(t) = Len(s), NEW i \in 1..Len(s),
         \A j \in 1..Len(s) : j # i => t[j] = s[j],
         t[i].key = s[i].key,
         \A j \in 1..Len(s) : s[j].key = s[i].key => i <= j
  PROVE  /\ FirstIn(s, s[i].key) = s[i].raws /\ FirstIn(t, s[i].key) = t[i].raws
         /\ \A key : key # s[i].key => FirstIn(t, key) = FirstIn(s, key)
<1>1. FirstIn(s, s[i].key) = s[i].raws
  BY FirstInIs
<1>2. FirstIn(t, t[i].key) = t[i].raws
  <2>1. ASSUME NEW j \in 1..Len(t), t[j].key = t[i].key
        PROVE  i <= j
    <3>1. j # i => s[j].key = s[i].key
      BY <2>1
    <3> QED BY <3>1
  <2> QED BY <2>1, FirstInIs
<1>3. ASSUME NEW key, key # s[i].key
      PROVE  FirstIn(t, key) = FirstIn(s, key)
  <2>1. CASE FirstIn(s, key) = {}
    <3>1. \A j \in 1..Len(s) : s[j].key # key
      BY <2>1, FirstInFacts
    <3>2. \A j \in 1..Len(t) : t[j].key # key
      BY <1>3, <3>1
    <3> QED BY <2>1, <3>2, FirstInFacts
  <2>2. CASE FirstIn(s, key) # {}
    <3>1. PICK k \in 1..Len(s) :
            /\ s[k].key = key /\ FirstIn(s, key) = s[k].raws
            /\ \A j \in 1..Len(s) : s[j].key = key => k <= j
      BY <2>2, FirstInFacts
    <3>2. k # i /\ t[k] = s[k]
      BY <1>3, <3>1
    <3>3. ASSUME NEW j \in 1..Len(t), t[j].key = t[k].key
          PROVE  k <= j
      <4>1. j # i
        BY <1>3, <3>1, <3>2, <3>3
      <4> QED BY <3>1, <3>2, <3>3, <4>1
    <3>4. FirstIn(t, t[k].key) = t[k].raws
      BY <3>3, FirstInIs
    <3> QED BY <3>1, <3>2, <3>4
  <2> QED BY <2>1, <2>2
<1> QED BY <1>1, <1>2, <1>3

\* The slots with a key, and what may be left without them.
SlotsOf(recs, key, slots) == \A i \in 1..Len(recs) : i \in slots <=> recs[i].key = key

KeyTaken(recs, gone, left) ==
  /\ FirstIn(left, gone) = {}
  /\ \A key : key # gone => FirstIn(left, key) = FirstIn(recs, key)

\* When all the records of a key are taken out of a sequence, no other key is found
\* elsewhere.
LEMMA FirstInWithout ==
  ASSUME NEW recs \in Seq(Record), NEW out, NEW gone, SlotsOf(recs, gone, out)
  PROVE  KeyTaken(recs, gone, Without(recs, out))
<1> DEFINE size == Len(recs)
           Upto(n) == SubSeq(recs, 1, n)
<1>slots. \A i \in 1..Len(recs) : i \in out <=> recs[i].key = gone
  BY DEF SlotsOf
<1>1. size \in Nat /\ \A i \in 1..size : recs[i] \in Record
  BY LenProperties, ElementOfSeq
<1>2. PICK left :
        /\ Without(recs, out) = left[size]
        /\ \A i \in 0..size :
             left[i] = IF i = 0 THEN <<>>
                       ELSE IF i \in out THEN left[i - 1] ELSE Append(left[i - 1], recs[i])
  BY <1>1, WithoutSteps
<1> HIDE DEF Record
<1>3. /\ Upto(0) = <<>> /\ Upto(size) = recs
      /\ \A n \in 0..size : Upto(n) \in Seq(Record)
      /\ \A n \in Nat : n + 1 <= size => Upto(n + 1) = Upto(n) \o <<recs[n + 1]>>
  <2>1. Upto(0) = <<>> /\ Upto(size) = recs
    BY <1>1
  <2>2. \A n \in 0..size : Upto(n) \in Seq(Record)
    BY <1>1, Parted
  <2>3. ASSUME NEW n \in Nat, n + 1 <= size
        PROVE  Upto(n + 1) = Upto(n) \o <<recs[n + 1]>>
    BY <1>1, <2>3
  <2> QED BY <2>1, <2>2, <2>3
<1> DEFINE Same(n) == /\ left[n] \in Seq(Record) /\ FirstIn(left[n], gone) = {}
                      /\ \A key : key # gone => FirstIn(left[n], key) = FirstIn(Upto(n), key)
           S == {n \in Nat : n <= size => Same(n)}
<1> HIDE DEF Upto
<1>4. 0 \in S
  <2>1. left[0] = <<>>
    BY <1>1, <1>2
  <2>2. <<>> \in Seq(Record) /\ Len(<<>>) = 0 /\ 1..0 = {}
    OBVIOUS
  <2>3. FirstIn(<<>>, gone) = {}
    BY <2>2, FirstInFacts
  <2> QED BY <1>3, <2>1, <2>2, <2>3
<1>5. ASSUME NEW n \in Nat, n \in S
      PROVE  n + 1 \in S
  <2> SUFFICES ASSUME n + 1 <= size PROVE Same(n + 1)
    BY DEF S
  <2> DEFINE r == recs[n + 1]
  <2>1. n + 1 \in 1..size /\ n + 1 \in 0..size /\ n \in 0..size /\ (n + 1) - 1 = n /\ n + 1 # 0
    BY <1>1
  <2>2. Same(n)
    BY <1>5, <2>1
  <2>3. r \in Record /\ (n + 1 \in out <=> r.key = gone)
    BY <1>slots, <1>1, <2>1
  <2>4. /\ <<r>> \in Seq(Record) /\ Upto(n) \in Seq(Record)
        /\ \A key : FirstIn(<<r>>, key) = IF r.key = key THEN r.raws ELSE {}
    BY <1>3, <2>1, <2>3, FirstInOne
  <2> DEFINE one == <<r>>
  <2>5. Upto(n + 1) = Upto(n) \o one
    BY <1>3
  <2> HIDE DEF r, one
  <2>6. \A key : FirstIn(Upto(n + 1), key) = Then(FirstIn(Upto(n), key), FirstIn(one, key))
    <3> TAKE key
    <3>1. one \in Seq(Record) /\ Upto(n) \in Seq(Record)
      BY <2>4 DEF one
    <3>2. FirstIn(Upto(n) \o one, key) = Then(FirstIn(Upto(n), key), FirstIn(one, key))
      BY ONLY <3>1, FirstInConcat
    <3> QED BY ONLY <2>5, <3>2
  <2>7. CASE n + 1 \in out
    <3>1. left[n + 1] = left[n]
      BY <1>2, <2>1, <2>7
    <3>2. \A key : key # gone => FirstIn(one, key) = {}
      BY <2>3, <2>4, <2>7 DEF one
    <3> QED BY <2>2, <2>6, <3>1, <3>2 DEF Then
  <2>8. CASE n + 1 \notin out
    <3>1. left[n + 1] = Append(left[n], recs[n + 1])
      BY <1>2, <2>1, <2>8
    <3>2. left[n + 1] = left[n] \o one
      <4>1. \A s \in Seq(Record) : Append(s, r) = s \o <<r>>
        BY <2>3
      <4> QED BY <2>2, <3>1, <4>1 DEF r, one
    <3>3. /\ left[n] \o one \in Seq(Record)
          /\ \A key : FirstIn(left[n] \o one, key) = Then(FirstIn(left[n], key), FirstIn(one, key))
      <4>1. left[n] \in Seq(Record) /\ one \in Seq(Record)
        BY <2>2, <2>4 DEF one
      <4> QED BY ONLY <4>1, FirstInConcat
    <3>4. FirstIn(one, gone) = {}
      BY <2>3, <2>4, <2>8 DEF one
    <3> QED BY <2>2, <2>6, <3>2, <3>3, <3>4 DEF Then
  <2> QED BY <2>7, <2>8
<1>6. size \in S
  <2> HIDE DEF S
  <2> QED BY <1>1, <1>4, <1>5, SetInduction
<1>7. Same(size)
  BY <1>1, <1>6
<1> QED BY <1>2, <1>3, <1>7 DEF KeyTaken

\* What the loop of remove takes out has the key, and a record that is the only one
\* with the key is taken out.
LEMMA TakenOutFacts ==
  ASSUME NEW recs \in Seq(Record), NEW key
  PROVE  /\ \A i \in TakenOut(recs, key) : i \in 1..Len(recs) /\ recs[i].key = key
         /\ \A i \in 1..Len(recs) :
              recs[i].key = key /\ (\A j \in 1..Len(recs) : recs[j].key = key => j = i)
                => i \in TakenOut(recs, key)
<1> DEFINE size == Len(recs)
           Solves(w) == w = [i \in 0..size |-> i > 0 /\ recs[i].key = key /\ ~ w[i - 1]]
           taken == CHOOSE w : Solves(w)
<1>1. size \in Nat /\ DOMAIN recs = 1..size
  BY LenProperties
<1>2. TakenOut(recs, key) = {i \in DOMAIN recs : taken[i]}
  BY DEF TakenOut
<1> HIDE DEF size
<1>3. \E w : Solves(w)
  <2> DEFINE step == [i \in 1..size |-> [b \in BOOLEAN |-> recs[i].key = key /\ ~ b]]
  <2>1. step \in [1..size -> [BOOLEAN -> BOOLEAN]]
    OBVIOUS
  <2>2. \A i \in 1..size, b \in BOOLEAN : step[i][b] = (recs[i].key = key /\ ~ b)
    OBVIOUS
  <2> HIDE DEF step
  <2>3. PICK w : Stepwise(w, size, BOOLEAN, FALSE, step)
    <3>1. FALSE \in BOOLEAN /\ Steps(size, BOOLEAN, step)
      BY <1>1, <2>1 DEF Steps
    <3> QED BY ONLY <3>1, StepwiseExists
  <2>4. w \in [0..size -> BOOLEAN] /\ w[0] = FALSE
    BY <2>3 DEF Stepwise
  <2>5. ASSUME NEW i \in 0..size
        PROVE  w[i] = (i > 0 /\ recs[i].key = key /\ ~ w[i - 1])
    <3>1. CASE i = 0
      BY <2>4, <3>1
    <3>2. CASE i # 0
      <4>1. i \in 1..size /\ i - 1 \in 0..size /\ i > 0
        BY <1>1, <3>2
      <4>2. w[i] = step[i][w[i - 1]] /\ w[i - 1] \in BOOLEAN
        BY <2>3, <2>4, <4>1 DEF Stepwise
      <4>3. w[i] = (recs[i].key = key /\ ~ w[i - 1])
        BY <2>2, <4>1, <4>2
      <4> QED BY <4>1, <4>3
    <3> QED BY <3>1, <3>2
  <2> DEFINE v == [i \in 0..size |-> i > 0 /\ recs[i].key = key /\ ~ w[i - 1]]
  <2>6. w = v
    <3>1. v = [i \in 0..size |-> v[i]] /\ w = [i \in 0..size |-> w[i]]
      BY <2>4
    <3>2. \A i \in 0..size : v[i] = (i > 0 /\ recs[i].key = key /\ ~ w[i - 1])
      OBVIOUS
    <3> HIDE DEF v
    <3> QED BY <2>5, <3>1, <3>2
  <2> QED BY <2>6
<1>4. Solves(taken)
  <2> HIDE DEF Solves
  <2> QED BY <1>3
<1> HIDE DEF taken
<1>5. \A i \in 0..size : taken[i] = (i > 0 /\ recs[i].key = key /\ ~ taken[i - 1])
  BY <1>4
<1> HIDE DEF Solves
<1>6. ASSUME NEW i \in TakenOut(recs, key)
      PROVE  i \in 1..Len(recs) /\ recs[i].key = key
  <2>1. i \in 1..size /\ i \in 0..size /\ taken[i]
    BY <1>1, <1>2
  <2> QED BY <1>5, <2>1 DEF size
<1>7. ASSUME NEW i \in 1..Len(recs), recs[i].key = key,
             \A j \in 1..Len(recs) : recs[j].key = key => j = i
      PROVE  i \in TakenOut(recs, key)
  <2>1. i \in 1..size /\ i \in 0..size /\ i > 0 /\ i - 1 \in 0..size
    BY <1>1 DEF size
  <2>2. ~ taken[i - 1]
    <3>1. CASE i - 1 = 0
      <4>1. 0 \in 0..size /\ ~ (0 > 0)
        BY <1>1
      <4>2. taken[0] = (0 > 0 /\ recs[0].key = key /\ ~ taken[0 - 1])
        BY <1>5, <4>1
      <4> QED BY <3>1, <4>1, <4>2
    <3>2. CASE i - 1 # 0
      <4>1. i - 1 \in 1..Len(recs) /\ i - 1 # i
        BY <2>1, <3>2 DEF size
      <4>2. recs[i - 1].key # key
        BY <1>7, <4>1
      <4> QED BY <1>5, <2>1, <4>2
    <3> QED BY <3>1, <3>2
  <2>3. taken[i]
    BY <1>5, <1>7, <2>1, <2>2
  <2> QED BY <1>1, <1>2, <2>1, <2>3
<1> QED BY <1>6, <1>7

-----------------------------------------------------------------------------
(* Search, along a chain.                                                   *)

\* The chain of a leaf ends, and no page of it is in it twice or in another one.
LEMMA LeafChain ==
  ASSUME NEW f, Kept(f), NEW leaf \in 1..Leaves
  PROVE  LET c == Chain(f, leaf)
         IN  /\ c \in Seq(1..Len(f.pages)) /\ Len(c) \in Nat \ {0} /\ c[1] = leaf
             /\ \A i \in 1..Len(c) :
                  /\ c[i] \in 1..Len(f.pages) /\ f.pages[c[i]] \in DataPage
                  /\ f.pages[c[i]].next = IF i = Len(c) THEN 0 ELSE c[i + 1]
                  /\ i > 1 => c[i] \notin 1..Leaves
             /\ \A other \in 1..Leaves : \A i \in 1..Len(c), j \in 1..Len(Chain(f, other)) :
                  c[i] = Chain(f, other)[j] => leaf = other /\ i = j
<1> DEFINE c == Chain(f, leaf)
           size == Len(f.pages)
<1>1. Pointing(f) /\ f \in Files /\ size \in Nat
  BY LenProperties DEF Kept, WellFormed, Pointing, Files
<1>2. PICK linked : LinkedBy(f, linked)
  BY DEF Kept, Linked
<1>3. leaf \in 1..size /\ \A i \in 1..Len(c) : c[i] \in linked /\ (i > 1 => c[i] \notin 1..Leaves)
  BY <1>1, <1>2, ChainLinked
<1>4. /\ c \in Seq(1..size) /\ Len(c) \in Nat \ {0} /\ c[1] = leaf
      /\ \A i \in 1..Len(c) - 1 : f.pages[c[i]].next = c[i + 1]
      /\ Len(c) = size \/ f.pages[c[Len(c)]].next = 0
  BY <1>1, <1>3, ChainWalk
<1>5. \A other \in 1..Leaves : \A i \in 1..Len(c), j \in 1..Len(Chain(f, other)) :
        c[i] = Chain(f, other)[j] => leaf = other /\ i = j
  BY <1>1, <1>2, ChainsDistinct
<1>6. \A i, j \in 1..Len(c) : c[i] = c[j] => i = j
  BY <1>5
<1> HIDE DEF c
<1>7. \A i \in 1..Len(c) : c[i] \in 1..size /\ f.pages[c[i]] \in DataPage
  <2> TAKE i \in 1..Len(c)
  <2>1. c[i] \in 1..size
    BY <1>4, ElementOfSeq
  <2>2. f.pages \in Seq(DataPage)
    BY <1>1 DEF Files
  <2> QED BY <2>1, <2>2, ElementOfSeq
<1>8. f.pages[c[Len(c)]].next = 0
  <2> SUFFICES ASSUME f.pages[c[Len(c)]].next # 0 PROVE FALSE
    OBVIOUS
  <2> DEFINE last == c[Len(c)]
             q == f.pages[last].next
  <2>1. Len(c) = size /\ last \in linked /\ Len(c) \in 1..Len(c)
    BY <1>3, <1>4
  <2>2. q # 0 /\ q \in linked /\ q \notin 1..Leaves /\ q \in 1..size
    BY <1>2, <2>1 DEF LinkedBy
  <2> HIDE DEF q, size
  <2>3. c \in [1..size -> 1..size]
    BY <1>4, <2>1, LenProperties
  <2>4. c \in Injection(1..size, 1..size)
    BY <1>6, <2>1, <2>3 DEF Injection, IsInjective
  <2>5. IsFiniteSet(1..size)
    BY <1>1, FS_Interval
  <2>6. c \in Surjection(1..size, 1..size)
    BY ONLY <2>4, <2>5, FS_Injection
  <2>7. PICK j \in 1..size : c[j] = q
    BY <2>2, <2>6 DEF Surjection
  <2>8. j # 1
    BY <1>4, <2>2, <2>7
  <2>9. j - 1 \in 1..Len(c) - 1 /\ j - 1 \in 1..Len(c) /\ (j - 1) + 1 = j /\ j - 1 # Len(c)
    BY <1>1, <2>1, <2>8
  <2>10. f.pages[c[j - 1]].next = q /\ c[j - 1] \in linked
    BY <1>3, <1>4, <2>7, <2>9
  <2>11. c[j - 1] = last
    BY <1>2, <2>1, <2>2, <2>10 DEF LinkedBy, q
  <2> QED BY <1>6, <2>1, <2>9, <2>11
<1>9. \A i \in 1..Len(c) : f.pages[c[i]].next = IF i = Len(c) THEN 0 ELSE c[i + 1]
  <2> TAKE i \in 1..Len(c)
  <2>1. CASE i = Len(c)
    BY <1>8, <2>1
  <2>2. CASE i # Len(c)
    <3>1. i \in 1..Len(c) - 1
      BY <1>4, <2>2
    <3> QED BY <1>4, <2>2, <3>1
  <2> QED BY <2>1, <2>2
<1> QED BY <1>3, <1>4, <1>5, <1>7, <1>9 DEF c

\* Search reads the pages of the chain as one sequence.
LEMMA SearchIs ==
  ASSUME NEW f, Kept(f), NEW key
  PROVE  /\ LeafOf(f, key) \in 1..Leaves
         /\ Search(f, key) = FirstIn(Recs(f, Chain(f, LeafOf(f, key))), key)
<1> DEFINE leaf == LeafOf(f, key)
           recs == Recs(f, Chain(f, leaf))
<1>1. leaf \in 1..Leaves
  BY LeafFound DEF LeafOf
<1> HIDE DEF leaf
<1>2. recs \in Seq(Record)
  <2>1. Chain(f, leaf) \in Seq(1..Len(f.pages)) /\ f \in Files
    BY <1>1, LeafChain DEF Kept, WellFormed
  <2> QED BY <2>1, RecsFacts
<1> DEFINE first == [seq \in Seq(Record) |-> FirstIn(seq, key)]
<1>3. Search(f, key) = first[recs]
  BY DEF Search, FirstIn, leaf
<1>4. first[recs] = FirstIn(recs, key)
  <2> HIDE DEF recs
  <2> QED BY <1>2
<1> QED BY <1>1, <1>3, <1>4 DEF leaf

\* What is found from the page after p on, when `val' has what is found from each page on.
Rest(f, val, p) == IF f.pages[p].next = 0 THEN {} ELSE val[f.pages[p].next]

\* `val' is that, for pages that lead only to each other.
Solves(f, key, pages, val) ==
  \A p \in pages : /\ f.pages[p].next \in pages \union {0}
                   /\ val[p] = Then(FirstIn(f.pages[p].recs, key), Rest(f, val, p))

\* Such values tell what search finds.
LEMMA SearchSolved ==
  ASSUME NEW f, Kept(f), NEW key, NEW pages, NEW val, Solves(f, key, pages, val),
         LeafOf(f, key) \in pages
  PROVE  Search(f, key) = val[LeafOf(f, key)]
<1> DEFINE leaf == LeafOf(f, key)
           c == Chain(f, leaf)
           seqs == [i \in DOMAIN c |-> f.pages[c[i]].recs]
<1>1. leaf \in 1..Leaves /\ Search(f, key) = FirstIn(Recs(f, c), key) /\ leaf \in pages
  BY SearchIs
<1> HIDE DEF leaf
<1>2. /\ c \in Seq(1..Len(f.pages)) /\ Len(c) \in Nat \ {0} /\ c[1] = leaf
      /\ \A i \in 1..Len(c) :
           /\ c[i] \in 1..Len(f.pages) /\ f.pages[c[i]] \in DataPage
           /\ f.pages[c[i]].next = IF i = Len(c) THEN 0 ELSE c[i + 1]
  BY <1>1, LeafChain
<1> HIDE DEF c
<1>3. /\ seqs \in Seq(Seq(Record)) /\ Len(seqs) = Len(c) /\ seqs # <<>>
      /\ \A i \in 1..Len(c) : seqs[i] = f.pages[c[i]].recs /\ seqs[i] \in Seq(Record)
  <2>1. DOMAIN c = 1..Len(c) /\ Len(c) \in Nat
    BY <1>2, LenProperties
  <2>2. \A i \in 1..Len(c) : seqs[i] = f.pages[c[i]].recs /\ seqs[i] \in Seq(Record)
    BY <1>2, <2>1, PageFields
  <2>3. seqs = [i \in 1..Len(c) |-> seqs[i]]
    BY <2>1
  <2> HIDE DEF seqs
  <2>4. seqs \in Seq(Seq(Record)) /\ Len(seqs) = Len(c)
    BY <2>1, <2>2, <2>3
  <2> QED BY <1>2, <2>2, <2>4
<1>4. Recs(f, c) = FlattenSeq(seqs)
  BY DEF Recs
<1> HIDE DEF seqs
<1>5. PICK flatten :
        /\ FlattenSeq(seqs) = flatten[Len(seqs)]
        /\ \A i \in 1..Len(seqs) :
             /\ flatten[i] \in Seq(Record)
             /\ flatten[i] = IF i = 1 THEN seqs[i] ELSE flatten[i - 1] \o seqs[i]
  <2>1. seqs \in Seq(Seq(Record)) /\ seqs # <<>>
    BY <1>3
  <2> HIDE DEF Record
  <2> QED BY ONLY <2>1, FlattenSteps
<1> DEFINE S == {n \in Nat : n + 1 <= Len(c) =>
                   /\ c[n + 1] \in pages
                   /\ val[leaf] = Then(FirstIn(flatten[n + 1], key), Rest(f, val, c[n + 1]))}
<1>6. 0 \in S
  <2>1. 1 \in 1..Len(c)
    BY <1>2
  <2>2. flatten[1] = f.pages[leaf].recs
    BY <1>2, <1>3, <1>5, <2>1
  <2> QED BY <1>1, <1>2, <2>2 DEF Solves
<1>7. ASSUME NEW n \in Nat, n \in S
      PROVE  n + 1 \in S
  <2> SUFFICES ASSUME (n + 1) + 1 <= Len(c)
               PROVE  /\ c[(n + 1) + 1] \in pages
                      /\ val[leaf] = Then(FirstIn(flatten[(n + 1) + 1], key),
                                          Rest(f, val, c[(n + 1) + 1]))
    BY DEF S
  <2> DEFINE i == n + 1
             p == c[i]
             q == c[i + 1]
  <2>1. /\ i \in 1..Len(c) /\ i + 1 \in 1..Len(c) /\ i # Len(c) /\ (i + 1) - 1 = i /\ i + 1 # 1
        /\ i <= Len(c)
    BY <1>2
  <2>2. p \in pages /\ val[leaf] = Then(FirstIn(flatten[i], key), Rest(f, val, p))
    BY <1>7, <2>1
  <2>3. f.pages[p].next = q /\ q \in 1..Len(f.pages) /\ seqs[i + 1] = f.pages[q].recs
    BY <1>2, <1>3, <2>1
  <2>4. q # 0
    BY <2>3
  <2>5. q \in pages
    BY <2>2, <2>3, <2>4 DEF Solves
  <2>6. val[q] = Then(FirstIn(f.pages[q].recs, key), Rest(f, val, q))
    BY <2>5 DEF Solves
  <2>7. Rest(f, val, p) = val[q]
    BY <2>3, <2>4 DEF Rest
  <2>8. flatten[i] \in Seq(Record) /\ seqs[i + 1] \in Seq(Record)
        /\ flatten[i + 1] = flatten[i] \o seqs[i + 1]
    BY <1>3, <1>5, <2>1
  <2>9. FirstIn(flatten[i] \o seqs[i + 1], key)
          = Then(FirstIn(flatten[i], key), FirstIn(seqs[i + 1], key))
    BY ONLY <2>8, FirstInConcat
  <2> HIDE DEF p, q, i
  <2>10. val[leaf] = Then(FirstIn(flatten[i + 1], key), Rest(f, val, q))
    BY <2>2, <2>3, <2>6, <2>7, <2>8, <2>9 DEF Then
  <2> QED BY <2>5, <2>10 DEF p, q, i
<1>8. Len(c) - 1 \in S /\ (Len(c) - 1) + 1 = Len(c) /\ Len(c) \in 1..Len(c)
  <2> HIDE DEF S
  <2>1. Nat \subseteq S
    BY ONLY <1>6, <1>7, SetInduction
  <2> DEFINE size == Len(c)
  <2>2. size \in Nat \ {0}
    BY <1>2
  <2> HIDE DEF size
  <2>3. size - 1 \in Nat /\ (size - 1) + 1 = size /\ size \in 1..size
    BY ONLY <2>2
  <2>4. size - 1 \in S
    BY ONLY <2>1, <2>3
  <2> QED BY ONLY <2>3, <2>4 DEF size
<1>9. val[leaf] = Then(FirstIn(flatten[Len(c)], key), Rest(f, val, c[Len(c)]))
  BY <1>8
<1>10. Rest(f, val, c[Len(c)]) = {}
  BY <1>2, <1>8 DEF Rest
<1> QED BY <1>1, <1>3, <1>4, <1>5, <1>9, <1>10 DEF Then, leaf

\* What is found first in the pages from one index of a chain to another.
FirstOf(first, from, to) ==
  LET found == {j \in from..to : first[j] # {}}
  IN  IF found = {} THEN {} ELSE first[Min(found)]

\* It can be worked out from the first index on.
LEMMA FirstOfSteps ==
  ASSUME NEW first, NEW from \in Nat, NEW to \in Nat
  PROVE  /\ from > to => FirstOf(first, from, to) = {}
         /\ from <= to => FirstOf(first, from, to) = Then(first[from], FirstOf(first, from + 1, to))
         /\ (\A j \in from..to : first[j] = {}) => FirstOf(first, from, to) = {}
<1> DEFINE Found(i) == {j \in i..to : first[j] # {}}
<1>1. \A i : FirstOf(first, i, to) = IF Found(i) = {} THEN {} ELSE first[Min(Found(i))]
  BY DEF FirstOf
<1>2. (\A j \in from..to : first[j] = {}) => FirstOf(first, from, to) = {}
  BY <1>1
<1>3. from > to => FirstOf(first, from, to) = {}
  BY <1>2
<1>4. ASSUME from <= to, first[from] # {}
      PROVE  FirstOf(first, from, to) = first[from]
  <2>1. Found(from) \subseteq Nat /\ from \in Found(from) /\ \A j \in Found(from) : from <= j
    BY <1>4
  <2> HIDE DEF Found
  <2>2. Min(Found(from)) \in Found(from) /\ \A j \in Found(from) : Min(Found(from)) <= j
    BY <2>1, MinIsLeast
  <2>3. Min(Found(from)) = from
    BY <2>1, <2>2
  <2> QED BY <1>1, <2>1, <2>3
<1>5. ASSUME from <= to, first[from] = {}
      PROVE  FirstOf(first, from, to) = FirstOf(first, from + 1, to)
  <2>1. Found(from) = Found(from + 1)
    BY <1>5
  <2> HIDE DEF Found
  <2> QED BY <1>1, <2>1
<1> QED BY <1>2, <1>3, <1>4, <1>5 DEF Then

\* A call changes one page of a chain, or makes one page of two or two of one.  `Window'
\* says that the page `at', or the pages `at' and `other', lead to `exit', and that
\* `found' is what they have for the key.
Window(f, at, other, exit, key, found) ==
  \/ f.pages[at].next = exit /\ found = FirstIn(f.pages[at].recs, key)
  \/ /\ f.pages[at].next = other /\ other # 0 /\ f.pages[other].next = exit
     /\ found = Then(FirstIn(f.pages[at].recs, key), FirstIn(f.pages[other].recs, key))

\* Where the part of a chain up to an index leads to.
Exit(c, m) == IF m = Len(c) THEN 0 ELSE c[m + 1]

\* The rest of the chain c, of which the window had the pages from index n to m.
Around(f, c, n, m, other, key, first) ==
  /\ c \in Seq(Nat \ {0}) /\ n \in 1..Len(c) /\ m \in n..Len(c)
  /\ \A i, j \in 1..Len(c) : c[i] = c[j] => i = j
  /\ \A i \in (1..n) \union (m + 1..Len(c)) : other # c[i]
  /\ \A i \in (1..n - 1) \union (m + 1..Len(c)) :
       /\ f.pages[c[i]].next = IF i = Len(c) THEN 0 ELSE c[i + 1]
       /\ first[i] = FirstIn(f.pages[c[i]].recs, key)

\* What the whole chain has.
Whole(first, c, n, m, found) ==
  Then(FirstOf(first, 1, n - 1), Then(found, FirstOf(first, m + 1, Len(c))))

\* search finds what the window and the rest of the chain have.
LEMMA SearchAround ==
  ASSUME NEW f, Kept(f), NEW key, NEW c, NEW n, NEW m, NEW other, NEW first, NEW found,
         Around(f, c, n, m, other, key, first), c[1] = LeafOf(f, key),
         Window(f, c[n], other, Exit(c, m), key, found)
  PROVE  Search(f, key) = Whole(first, c, n, m, found)
<1> DEFINE size == Len(c)
           at == c[n]
           exit == IF m = size THEN 0 ELSE c[m + 1]
           before == 1..n - 1
           after == m + 1..size
           end == FirstOf(first, m + 1, size)
           fromAt == Then(found, end)
           two == f.pages[at].next # exit
           pages == {c[i] : i \in before \union after}
                      \union (IF two THEN {at, other} ELSE {at})
           Places(p) == {i \in 1..size : c[i] = p}
           val == [p \in pages |->
                     IF p = at THEN fromAt
                     ELSE IF p = other THEN Then(FirstIn(f.pages[other].recs, key), end)
                     ELSE LET i == CHOOSE i \in before \union after : c[i] = p
                          IN  IF i < n THEN Then(FirstOf(first, i, n - 1), fromAt)
                              ELSE FirstOf(first, i, size)]
<1>1. /\ size \in Nat /\ n \in 1..size /\ m \in n..size
      /\ \A i \in 1..size : c[i] # 0
  BY LenProperties, ElementOfSeq DEF Around
<1>2. /\ \A i, j \in 1..size : c[i] = c[j] => i = j
      /\ \A i \in before \union after :
           /\ i \in 1..size /\ c[i] # at /\ c[i] # other /\ c[i] \in pages
           /\ f.pages[c[i]].next = IF i = size THEN 0 ELSE c[i + 1]
           /\ first[i] = FirstIn(f.pages[c[i]].recs, key)
  <2>1. \A i, j \in 1..size : c[i] = c[j] => i = j
    BY DEF Around
  <2> SUFFICES ASSUME NEW i \in before \union after
               PROVE  /\ i \in 1..size /\ c[i] # at /\ c[i] # other /\ c[i] \in pages
                      /\ f.pages[c[i]].next = IF i = size THEN 0 ELSE c[i + 1]
                      /\ first[i] = FirstIn(f.pages[c[i]].recs, key)
    BY <2>1
  <2>2. i \in 1..size /\ i # n /\ i \in (1..n) \union (m + 1..size)
    BY <1>1
  <2>3. c[i] # at /\ c[i] \in pages
    BY <1>1, <2>1, <2>2
  <2> HIDE DEF pages
  <2> QED BY <2>2, <2>3 DEF Around
<1>3. /\ at \in pages /\ val[at] = fromAt
      /\ two => other \in pages /\ other # at
      /\ other \in pages /\ other # at => val[other] = Then(FirstIn(f.pages[other].recs, key), end)
  BY <1>1 DEF Around
<1>4. /\ \A i \in before : val[c[i]] = Then(FirstOf(first, i, n - 1), fromAt)
      /\ \A i \in after : val[c[i]] = FirstOf(first, i, size)
  <2>1. ASSUME NEW i \in before \union after
        PROVE  val[c[i]] = IF i < n THEN Then(FirstOf(first, i, n - 1), fromAt)
                           ELSE FirstOf(first, i, size)
    <3> DEFINE k == CHOOSE k \in before \union after : c[k] = c[i]
    <3>1. k = i
      <4>1. k \in before \union after /\ c[k] = c[i]
        OBVIOUS
      <4> HIDE DEF k
      <4> QED BY <1>2, <4>1
    <3>2. val[c[i]] = IF k < n THEN Then(FirstOf(first, k, n - 1), fromAt)
                      ELSE FirstOf(first, k, size)
      <4> HIDE DEF pages
      <4> QED BY <1>2
    <3> HIDE DEF k, val
    <3> QED BY <3>1, <3>2
  <2> HIDE DEF val
  <2>2. \A i \in before : i < n
    BY <1>1
  <2>3. \A i \in after : ~ (i < n)
    BY <1>1
  <2> QED BY <2>1, <2>2, <2>3
<1>5. \A p \in pages : \/ p = at \/ (two /\ p = other)
                       \/ \E i \in before \union after : p = c[i]
  OBVIOUS
<1>6. exit = 0 \/ (exit \in pages /\ val[exit] = end)
  <2>1. CASE m # size
    <3>1. m + 1 \in after
      BY <1>1, <2>1
    <3> HIDE DEF pages, val
    <3> QED BY <1>2, <1>4, <2>1, <3>1
  <2> QED BY <2>1
<1>7. exit = 0 => end = {}
  <2>1. exit = 0 => m = size
    BY <1>1
  <2>2. m = size => m + 1 > size /\ m + 1 \in Nat
    BY <1>1
  <2> QED BY <1>1, <2>1, <2>2, FirstOfSteps
<1>8. /\ f.pages[at].next = exit => found = FirstIn(f.pages[at].recs, key)
                                      \/ (exit = other /\ other # 0)
      /\ two => /\ f.pages[at].next = other /\ other # 0 /\ f.pages[other].next = exit
                /\ found = Then(FirstIn(f.pages[at].recs, key), FirstIn(f.pages[other].recs, key))
  BY DEF Window, Exit
<1>9. ~ (exit = other /\ other # 0)
  <2>1. m # size => m + 1 \in after
    BY <1>1
  <2> HIDE DEF pages, val
  <2> QED BY <1>2, <2>1
<1> HIDE DEF val, pages
<1>10. Solves(f, key, pages, val)
  <2> SUFFICES ASSUME NEW p \in pages
               PROVE  /\ f.pages[p].next \in pages \union {0}
                      /\ val[p] = Then(FirstIn(f.pages[p].recs, key), Rest(f, val, p))
    BY DEF Solves
  <2>1. CASE p = at /\ ~ two
    <3> HIDE DEF exit, at, end
    <3> QED BY <1>3, <1>6, <1>7, <1>8, <1>9, <2>1 DEF Rest, Then
  <2>2. CASE p = at /\ two
    <3> HIDE DEF exit, at, end
    <3> QED BY <1>3, <1>6, <1>7, <1>8, <1>9, <2>2 DEF Rest, Then
  <2>3. CASE two /\ p = other
    <3> HIDE DEF exit, at, end
    <3> QED BY <1>3, <1>6, <1>7, <1>8, <1>9, <2>3 DEF Rest, Then
  <2>4. ASSUME NEW i \in before, p = c[i]
        PROVE  /\ f.pages[p].next \in pages \union {0}
               /\ val[p] = Then(FirstIn(f.pages[p].recs, key), Rest(f, val, p))
    <3>1. i \in Nat /\ n - 1 \in Nat /\ i <= n - 1 /\ i # size /\ i + 1 \in 1..size
      BY <1>1
    <3>2. f.pages[p].next = c[i + 1] /\ first[i] = FirstIn(f.pages[p].recs, key) /\ c[i + 1] # 0
      BY <1>1, <1>2, <2>4, <3>1
    <3>3. FirstOf(first, i, n - 1) = Then(first[i], FirstOf(first, i + 1, n - 1))
      BY <3>1, FirstOfSteps
    <3>4. c[i + 1] \in pages /\ val[c[i + 1]] = Then(FirstOf(first, i + 1, n - 1), fromAt)
      <4>1. CASE i + 1 = n
        <5>1. i + 1 > n - 1 /\ i + 1 \in Nat
          BY <3>1, <4>1
        <5>2. FirstOf(first, i + 1, n - 1) = {}
          BY <3>1, <5>1, FirstOfSteps
        <5> QED BY <1>3, <4>1, <5>2 DEF Then
      <4>2. CASE i + 1 # n
        <5>1. i + 1 \in before
          BY <1>1, <4>2
        <5> QED BY <1>2, <1>4, <5>1
      <4> QED BY <4>1, <4>2
    <3>5. val[p] = Then(FirstOf(first, i, n - 1), fromAt)
      BY <1>4, <2>4
    <3> HIDE DEF fromAt
    <3> QED BY <3>2, <3>3, <3>4, <3>5 DEF Rest, Then
  <2>5. ASSUME NEW i \in after, p = c[i]
        PROVE  /\ f.pages[p].next \in pages \union {0}
               /\ val[p] = Then(FirstIn(f.pages[p].recs, key), Rest(f, val, p))
    <3>1. i \in Nat /\ i <= size /\ i + 1 \in Nat
      BY <1>1
    <3>2. first[i] = FirstIn(f.pages[p].recs, key) /\ val[p] = FirstOf(first, i, size)
      BY <1>2, <1>4, <2>5
    <3>3. FirstOf(first, i, size) = Then(first[i], FirstOf(first, i + 1, size))
      BY <1>1, <3>1, FirstOfSteps
    <3>4. CASE i = size
      <4>1. FirstOf(first, i + 1, size) = {}
        <5>1. i + 1 \in Nat /\ size \in Nat /\ i + 1 > size
          BY <1>1, <3>1, <3>4
        <5> QED BY ONLY <5>1, FirstOfSteps
      <4>2. f.pages[p].next = 0
        BY <1>2, <2>5, <3>4
      <4> QED BY <3>2, <3>3, <4>1, <4>2 DEF Rest, Then
    <3>5. CASE i # size
      <4>1. i + 1 \in after /\ i + 1 \in 1..size
        BY <1>1, <3>5
      <4>2. f.pages[p].next = c[i + 1] /\ c[i + 1] # 0
        BY <1>1, <1>2, <2>5, <3>5, <4>1
      <4>3. c[i + 1] \in pages /\ val[c[i + 1]] = FirstOf(first, i + 1, size)
        BY <1>2, <1>4, <4>1
      <4> QED BY <3>2, <3>3, <4>2, <4>3 DEF Rest, Then
    <3> QED BY <3>4, <3>5
  <2> QED BY <1>5, <2>1, <2>2, <2>3, <2>4, <2>5
<1>11. c[1] \in pages /\ val[c[1]] = Then(FirstOf(first, 1, n - 1), fromAt)
  <2>1. CASE n = 1
    <3>1. FirstOf(first, 1, n - 1) = {}
      <4>1. 1 \in Nat /\ n - 1 \in Nat /\ 1 > n - 1
        BY <2>1
      <4> QED BY ONLY <4>1, FirstOfSteps
    <3> QED BY <1>3, <2>1, <3>1 DEF Then
  <2>2. CASE n # 1
    <3>1. 1 \in before
      BY <1>1, <2>2
    <3> QED BY <1>2, <1>4, <3>1
  <2> QED BY <2>1, <2>2
<1>12. Search(f, key) = val[c[1]]
  BY <1>10, <1>11, SearchSolved
<1> QED BY <1>11, <1>12 DEF Whole

\* What a call on a key does to the pages of its leaf: the window changes, and all the
\* other pages stay as they are.
Replaces(f, g, key, n, m, other) ==
  LET c == Chain(f, LeafOf(f, key))
  IN  /\ Kept(f) /\ Kept(g) /\ g.sep = f.sep
      /\ n \in 1..Len(c) /\ m \in n..Len(c)
      /\ \/ m = n /\ other \in Nat \ (0..Len(f.pages))
         \/ m = n + 1 /\ other = c[m]
      /\ \A p \in 1..Len(f.pages) : p # c[n] /\ p # other => g.pages[p] = f.pages[p]
      /\ \A i \in 1..Len(c) :
           i \notin n..m => FirstIn(f.pages[c[i]].recs, key) = {}

\* The tree is only looked at in the keys of its index pages.
LEMMA SameLeaf ==
  ASSUME NEW f, NEW g, g.sep = f.sep, NEW key
  PROVE  LeafOf(g, key) = LeafOf(f, key)
BY DEF LeafOf, Leaf

\* Another key of the leaf is found as before when it is found so in the window.
LEMMA SearchInLeaf ==
  ASSUME NEW f, NEW g, NEW key, NEW n, NEW m, NEW other, Replaces(f, g, key, n, m, other),
         NEW k, LeafOf(f, k) = LeafOf(f, key), NEW was, NEW now,
         LET c == Chain(f, LeafOf(f, key))
         IN  Window(f, c[n], other, Exit(c, m), k, was) /\ Window(g, c[n], other, Exit(c, m), k, now)
  PROVE  /\ was = now => Search(g, k) = Search(f, k)
         /\ k = key => Search(f, k) = was /\ Search(g, k) = now
<1> DEFINE leaf == LeafOf(f, key)
           c == Chain(f, leaf)
           size == Len(c)
           first == [i \in 1..size |-> FirstIn(f.pages[c[i]].recs, k)]
           rest == (1..n - 1) \union (m + 1..size)
<1>1. leaf \in 1..Leaves /\ Kept(f) /\ Kept(g) /\ LeafOf(g, k) = leaf /\ LeafOf(f, k) = leaf
  BY SearchIs, SameLeaf DEF Replaces
<1>2. /\ c \in Seq(1..Len(f.pages)) /\ size \in Nat \ {0} /\ c[1] = leaf
      /\ \A i \in 1..size :
           c[i] \in 1..Len(f.pages) /\ f.pages[c[i]].next = IF i = size THEN 0 ELSE c[i + 1]
      /\ \A i, j \in 1..size : c[i] = c[j] => i = j
  <2> HIDE DEF leaf
  <2> QED BY <1>1, LeafChain
<1>3. /\ n \in 1..size /\ m \in n..size
      /\ (m = n /\ other \in Nat \ (0..Len(f.pages))) \/ (m = n + 1 /\ other = c[m])
      /\ \A p \in 1..Len(f.pages) : p # c[n] /\ p # other => g.pages[p] = f.pages[p]
      /\ \A i \in 1..size : i \notin n..m => FirstIn(f.pages[c[i]].recs, key) = {}
  BY DEF Replaces
<1>4. Window(f, c[n], other, Exit(c, m), k, was) /\ Window(g, c[n], other, Exit(c, m), k, now)
  OBVIOUS
<1> HIDE DEF leaf, c
<1>5. c \in Seq(Nat \ {0})
  BY <1>2, LenProperties
<1>6. \A i \in (1..n) \union (m + 1..size) : other # c[i] /\ i \in 1..size
  <2>1. \A i \in (1..n) \union (m + 1..size) : i \in 1..size
    BY <1>2, <1>3
  <2>2. CASE m = n /\ other \in Nat \ (0..Len(f.pages))
    BY <1>2, <2>1, <2>2
  <2>3. CASE m = n + 1 /\ other = c[m]
    <3>1. m \in 1..size /\ \A i \in (1..n) \union (m + 1..size) : i # m
      BY <1>2, <1>3, <2>3
    <3> QED BY <1>2, <2>1, <2>3, <3>1
  <2> QED BY <1>3, <2>2, <2>3
<1>7. \A i \in rest : /\ i \in 1..size /\ i \notin n..m /\ c[i] # c[n] /\ c[i] # other
                      /\ first[i] = FirstIn(f.pages[c[i]].recs, k)
                      /\ g.pages[c[i]] = f.pages[c[i]]
  <2> TAKE i \in rest
  <2>1. i \in 1..size /\ i \notin n..m /\ i # n /\ i \in (1..n) \union (m + 1..size)
    BY <1>2, <1>3
  <2>2. c[i] # c[n] /\ c[i] # other /\ c[i] \in 1..Len(f.pages)
    BY <1>2, <1>3, <1>6, <2>1
  <2> QED BY <1>3, <2>1, <2>2
<1> HIDE DEF first
<1>8. Around(f, c, n, m, other, k, first) /\ Around(g, c, n, m, other, k, first)
  <2>1. \A i \in rest :
          /\ f.pages[c[i]].next = IF i = size THEN 0 ELSE c[i + 1]
          /\ g.pages[c[i]].next = IF i = size THEN 0 ELSE c[i + 1]
          /\ first[i] = FirstIn(f.pages[c[i]].recs, k)
          /\ first[i] = FirstIn(g.pages[c[i]].recs, k)
    BY <1>2, <1>7
  <2> QED BY <1>2, <1>3, <1>5, <1>6, <2>1 DEF Around
<1>9. /\ Search(f, k) = Whole(first, c, n, m, was)
      /\ Search(g, k) = Whole(first, c, n, m, now)
  <2>1. Search(f, k) = Whole(first, c, n, m, was)
    BY <1>1, <1>2, <1>4, <1>8, SearchAround
  <2>2. Search(g, k) = Whole(first, c, n, m, now)
    BY <1>1, <1>2, <1>4, <1>8, SearchAround
  <2> QED BY <2>1, <2>2
<1>10. ASSUME k = key
       PROVE  \A found : Whole(first, c, n, m, found) = found
  <2>1. \A i \in rest : first[i] = {}
    BY <1>3, <1>7, <1>10
  <2>2. FirstOf(first, 1, n - 1) = {} /\ FirstOf(first, m + 1, size) = {}
    <3>1. 1 \in Nat /\ n - 1 \in Nat /\ m + 1 \in Nat /\ size \in Nat
      BY <1>2, <1>3
    <3> QED BY <2>1, <3>1, FirstOfSteps
  <2> QED BY <2>2 DEF Then, Whole
<1> QED BY <1>9, <1>10

\* The keys of the other leaves are found as before.
LEMMA SearchElsewhere ==
  ASSUME NEW f, NEW g, NEW key, NEW n, NEW m, NEW other, Replaces(f, g, key, n, m, other),
         NEW k, LeafOf(f, k) # LeafOf(f, key)
  PROVE  Search(g, k) = Search(f, k)
<1> DEFINE leaf == LeafOf(f, k)
           home == LeafOf(f, key)
           c == Chain(f, leaf)
           d == Chain(f, home)
           size == Len(c)
           first == [i \in 1..size |-> FirstIn(f.pages[c[i]].recs, k)]
           new == Len(f.pages) + 1
<1>1. /\ leaf \in 1..Leaves /\ home \in 1..Leaves /\ Kept(f) /\ Kept(g) /\ LeafOf(g, k) = leaf
      /\ leaf # home /\ LeafOf(f, k) = leaf
  BY SearchIs, SameLeaf DEF Replaces
<1> HIDE DEF leaf, home
<1>2. /\ c \in Seq(1..Len(f.pages)) /\ size \in Nat \ {0} /\ c[1] = leaf
      /\ \A i \in 1..size :
           c[i] \in 1..Len(f.pages) /\ f.pages[c[i]].next = IF i = size THEN 0 ELSE c[i + 1]
      /\ \A i, j \in 1..size : c[i] = c[j] => i = j
      /\ \A i \in 1..size, j \in 1..Len(d) : c[i] # d[j]
  <2>1. LET cc == Chain(f, leaf)
        IN  /\ cc \in Seq(1..Len(f.pages)) /\ Len(cc) \in Nat \ {0} /\ cc[1] = leaf
            /\ \A i \in 1..Len(cc) :
                 /\ cc[i] \in 1..Len(f.pages)
                 /\ f.pages[cc[i]].next = IF i = Len(cc) THEN 0 ELSE cc[i + 1]
    BY <1>1, LeafChain
  <2>2. \A b \in 1..Leaves : \A i \in 1..Len(Chain(f, leaf)), j \in 1..Len(Chain(f, b)) :
          Chain(f, leaf)[i] = Chain(f, b)[j] => leaf = b /\ i = j
    BY <1>1, LeafChain
  <2> HIDE DEF c, d
  <2>3. \A b \in 1..Leaves : \A i \in 1..size, j \in 1..Len(Chain(f, b)) :
          c[i] = Chain(f, b)[j] => leaf = b /\ i = j
    BY <2>2 DEF c
  <2>4. \A i, j \in 1..size : c[i] = c[j] => i = j
    BY <1>1, <2>3 DEF c
  <2>5. \A i \in 1..size, j \in 1..Len(d) : c[i] # d[j]
    BY <1>1, <2>3 DEF d
  <2> QED BY <2>1, <2>4, <2>5 DEF c
<1>4. /\ n \in 1..Len(d) /\ m \in n..Len(d) /\ Len(d) \in Nat
      /\ (m = n /\ other \in Nat \ (0..Len(f.pages))) \/ (m = n + 1 /\ other = d[m])
      /\ \A p \in 1..Len(f.pages) : p # d[n] /\ p # other => g.pages[p] = f.pages[p]
  <2>1. Len(d) \in Nat
    BY <1>1, LeafChain
  <2> QED BY <2>1 DEF Replaces, home
<1> HIDE DEF c, d
<1>5. \A i \in 1..size : g.pages[c[i]] = f.pages[c[i]]
  <2> TAKE i \in 1..size
  <2>1. c[i] # d[n] /\ c[i] # other /\ c[i] \in 1..Len(f.pages)
    BY <1>2, <1>4
  <2> QED BY <1>4, <2>1
<1>6. c \in Seq(Nat \ {0})
  BY <1>2, LenProperties
<1>7. new \notin 1..Len(f.pages) /\ new # 0
  <2>1. Len(f.pages) \in Nat
    BY LenProperties, <1>1 DEF Kept, WellFormed, Files
  <2> QED BY <2>1
<1>8. \A i \in 1..size : first[i] = FirstIn(f.pages[c[i]].recs, k)
  OBVIOUS
<1> HIDE DEF first, new
<1> PICK x \in 1..size : TRUE
  BY <1>2
<1> DEFINE found == FirstIn(f.pages[c[x]].recs, k)
<1> HIDE DEF found
<1>9. Around(f, c, x, x, new, k, first) /\ Around(g, c, x, x, new, k, first)
  <2>1. x \in x..size /\ \A i \in (1..x) \union (x + 1..size) : i \in 1..size
    BY <1>2
  <2>2. \A i \in (1..x) \union (x + 1..size) : new # c[i]
    BY <1>2, <1>7, <2>1
  <2>3. \A i \in (1..x - 1) \union (x + 1..size) :
          /\ f.pages[c[i]].next = IF i = size THEN 0 ELSE c[i + 1]
          /\ g.pages[c[i]].next = IF i = size THEN 0 ELSE c[i + 1]
          /\ first[i] = FirstIn(f.pages[c[i]].recs, k)
          /\ first[i] = FirstIn(g.pages[c[i]].recs, k)
    <3>1. \A i \in (1..x - 1) \union (x + 1..size) : i \in 1..size
      BY <1>2
    <3> QED BY <1>2, <1>5, <1>8, <3>1
  <2> QED BY <1>2, <1>6, <2>1, <2>2, <2>3 DEF Around
<1>10. /\ Window(f, c[x], new, Exit(c, x), k, found)
       /\ Window(g, c[x], new, Exit(c, x), k, found)
  BY <1>2, <1>5 DEF Window, Exit, found
<1>11. Search(f, k) = Whole(first, c, x, x, found) /\ Search(g, k) = Whole(first, c, x, x, found)
  <2>1. Search(f, k) = Whole(first, c, x, x, found)
    <3>1. Kept(f)
      BY <1>1
    <3>2. Around(f, c, x, x, new, k, first)
      BY <1>9
    <3>3. c[1] = LeafOf(f, k)
      BY <1>1, <1>2
    <3>4. Window(f, c[x], new, Exit(c, x), k, found)
      BY <1>10
    <3> QED BY ONLY <3>1, <3>2, <3>3, <3>4, SearchAround
  <2>2. Search(g, k) = Whole(first, c, x, x, found)
    <3>1. Kept(g)
      BY <1>1
    <3>2. Around(g, c, x, x, new, k, first)
      BY <1>9
    <3>3. c[1] = LeafOf(g, k)
      BY <1>1, <1>2
    <3>4. Window(g, c[x], new, Exit(c, x), k, found)
      BY <1>10
    <3> QED BY ONLY <3>1, <3>2, <3>3, <3>4, SearchAround
  <2> QED BY <2>1, <2>2
<1> QED BY <1>11

\* A call on a key with what is found in the window before and after it.
Exchanges(f, g, key, n, m, other, was, now) ==
  LET c == Chain(f, LeafOf(f, key))
  IN  \A k \in Key : /\ Window(f, c[n], other, Exit(c, m), k, was[k])
                     /\ Window(g, c[n], other, Exit(c, m), k, now[k])
                     /\ k # key => was[k] = now[k]

\* Only the key of the call is found differently, and as the window tells.
LEMMA SearchReplaced ==
  ASSUME NEW f, NEW g, NEW key \in Key, NEW n, NEW m, NEW other,
         Replaces(f, g, key, n, m, other), NEW was, NEW now,
         Exchanges(f, g, key, n, m, other, was, now)
  PROVE  /\ Search(f, key) = was[key] /\ Search(g, key) = now[key]
         /\ \A k \in Key : k # key => Search(g, k) = Search(f, k)
<1> DEFINE c == Chain(f, LeafOf(f, key))
<1>1. \A k \in Key : /\ Window(f, c[n], other, Exit(c, m), k, was[k])
                     /\ Window(g, c[n], other, Exit(c, m), k, now[k])
                     /\ k # key => was[k] = now[k]
  BY DEF Exchanges
<1>2. \A k \in Key : LeafOf(f, k) = LeafOf(f, key) =>
        /\ was[k] = now[k] => Search(g, k) = Search(f, k)
        /\ k = key => Search(f, k) = was[k] /\ Search(g, k) = now[k]
  <2> TAKE k \in Key
  <2> HAVE LeafOf(f, k) = LeafOf(f, key)
  <2> DEFINE x == was[k]
             y == now[k]
  <2>1. LET d == Chain(f, LeafOf(f, key))
        IN  Window(f, d[n], other, Exit(d, m), k, x) /\ Window(g, d[n], other, Exit(d, m), k, y)
    BY <1>1
  <2> HIDE DEF x, y
  <2>2. /\ x = y => Search(g, k) = Search(f, k)
        /\ k = key => Search(f, k) = x /\ Search(g, k) = y
    BY <2>1, SearchInLeaf
  <2> QED BY <2>2 DEF x, y
<1>3. \A k \in Key : LeafOf(f, k) # LeafOf(f, key) => Search(g, k) = Search(f, k)
  BY SearchElsewhere
<1> HIDE DEF c
<1> QED BY <1>1, <1>2, <1>3

-----------------------------------------------------------------------------
(* add and remove.                                                          *)

\* The part of InReach that is about the pages of the key.
Reached(f, key) ==
  LET chain == Chain(f, LeafOf(f, key))
      stop == StopAt(f, chain, key)
      same(i) == LET recs == f.pages[chain[i]].recs
                 IN  {j \in DOMAIN recs : recs[j].key = key}
  IN  /\ IsEmpty(f.pages[Head(chain)]) => Len(chain) = 1
      /\ \A i \in DOMAIN chain : same(i) = {} \/ (i = stop /\ Cardinality(same(i)) = 1)

\* The call stops at the page with the only record of the key, if there is one.
CallStops(f, key) ==
  LET c == Chain(f, LeafOf(f, key))
      stop == StopAt(f, c, key)
  IN  /\ c \in Seq(1..Len(f.pages)) /\ Len(c) \in Nat \ {0} /\ stop \in 0..Len(c)
      /\ Head(c) = c[1] /\ Last(c) = c[Len(c)] /\ c[1] \in 1..Leaves
      /\ \A i \in 1..Len(c) :
           /\ c[i] \in 1..Len(f.pages) /\ f.pages[c[i]] \in DataPage
           /\ f.pages[c[i]].next = IF i = Len(c) THEN 0 ELSE c[i + 1]
           /\ f.pages[c[i]].recs = <<>> => i = 1 /\ Len(c) = 1
           /\ i # stop => FirstIn(f.pages[c[i]].recs, key) = {}
           /\ \A j, k \in 1..Len(f.pages[c[i]].recs) :
                f.pages[c[i]].recs[j].key = key /\ f.pages[c[i]].recs[k].key = key => j = k
      /\ \A i, j \in 1..Len(c) : c[i] = c[j] => i = j

\* So it does in every file whose chains are kept and that the call is careful with.
LEMMA ReachedFacts ==
  ASSUME NEW f, Kept(f), NEW key, Reached(f, key)
  PROVE  CallStops(f, key)
<1> DEFINE leaf == LeafOf(f, key)
           c == Chain(f, leaf)
           stop == StopAt(f, c, key)
           Of(i) == f.pages[c[i]].recs
           Same(i) == {j \in DOMAIN Of(i) : Of(i)[j].key = key}
<1>1. /\ IsEmpty(f.pages[Head(c)]) => Len(c) = 1
      /\ \A i \in DOMAIN c : Same(i) = {} \/ (i = stop /\ Cardinality(Same(i)) = 1)
  BY DEF Reached
<1>2. leaf \in 1..Leaves
  BY SearchIs
<1>3. Head(c) = c[1] /\ Last(c) = c[Len(c)] /\ c[1] \in 1..Leaves /\ stop \in 0..Len(c)
  <2>1. PICK linked : LinkedBy(f, linked)
    BY DEF Kept, Linked
  <2>2. WellFormed(f)
    BY DEF Kept
  <2> QED BY <2>1, <2>2, ChainOfKey
<1> HIDE DEF leaf
<1>4. /\ c \in Seq(1..Len(f.pages)) /\ Len(c) \in Nat \ {0}
      /\ \A i \in 1..Len(c) :
           /\ c[i] \in 1..Len(f.pages) /\ f.pages[c[i]] \in DataPage
           /\ f.pages[c[i]].next = IF i = Len(c) THEN 0 ELSE c[i + 1]
           /\ i > 1 => c[i] \notin 1..Leaves
      /\ \A i, j \in 1..Len(c) : c[i] = c[j] => i = j
  BY <1>2, LeafChain
<1> HIDE DEF c, stop
<1>5. DOMAIN c = 1..Len(c)
  BY <1>4, LenProperties
<1>6. ASSUME NEW i \in 1..Len(c)
      PROVE  /\ Of(i) = <<>> => i = 1 /\ Len(c) = 1
             /\ i # stop => FirstIn(Of(i), key) = {}
             /\ \A j, k \in 1..Len(Of(i)) :
                  Of(i)[j].key = key /\ Of(i)[k].key = key => j = k
  <2>1. Of(i) \in Seq(Record) /\ DOMAIN Of(i) = 1..Len(Of(i)) /\ Len(Of(i)) \in Nat
    BY <1>4, PageFields, LenProperties
  <2>2. Of(i) = <<>> => i = 1 /\ Len(c) = 1
    <3>1. CASE i > 1
      <4> DEFINE q == c[i]
      <4>1. q \in 1..Len(f.pages) /\ q > Leaves
        BY <1>4, <3>1, LeavesPositive
      <4> HIDE DEF q
      <4>2. f.pages[q].recs # <<>>
        BY <4>1 DEF Kept, WellFormed
      <4> QED BY <4>2 DEF q
    <3>2. CASE ~ (i > 1)
      <4>1. i = 1
        BY <3>2
      <4> QED BY <1>1, <1>3, <4>1 DEF IsEmpty
    <3> QED BY <3>1, <3>2
  <2>3. i # stop => FirstIn(Of(i), key) = {}
    <3>1. i # stop => Same(i) = {}
      BY <1>1, <1>5
    <3> HIDE DEF Of
    <3> QED BY <3>1 DEF FirstIn
  <2>4. ASSUME NEW j \in 1..Len(Of(i)), NEW k \in 1..Len(Of(i)),
               Of(i)[j].key = key, Of(i)[k].key = key
        PROVE  j = k
    <3>1. j \in Same(i) /\ k \in Same(i)
      BY <2>1, <2>4
    <3>2. Cardinality(Same(i)) = 1
      BY <1>1, <1>5, <3>1
    <3>3. IsFiniteSet(Same(i))
      <4> DEFINE count == Len(Of(i))
      <4>1. IsFiniteSet(1..count)
        <5>1. 1 \in Int /\ count \in Int
          BY <2>1
        <5> HIDE DEF count
        <5> QED BY ONLY <5>1, FS_Interval
      <4>2. Same(i) \in SUBSET (1..Len(Of(i)))
        BY <2>1
      <4> HIDE DEF Same
      <4> QED BY <4>1, <4>2, FS_Subset
    <3> HIDE DEF Same
    <3>4. \E x : Same(i) = {x}
      BY <3>2, <3>3, FS_Singleton
    <3> QED BY <3>1, <3>4
  <2> QED BY <2>2, <2>3, <2>4
<1> QED BY <1>3, <1>4, <1>6 DEF CallStops, c, stop, leaf

\* What a page has after a record has come in, or has become larger, and after a full
\* page has been split for it.
LEMMA InsertHas ==
  ASSUME NEW page \in DataPage, ~ IsFull(page), NEW rec \in Record, NEW above
  PROVE  LET new == InsertRecord(page, rec, above)
         IN  /\ new \in DataPage /\ new.next = page.next
             /\ \A k : k # rec.key => FirstIn(new.recs, k) = FirstIn(page.recs, k)
             /\ FirstIn(page.recs, rec.key) = {} => FirstIn(new.recs, rec.key) = rec.raws
<1> DEFINE new == InsertRecord(page, rec, above)
           recs == page.recs
<1>1. recs \in Seq(Record)
  BY PageFields
<1>2. /\ new \in DataPage /\ new.next = page.next
      /\ \E place \in 1..Len(page.recs) + 1 : new.recs = InsertAt(page.recs, place, rec)
  BY RecordInserted
<1>3. PICK place \in 1..Len(recs) + 1 : new.recs = InsertAt(recs, place, rec)
  BY <1>2
<1> HIDE DEF new, recs
<1>4. \A k : /\ k # rec.key => FirstIn(InsertAt(recs, place, rec), k) = FirstIn(recs, k)
             /\ k = rec.key /\ FirstIn(recs, k) = {}
                  => FirstIn(InsertAt(recs, place, rec), k) = rec.raws
  BY <1>1, FirstInInsert
<1> QED BY <1>2, <1>3, <1>4 DEF new, recs

\* The halves of a full page, the lower of which leads to `next'.
LowerHalf(page, next) ==
  [recs |-> SubSeq(page.recs, 1, N \div 2), spare |-> Slots(N - N \div 2, -1), next |-> next]
UpperHalf(page) ==
  Holding(page, SubSeq(page.recs, N \div 2 + 1, N), Slots(N \div 2, Unset))

\* The record comes into one of them.
Halves(page, rec, above, next, low, high) ==
  \/ low = InsertRecord(LowerHalf(page, next), rec, above) /\ high = UpperHalf(page)
  \/ low = LowerHalf(page, next) /\ high = InsertRecord(UpperHalf(page), rec, above)

\* They lead from where the page did to where it did, and have what it had.
HalvesHave(page, rec, next, low, high) ==
  /\ low \in DataPage /\ high \in DataPage /\ low.next = next /\ high.next = page.next
  /\ \A k : k # rec.key => Then(FirstIn(low.recs, k), FirstIn(high.recs, k))
                             = FirstIn(page.recs, k)
  /\ FirstIn(page.recs, rec.key) = {}
       => Then(FirstIn(low.recs, rec.key), FirstIn(high.recs, rec.key)) = rec.raws

\* Together the halves of a page have what it had, and the new record.
LEMMA SplitHas ==
  ASSUME NEW page \in DataPage, IsFull(page), NEW rec \in Record, NEW above, NEW next \in Nat,
         NEW low, NEW high,
         Halves(page, rec, above, next, low, high)
  PROVE  HalvesHave(page, rec, next, low, high)
<1> DEFINE half == N \div 2
           lower == [recs |-> SubSeq(page.recs, 1, half), spare |-> Slots(N - half, -1),
                     next |-> next]
           upper == Holding(page, SubSeq(page.recs, half + 1, N), Slots(half, Unset))
<1>0. \/ low = InsertRecord(lower, rec, above) /\ high = upper
      \/ low = lower /\ high = InsertRecord(upper, rec, above)
  BY DEF Halves, LowerHalf, UpperHalf
<1>1. /\ lower \in DataPage /\ ~ IsFull(lower) /\ upper \in DataPage /\ ~ IsFull(upper)
      /\ lower.next = next /\ upper.next = page.next
  BY HalvesMade DEF Holding
<1>2. /\ lower.recs \in Seq(Record) /\ upper.recs \in Seq(Record)
      /\ page.recs = lower.recs \o upper.recs
  <2>1. page.recs \in Seq(Record) /\ Len(page.recs) = N /\ half \in 0..N
    <3>1. N \in Nat
      BY IsamIndexAssumption
    <3>2. half \in 0..N
      BY <3>1
    <3> QED BY <3>2, PageFields DEF IsFull
  <2>2. lower.recs = SubSeq(page.recs, 1, half)
    OBVIOUS
  <2>3. upper.recs = SubSeq(page.recs, half + 1, Len(page.recs))
    BY <2>1 DEF Holding
  <2> HIDE DEF lower, upper, half
  <2> QED BY <2>1, <2>2, <2>3, Parted
<1> HIDE DEF lower, upper
<1>3. \A k : FirstIn(page.recs, k) = Then(FirstIn(lower.recs, k), FirstIn(upper.recs, k))
  BY <1>2, FirstInConcat
<1>4. LET new == InsertRecord(lower, rec, above)
      IN  /\ new \in DataPage /\ new.next = next
          /\ \A k : k # rec.key => FirstIn(new.recs, k) = FirstIn(lower.recs, k)
          /\ FirstIn(lower.recs, rec.key) = {} => FirstIn(new.recs, rec.key) = rec.raws
  BY <1>1, InsertHas
<1>5. LET new == InsertRecord(upper, rec, above)
      IN  /\ new \in DataPage /\ new.next = page.next
          /\ \A k : k # rec.key => FirstIn(new.recs, k) = FirstIn(upper.recs, k)
          /\ FirstIn(upper.recs, rec.key) = {} => FirstIn(new.recs, rec.key) = rec.raws
  BY <1>1, InsertHas
<1>6. rec.raws # {}
  BY RecordFields
<1> DEFINE Has(k) == Then(FirstIn(low.recs, k), FirstIn(high.recs, k))
<1>7. /\ low \in DataPage /\ high \in DataPage /\ low.next = next /\ high.next = page.next
      /\ \A k : k # rec.key => Has(k) = FirstIn(page.recs, k)
      /\ FirstIn(page.recs, rec.key) = {} => Has(rec.key) = rec.raws
  <2>1. CASE low = InsertRecord(lower, rec, above) /\ high = upper
    BY <1>1, <1>3, <1>4, <1>6, <2>1 DEF Then
  <2>2. CASE low = lower /\ high = InsertRecord(upper, rec, above)
    BY <1>1, <1>3, <1>5, <1>6, <2>2 DEF Then
  <2> QED BY <1>0, <2>1, <2>2
<1> QED BY <1>7 DEF HalvesHave

\* A record that becomes larger is found with its new positions.
LEMMA ChangedHas ==
  ASSUME NEW page \in DataPage, NEW rec \in Record, NEW i \in 1..Len(page.recs),
         page.recs[i].key = rec.key,
         \A j \in 1..Len(page.recs) : page.recs[j].key = rec.key => i <= j
  PROVE  LET new == [page EXCEPT !.recs[i].raws = @ \union rec.raws]
         IN  /\ new \in DataPage /\ new.next = page.next
             /\ \A k : k # rec.key => FirstIn(new.recs, k) = FirstIn(page.recs, k)
             /\ FirstIn(new.recs, rec.key) = FirstIn(page.recs, rec.key) \union rec.raws
<1> DEFINE new == [page EXCEPT !.recs[i].raws = @ \union rec.raws]
           s == page.recs
           old == s[i]
           both == [old EXCEPT !.raws = @ \union rec.raws]
           r == [s EXCEPT ![i] = both]
           spare == page.spare
<1>1. /\ s \in Seq(Record) /\ spare \in Seq(Stale) /\ Len(s) + Len(spare) = N
      /\ page.next \in Nat /\ Len(s) \in Nat
  BY PageFields
<1>2. /\ old \in Record /\ old.key = rec.key
      /\ i \in 1..Len(s) /\ \A j \in 1..Len(s) : s[j].key = s[i].key => i <= j
  <2>1. old \in Record
    <3> HIDE DEF Record
    <3> QED BY <1>1, ElementOfSeq
  <2> HIDE DEF Record
  <2> QED BY <2>1
<1>3. both \in Record /\ both.key = old.key /\ both.raws = old.raws \union rec.raws
  <2> HIDE DEF old
  <2>1. old \in Record /\ rec \in Record
    BY <1>2
  <2> QED BY ONLY <2>1 DEF Record
<1>4. new = Holding(page, r, spare)
  <2>1. page = [recs |-> page.recs, spare |-> page.spare, next |-> page.next]
    BY DEF DataPage
  <2>2. new = [page EXCEPT !.recs = r]
    OBVIOUS
  <2> HIDE DEF new, r
  <2>3. [page EXCEPT !.recs = r] = [recs |-> r, spare |-> page.spare, next |-> page.next]
    BY <2>1
  <2> QED BY <2>2, <2>3 DEF Holding
<1> HIDE DEF new, Record, old, both
<1>5. /\ r \in Seq(Record) /\ Len(r) = Len(s) /\ r[i] = both
      /\ \A j \in 1..Len(s) : j # i => r[j] = s[j]
  <2>1. r \in Seq(Record) /\ Len(r) = Len(s)
    <3>1. s \in Seq(Record) /\ i \in 1..Len(s) /\ both \in Record
      BY <1>1, <1>2, <1>3
    <3> HIDE DEF s
    <3> QED BY ONLY <3>1, ExceptSeq
  <2>2. i \in DOMAIN s /\ \A j \in 1..Len(s) : j \in DOMAIN s
    BY <1>1, <1>2, LenProperties
  <2> HIDE DEF s
  <2> QED BY <2>1, <2>2
<1> HIDE DEF r, s, spare
<1>6. new \in DataPage /\ new.next = page.next /\ new.recs = r
  <2>1. /\ page \in DataPage /\ r \in Seq(Record) /\ spare \in Seq(Stale)
        /\ Len(r) + Len(spare) = N
    BY <1>1, <1>5
  <2> QED BY ONLY <1>4, <2>1, PageHolding
<1>7. /\ FirstIn(s, s[i].key) = s[i].raws /\ FirstIn(r, s[i].key) = r[i].raws
      /\ \A k : k # s[i].key => FirstIn(r, k) = FirstIn(s, k)
  <2>1. r[i].key = s[i].key
    BY <1>3, <1>5 DEF old
  <2>2. /\ s \in Seq(Record) /\ r \in Seq(Record) /\ Len(r) = Len(s) /\ i \in 1..Len(s)
        /\ \A j \in 1..Len(s) : j # i => r[j] = s[j]
        /\ r[i].key = s[i].key
        /\ \A j \in 1..Len(s) : s[j].key = s[i].key => i <= j
    BY <1>1, <1>2, <1>5, <2>1
  <2> QED BY ONLY <2>2, FirstInChanged
<1> QED BY <1>2, <1>3, <1>5, <1>6, <1>7 DEF new, s, old

\* An add that is in reach gives its key the new position, and no other key anything.
LEMMA AddSearch ==
  ASSUME NEW f, Kept(f), NEW rec \in Record, NEW above, Reached(f, rec.key)
  PROVE  LET g == Add(f, rec, above)
         IN  /\ Search(g, rec.key) = Search(f, rec.key) \union rec.raws
             /\ \A k \in Key : k # rec.key => Search(g, k) = Search(f, k)
<1> DEFINE key == rec.key
           c == Chain(f, LeafOf(f, key))
           stop == StopAt(f, c, key)
           n == IF stop = 0 THEN Len(c) ELSE stop
           at == c[n]
           page == f.pages[at]
           same == {i \in DOMAIN page.recs : page.recs[i].key = key}
           other == Len(f.pages) + 1
           was == [k \in Key |-> FirstIn(page.recs, k)]
           now == [k \in Key |-> IF k = key THEN was[key] \union rec.raws ELSE was[k]]
           exit == Exit(c, n)
           Goal(g) == /\ Search(g, key) = Search(f, key) \union rec.raws
                      /\ \A k \in Key : k # key => Search(g, k) = Search(f, k)
<1>1. key \in Key
  BY RecordFields
<1>2. /\ c \in Seq(1..Len(f.pages)) /\ Len(c) \in Nat \ {0} /\ stop \in 0..Len(c)
      /\ Last(c) = c[Len(c)]
      /\ \A i \in 1..Len(c) :
           /\ c[i] \in 1..Len(f.pages) /\ f.pages[c[i]] \in DataPage
           /\ f.pages[c[i]].next = IF i = Len(c) THEN 0 ELSE c[i + 1]
           /\ f.pages[c[i]].recs = <<>> => i = 1 /\ Len(c) = 1
           /\ i # stop => FirstIn(f.pages[c[i]].recs, key) = {}
           /\ \A j, k \in 1..Len(f.pages[c[i]].recs) :
                f.pages[c[i]].recs[j].key = key /\ f.pages[c[i]].recs[k].key = key => j = k
  <2>1. CallStops(f, key)
    BY ReachedFacts
  <2> QED BY ONLY <2>1 DEF CallStops
<1>3. Add(f, rec, above) =
        LET where == IF stop = 0 THEN Last(c) ELSE c[stop]
            held == f.pages[where]
            equal == {i \in DOMAIN held.recs : held.recs[i].key = key}
        IN  CASE stop # 0 /\ equal # {} ->
                   Write(f, where, [held EXCEPT !.recs[Min(equal)].raws = @ \union rec.raws])
              [] stop # 0 /\ equal = {} /\ IsFull(held) -> SplitAndInsert(f, where, rec, above)
              [] IsEmpty(held) \/ (stop = 0 /\ IsFull(held)) -> NewPage(f, where, rec)
              [] OTHER -> Write(f, where, InsertRecord(held, rec, above))
  BY DEF Add
<1> HIDE DEF c, stop
<1>4. n \in 1..Len(c) /\ at = IF stop = 0 THEN Last(c) ELSE c[stop]
  BY <1>2
<1>5. Add(f, rec, above) =
        CASE stop # 0 /\ same # {} ->
               Write(f, at, [page EXCEPT !.recs[Min(same)].raws = @ \union rec.raws])
          [] stop # 0 /\ same = {} /\ IsFull(page) -> SplitAndInsert(f, at, rec, above)
          [] IsEmpty(page) \/ (stop = 0 /\ IsFull(page)) -> NewPage(f, at, rec)
          [] OTHER -> Write(f, at, InsertRecord(page, rec, above))
  <2> HIDE DEF at
  <2> QED BY <1>3, <1>4
<1>6. /\ at \in 1..Len(f.pages) /\ page \in DataPage /\ page.next = exit
      /\ page.recs = <<>> => n = Len(c)
      /\ n # stop => FirstIn(page.recs, key) = {}
      /\ \A j, k \in 1..Len(page.recs) :
           page.recs[j].key = key /\ page.recs[k].key = key => j = k
      /\ n = Len(c) => exit = 0
  <2> HIDE DEF n
  <2> QED BY <1>2, <1>4 DEF Exit
<1>7. f \in Files /\ Len(f.pages) \in Nat /\ other \in Nat \ (0..Len(f.pages)) /\ other # at
      /\ other # 0
  <2>1. f \in Files /\ Len(f.pages) \in Nat
    BY LenProperties DEF Kept, WellFormed, Files
  <2> DEFINE many == Len(f.pages)
             beyond == Nat \ (0..many)
  <2>2. at \in 1..many
    BY <1>6
  <2>3. other \in beyond
    BY <2>1
  <2> HIDE DEF at, other
  <2>4. many \in Nat
    BY <2>1
  <2> HIDE DEF many
  <2>5. other # at /\ other # 0
    BY ONLY <2>2, <2>3, <2>4 DEF beyond
  <2> QED BY ONLY <2>1, <2>3, <2>5 DEF beyond, many
<1>8. \A i \in 1..Len(c) : i \notin n..n => FirstIn(f.pages[c[i]].recs, key) = {}
  <2>1. \A i \in 1..Len(c) : i \notin n..n => i # stop
    BY <1>2, <1>4
  <2> QED BY <1>2, <2>1
<1>9. stop = 0 => n = Len(c) /\ n # stop
  BY <1>2
<1>10. same = {} => FirstIn(page.recs, key) = {}
  BY DEF FirstIn
<1>11. was[key] = FirstIn(page.recs, key)
  BY <1>1
<1>12. \A k \in Key : was[k] = FirstIn(page.recs, k)
  OBVIOUS
<1>13. /\ now[key] = was[key] \union rec.raws
       /\ \A k \in Key : k # key => now[k] = was[k]
  BY <1>1
<1> HIDE DEF n, at, page, same, other, was, now, exit, key
<1>14. ASSUME NEW g, Kept(g), g.sep = f.sep,
              \A p \in 1..Len(f.pages) : p # at => g.pages[p] = f.pages[p],
              \A k \in Key : Window(g, at, other, exit, k, now[k])
       PROVE  Goal(g)
  <2>1. Replaces(f, g, key, n, n, other)
    <3>1. n \in n..Len(c)
      BY <1>2, <1>4
    <3> QED BY <1>4, <1>7, <1>8, <1>14, <3>1 DEF Replaces, c, at, other
  <2>2. \A k \in Key : Window(f, at, other, exit, k, was[k])
    BY <1>6, <1>12 DEF Window, page
  <2>3. Exchanges(f, g, key, n, n, other, was, now)
    BY <1>13, <1>14, <2>2 DEF Exchanges, c, at, exit
  <2>4. /\ Search(f, key) = was[key] /\ Search(g, key) = now[key]
        /\ \A k \in Key : k # key => Search(g, k) = Search(f, k)
    BY ONLY <1>1, <2>1, <2>3, SearchReplaced
  <2> QED BY <1>13, <2>4
<1> HIDE DEF Goal
<1>15. Kept(Add(f, rec, above))
  BY AddKeeps
<1> DEFINE Inserts(new) ==
             /\ new \in DataPage /\ new.next = exit
             /\ \A k : k # key => FirstIn(new.recs, k) = FirstIn(page.recs, k)
             /\ FirstIn(new.recs, key) = FirstIn(page.recs, key) \union rec.raws
<1>16. ASSUME NEW new, Inserts(new), Add(f, rec, above) = Write(f, at, new)
       PROVE  Goal(Add(f, rec, above))
  <2> DEFINE g == Write(f, at, new)
  <2>1. /\ g.sep = f.sep
        /\ \A i \in 1..Len(f.pages) : g.pages[i] = IF i = at THEN new ELSE f.pages[i]
    BY <1>6, <1>7, <1>16, WriteFacts, SepKept
  <2>2. Kept(g)
    BY <1>15, <1>16
  <2> HIDE DEF g
  <2>3. \A k \in Key : now[k] = FirstIn(new.recs, k)
    BY <1>1, <1>11, <1>12, <1>13, <1>16
  <2>4. g.pages[at] = new
    BY <1>6, <2>1
  <2>5. \A k \in Key : Window(g, at, other, exit, k, now[k])
    BY <1>16, <2>3, <2>4 DEF Window
  <2>6. Goal(g)
    BY <1>14, <2>1, <2>2, <2>5
  <2> QED BY <1>16, <2>6 DEF g
<1>17. ASSUME NEW low \in DataPage, NEW high \in DataPage, low.next = other, high.next = exit,
              FirstIn(page.recs, key) = {},
              \A k : k # key => Then(FirstIn(low.recs, k), FirstIn(high.recs, k))
                                  = FirstIn(page.recs, k),
              Then(FirstIn(low.recs, key), FirstIn(high.recs, key)) = rec.raws,
              Add(f, rec, above) = Write(WriteAtEnd(f, high), at, low)
       PROVE  Goal(Add(f, rec, above))
  <2> DEFINE e == WriteAtEnd(f, high)
             g == Write(e, at, low)
  <2>1. /\ e \in Files /\ Len(e.pages) = other /\ e.sep = f.sep /\ e.pages[other] = high
        /\ \A i \in 1..Len(f.pages) : e.pages[i] = f.pages[i]
    BY <1>7, WriteAtEndFacts, SepKept DEF other
  <2>2. at \in 1..Len(e.pages) /\ other \in 1..other /\ \A i \in 1..Len(f.pages) : i \in 1..other
    BY <1>6, <1>7, <2>1 DEF other
  <2> HIDE DEF e
  <2>3. /\ g.sep = e.sep
        /\ \A i \in 1..Len(e.pages) : g.pages[i] = IF i = at THEN low ELSE e.pages[i]
    BY <2>1, <2>2, WriteFacts, SepKept
  <2>4. Kept(g)
    BY <1>15, <1>17 DEF e
  <2> HIDE DEF g
  <2>5. /\ g.sep = f.sep /\ g.pages[at] = low /\ g.pages[other] = high
        /\ \A p \in 1..Len(f.pages) : p # at => g.pages[p] = f.pages[p]
    BY <1>7, <2>1, <2>2, <2>3
  <2>6. \A k \in Key : now[k] = Then(FirstIn(low.recs, k), FirstIn(high.recs, k))
    <3> TAKE k \in Key
    <3>1. CASE k = key
      BY <1>11, <1>13, <1>17, <3>1
    <3>2. CASE k # key
      BY <1>12, <1>13, <1>17, <3>2
    <3> QED BY <3>1, <3>2
  <2>7. \A k \in Key : Window(g, at, other, exit, k, now[k])
    BY <1>7, <1>17, <2>5, <2>6 DEF Window
  <2>8. Goal(g)
    BY <1>14, <2>4, <2>5, <2>7
  <2> QED BY <1>17, <2>8 DEF g, e
<1> SUFFICES Goal(Add(f, rec, above))
  BY DEF Goal, key
<1>18. CASE stop # 0 /\ same # {}
  <2> DEFINE i == Min(same)
             new == [page EXCEPT !.recs[i].raws = @ \union rec.raws]
  <2>1. i \in 1..Len(page.recs) /\ page.recs[i].key = rec.key
        /\ \A j \in 1..Len(page.recs) : page.recs[j].key = rec.key => i <= j
    <3>1. page.recs \in Seq(Record) /\ Len(page.recs) \in Nat
      BY <1>6, PageFields
    <3>2. DOMAIN page.recs = 1..Len(page.recs)
      BY <3>1, LenProperties
    <3>3. same = {j \in 1..Len(page.recs) : page.recs[j].key = rec.key}
      BY <3>2 DEF same, key
    <3>4. same \subseteq Nat
      BY <3>1, <3>3
    <3>5. i \in same /\ \A j \in same : i <= j
      BY <1>18, <3>4, MinIsLeast
    <3> HIDE DEF i
    <3> QED BY <3>3, <3>5
  <2>2. Add(f, rec, above) = Write(f, at, new)
    <3>1. ~ (page.recs = <<>>)
      <4>1. Len(page.recs) # 0
        BY <2>1, <1>6, PageFields
      <4> QED BY <4>1, EmptySeq
    <3> HIDE DEF i
    <3> QED BY <1>5, <1>18, <3>1 DEF i, IsEmpty
  <2> HIDE DEF i
  <2>3. /\ new \in DataPage /\ new.next = page.next
        /\ \A k : k # rec.key => FirstIn(new.recs, k) = FirstIn(page.recs, k)
        /\ FirstIn(new.recs, rec.key) = FirstIn(page.recs, rec.key) \union rec.raws
    <3>1. page \in DataPage
      BY <1>6
    <3> QED BY ONLY <2>1, <3>1, ChangedHas
  <2> HIDE DEF new
  <2> QED BY <1>6, <1>16, <2>2, <2>3 DEF key
<1>19. CASE ~ (stop # 0 /\ same # {})
  <2>1. FirstIn(page.recs, key) = {}
    BY <1>6, <1>9, <1>10, <1>19
  <2>2. CASE stop # 0 /\ same = {} /\ IsFull(page)
    <3>1. Add(f, rec, above) = SplitAndInsert(f, at, rec, above)
      <4>1. ~ IsEmpty(page)
        BY <2>2, EmptySeq, IsamIndexAssumption DEF IsEmpty, IsFull
      <4> QED BY <1>5, <1>19, <2>2, <4>1
    <3> DEFINE index == Max({i \in 0..N - 1 : i = 0 \/ rec.key >= page.recs[i + 1].key})
               low == IF index < N \div 2 THEN InsertRecord(LowerHalf(page, other), rec, above)
                      ELSE LowerHalf(page, other)
               high == IF index < N \div 2 THEN UpperHalf(page)
                       ELSE InsertRecord(UpperHalf(page), rec, above)
    <3>2. SplitAndInsert(f, at, rec, above) = Write(WriteAtEnd(f, high), at, low)
      BY DEF SplitAndInsert, LowerHalf, UpperHalf, page, other
    <3> HIDE DEF index
    <3>4. Halves(page, rec, above, other, low, high)
      <4>1. CASE index < N \div 2
        BY <4>1 DEF Halves
      <4>2. CASE ~ (index < N \div 2)
        BY <4>2 DEF Halves
      <4> QED BY <4>1, <4>2
    <3> HIDE DEF low, high
    <3>3. /\ low \in DataPage /\ high \in DataPage /\ low.next = other /\ high.next = page.next
          /\ \A k : k # rec.key => Then(FirstIn(low.recs, k), FirstIn(high.recs, k))
                                     = FirstIn(page.recs, k)
          /\ FirstIn(page.recs, rec.key) = {}
               => Then(FirstIn(low.recs, rec.key), FirstIn(high.recs, rec.key)) = rec.raws
      <4>1. page \in DataPage /\ IsFull(page) /\ other \in Nat /\ rec \in Record
        BY <1>6, <1>7, <2>2
      <4>2. HalvesHave(page, rec, other, low, high)
        BY ONLY <3>4, <4>1, SplitHas
      <4> QED BY ONLY <4>2 DEF HalvesHave
    <3> QED BY <1>6, <1>17, <2>1, <3>1, <3>2, <3>3 DEF key
  <2>3. CASE ~ (stop # 0 /\ same = {} /\ IsFull(page))
             /\ (IsEmpty(page) \/ (stop = 0 /\ IsFull(page)))
    <3>1. Add(f, rec, above) = NewPage(f, at, rec)
      BY <1>5, <1>19, <2>3
    <3> DEFINE low == [page EXCEPT !.next = other]
               high == [recs |-> <<rec>>, spare |-> Slots(N - 1, Unset), next |-> 0]
    <3>2. NewPage(f, at, rec) = Write(WriteAtEnd(f, high), at, low)
      BY DEF NewPage, page, other
    <3>3. low \in DataPage /\ low.next = other /\ low.recs = page.recs
      <4>1. page \in DataPage /\ other \in Nat
        BY <1>6, <1>7
      <4> QED BY ONLY <4>1, PagePointing
    <3>4. high \in DataPage /\ high.next = 0 /\ high.recs = <<rec>>
      <4>1. N - 1 \in Nat /\ Unset \in Stale
        BY IsamIndexAssumption DEF Stale
      <4>2. /\ Slots(N - 1, Unset) \in Seq(Stale) /\ Len(Slots(N - 1, Unset)) = N - 1
        BY <4>1, SlotsMade
      <4>3. <<rec>> \in Seq(Record) /\ Len(<<rec>>) = 1
        BY FirstInOne
      <4>4. Len(<<rec>>) + Len(Slots(N - 1, Unset)) = N
        BY <4>2, <4>3, IsamIndexAssumption
      <4> QED BY <4>2, <4>3, <4>4, PageMade
    <3>5. exit = 0
      <4>1. page.recs = <<>> \/ stop = 0
        BY <2>3 DEF IsEmpty
      <4> QED BY <1>6, <1>9, <4>1
    <3> HIDE DEF low, high
    <3>6. \A k : FirstIn(high.recs, k) = IF key = k THEN rec.raws ELSE {}
      BY <3>4, FirstInOne DEF key
    <3>7. /\ \A k : k # key => Then(FirstIn(low.recs, k), FirstIn(high.recs, k))
                                 = FirstIn(page.recs, k)
          /\ Then(FirstIn(low.recs, key), FirstIn(high.recs, key)) = rec.raws
      BY <2>1, <3>3, <3>6 DEF Then
    <3> QED BY <1>17, <2>1, <3>1, <3>2, <3>3, <3>4, <3>5, <3>7
  <2>4. CASE ~ (stop # 0 /\ same = {} /\ IsFull(page))
             /\ ~ (IsEmpty(page) \/ (stop = 0 /\ IsFull(page)))
    <3> DEFINE new == InsertRecord(page, rec, above)
    <3>1. Add(f, rec, above) = Write(f, at, new) /\ ~ IsFull(page)
      <4> HIDE DEF new
      <4>1. CASE stop # 0
        BY <1>5, <1>19, <2>4, <4>1 DEF new
      <4>2. CASE stop = 0
        BY <1>5, <1>19, <2>4, <4>2 DEF new
      <4> QED BY <4>1, <4>2
    <3>2. /\ new \in DataPage /\ new.next = page.next
          /\ \A k : k # rec.key => FirstIn(new.recs, k) = FirstIn(page.recs, k)
          /\ FirstIn(page.recs, rec.key) = {} => FirstIn(new.recs, rec.key) = rec.raws
      <4>1. page \in DataPage /\ ~ IsFull(page) /\ rec \in Record
        BY <1>6, <3>1
      <4> QED BY ONLY <4>1, InsertHas
    <3> HIDE DEF new
    <3>3. Inserts(new)
      BY <1>6, <2>1, <3>2 DEF key
    <3> QED BY <1>16, <3>1, <3>3
  <2> QED BY <2>2, <2>3, <2>4
<1> QED BY <1>18, <1>19

\* What is left of a page with one record of the key at most.
LeftOf(page, key) ==
  LET out == TakenOut(page.recs, key)
  IN  Holding(page, Without(page.recs, out), Slots(Cardinality(out), 0) \o page.spare)

\* It has nothing for the key, and what the page had for the other keys.
KeyGone(page, key, left) ==
  /\ left \in DataPage /\ left.next = page.next
  /\ FirstIn(left.recs, key) = {}
  /\ \A k : k # key => FirstIn(left.recs, k) = FirstIn(page.recs, k)
  /\ left.recs = <<>> => Len(page.recs) <= 1

\* The loop of remove takes the only record of a key out of a page, if there is one.
LEMMA LeftHas ==
  ASSUME NEW page \in DataPage, NEW key,
         \A j, k \in 1..Len(page.recs) :
           page.recs[j].key = key /\ page.recs[k].key = key => j = k
  PROVE  /\ TakenOut(page.recs, key) = {} <=> FirstIn(page.recs, key) = {}
         /\ KeyGone(page, key, LeftOf(page, key))
<1> DEFINE s == page.recs
           out == TakenOut(s, key)
           recs == Without(s, out)
           spare == Slots(Cardinality(out), 0) \o page.spare
           left == LeftOf(page, key)
<1>1. /\ s \in Seq(Record) /\ page.spare \in Seq(Stale)
      /\ Len(s) \in Nat /\ Len(page.spare) \in Nat /\ Len(s) + Len(page.spare) = N
  BY PageFields
<1>left. left = Holding(page, recs, spare)
  BY DEF LeftOf
<1>one. \A j, k \in 1..Len(s) : s[j].key = key /\ s[k].key = key => j = k
  OBVIOUS
<1> HIDE DEF Record, Stale, DataPage, s, left
<1>2. /\ \A i \in out : i \in 1..Len(s) /\ s[i].key = key
      /\ \A i \in 1..Len(s) :
           s[i].key = key /\ (\A j \in 1..Len(s) : s[j].key = key => j = i) => i \in out
  BY <1>1, TakenOutFacts
<1> HIDE DEF out
<1>3. out \in SUBSET (1..Len(s)) /\ \A i \in 1..Len(s) : i \in out <=> s[i].key = key
  BY <1>one, <1>2
<1>4. out = {} <=> FirstIn(s, key) = {}
  <2>1. FirstIn(s, key) = {} <=> \A i \in 1..Len(s) : s[i].key # key
    BY <1>1, FirstInFacts
  <2> QED BY <1>3, <2>1
<1>5. /\ FirstIn(recs, key) = {}
      /\ \A k : k # key => FirstIn(recs, k) = FirstIn(s, k)
  <2>1. s \in Seq(Record) /\ SlotsOf(s, key, out)
    BY <1>1, <1>3 DEF SlotsOf
  <2> HIDE DEF recs
  <2>2. KeyTaken(s, key, recs)
    BY ONLY <2>1, FirstInWithout DEF recs
  <2> QED BY <2>2 DEF KeyTaken
<1>6. /\ recs \in Seq(Record) /\ Cardinality(out) \in Nat
      /\ Len(recs) + Cardinality(out) = Len(s) /\ Len(recs) \in Nat
  BY <1>1, <1>3, WithoutFacts, LenProperties
<1>7. spare \in Seq(Stale) /\ Len(spare) = Cardinality(out) + Len(page.spare)
  <2> DEFINE a == Slots(Cardinality(out), 0)
             b == page.spare
  <2>1. a \in Seq(Stale) /\ Len(a) = Cardinality(out)
    <3>1. 0 \in Stale
      BY DEF Stale
    <3> QED BY <1>6, <3>1, SlotsMade
  <2>2. b \in Seq(Stale)
    BY <1>1
  <2> HIDE DEF a, b
  <2>3. a \o b \in Seq(Stale) /\ Len(a \o b) = Len(a) + Len(b)
    BY <2>1, <2>2, ConcatProperties
  <2> QED BY <2>1, <2>3 DEF a, b
<1> HIDE DEF recs, spare
<1>8. Len(recs) + Len(spare) = N
  <2> DEFINE a == Len(s)
             b == Len(page.spare)
             c == Cardinality(out)
             d == Len(recs)
  <2>1. a \in Nat /\ b \in Nat /\ c \in Nat /\ d \in Nat /\ d + c = a /\ a + b = N
        /\ Len(spare) = c + b
    BY <1>1, <1>6, <1>7
  <2> HIDE DEF a, b, c, d
  <2>2. d + Len(spare) = N
    BY ONLY <2>1
  <2> QED BY ONLY <2>2 DEF d
<1>9. left \in DataPage /\ left.next = page.next /\ left.recs = recs
  <2>1. /\ page \in DataPage /\ recs \in Seq(Record) /\ spare \in Seq(Stale)
        /\ Len(recs) + Len(spare) = N
    BY <1>6, <1>7, <1>8
  <2> QED BY ONLY <1>left, <2>1, PageHolding
<1>10. ASSUME recs = <<>>
       PROVE  Len(s) <= 1
  <2>1. \A k : FirstIn(<<>>, k) = {}
    BY DEF FirstIn
  <2>2. \A i \in 1..Len(s) : s[i].key = key
    <3> TAKE i \in 1..Len(s)
    <3>1. FirstIn(s, s[i].key) # {}
      BY <1>1, FirstInFacts
    <3> QED BY <1>5, <1>10, <2>1, <3>1
  <2>3. CASE Len(s) > 1
    <3>1. 1 \in 1..Len(s) /\ 2 \in 1..Len(s)
      BY <1>1, <2>3
    <3> QED BY <1>one, <2>2, <3>1
  <2> QED BY <1>1, <2>3
<1>11. KeyGone(page, key, left)
  BY <1>5, <1>9, <1>10 DEF KeyGone, s
<1> QED BY <1>4, <1>11 DEF s, out, left

\* What Write makes of a file, one time and two times.
LEMMA Written ==
  ASSUME NEW f \in Files, NEW at \in 1..Len(f.pages), NEW page
  PROVE  /\ Write(f, at, page).sep = f.sep
         /\ \A p \in 1..Len(f.pages) :
              Write(f, at, page).pages[p] = IF p = at THEN page ELSE f.pages[p]
         /\ \A to \in 1..Len(f.pages) : \A other :
              LET g == Write(Write(f, at, page), to, other)
              IN  /\ g.sep = f.sep
                  /\ \A p \in 1..Len(f.pages) :
                       g.pages[p] = IF p = to THEN other ELSE IF p = at THEN page ELSE f.pages[p]
<1>1. DOMAIN f.pages = 1..Len(f.pages) /\ f = [pages |-> f.pages, sep |-> f.sep]
  BY LenProperties DEF Files
<1>2. \A i, q : [f EXCEPT !.pages[i] = q] = [pages |-> [f.pages EXCEPT ![i] = q], sep |-> f.sep]
  BY <1>1
<1> DEFINE h == [f.pages EXCEPT ![at] = page]
<1>3. DOMAIN h = 1..Len(f.pages)
      /\ \A p \in 1..Len(f.pages) : h[p] = IF p = at THEN page ELSE f.pages[p]
  BY <1>1
<1> HIDE DEF h
<1> DEFINE e == Write(f, at, page)
<1>4. e = [pages |-> h, sep |-> f.sep]
  BY <1>2 DEF Write, h
<1> HIDE DEF e
<1>5. ASSUME NEW to \in 1..Len(f.pages), NEW other
      PROVE  LET g == Write(e, to, other)
             IN  /\ g.sep = f.sep
                 /\ \A p \in 1..Len(f.pages) :
                      g.pages[p] = IF p = to THEN other ELSE IF p = at THEN page ELSE f.pages[p]
  <2>1. Write(e, to, other) = [pages |-> [h EXCEPT ![to] = other], sep |-> f.sep]
    BY <1>4 DEF Write
  <2>2. \A p \in 1..Len(f.pages) : [h EXCEPT ![to] = other][p] = IF p = to THEN other ELSE h[p]
    BY <1>3
  <2> QED BY <1>3, <2>1, <2>2
<1> QED BY <1>3, <1>4, <1>5 DEF e

\* A merge with the next page moves records, but they stay in the same order.
LEMMA MergeHas ==
  ASSUME NEW f \in Files, NEW at \in 1..Len(f.pages), NEW other \in 1..Len(f.pages),
         f.pages[at].next = other, other # at,
         Len(f.pages[at].recs) <= N \div 2
  PROVE  LET g == Merge(f, at)
         IN  /\ g.sep = f.sep
             /\ \A p \in 1..Len(f.pages) : p # at /\ p # other => g.pages[p] = f.pages[p]
             /\ \A k : Window(g, at, other, f.pages[other].next, k,
                              Then(FirstIn(f.pages[at].recs, k), FirstIn(f.pages[other].recs, k)))
<1> DEFINE page == f.pages[at]
           next == f.pages[other]
           both == [recs |-> page.recs \o next.recs, next |-> next.next,
                    spare |-> SubSeq(page.spare, Len(next.recs) + 1, Len(page.spare))]
           more == Holding(page, Append(page.recs, Head(next.recs)), Tail(page.spare))
           less == Holding(next, Tail(next.recs), <<0>> \o next.spare)
           fits == Len(page.recs) + Len(next.recs) <= N
           Found(k) == Then(FirstIn(page.recs, k), FirstIn(next.recs, k))
<1>1. other # 0 /\ f.pages \in Seq(DataPage)
  BY LenProperties DEF Files
<1>2. Merge(f, at) = IF fits THEN Write(f, at, both) ELSE Write(Write(f, at, more), other, less)
  BY <1>1 DEF Merge
<1>3. page \in DataPage /\ next \in DataPage
  <2> HIDE DEF DataPage
  <2> QED BY <1>1, ElementOfSeq
<1>4. /\ page.recs \in Seq(Record) /\ next.recs \in Seq(Record)
      /\ Len(page.recs) \in Nat /\ Len(next.recs) \in Nat
  BY <1>3, PageFields
<1>5. /\ both.recs = page.recs \o next.recs /\ both.next = next.next
      /\ more.recs = Append(page.recs, Head(next.recs)) /\ more.next = other
      /\ less.recs = Tail(next.recs) /\ less.next = next.next
  BY DEF Holding
<1>6. page.next = other /\ Len(page.recs) <= N \div 2
  OBVIOUS
<1> HIDE DEF page, next, both, more, less
<1>7. CASE fits
  <2> DEFINE g == Write(f, at, both)
  <2>1. /\ g.sep = f.sep
        /\ \A p \in 1..Len(f.pages) : g.pages[p] = IF p = at THEN both ELSE f.pages[p]
    BY Written
  <2>2. Merge(f, at) = g
    BY <1>2, <1>7
  <2> HIDE DEF g
  <2>3. \A k : FirstIn(g.pages[at].recs, k) = Found(k)
    <3> TAKE k
    <3>1. g.pages[at].recs = page.recs \o next.recs
      BY <1>5, <2>1
    <3>2. FirstIn(page.recs \o next.recs, k) = Found(k)
      BY ONLY <1>4, FirstInConcat
    <3> QED BY <3>1, <3>2
  <2>4. \A k : Window(g, at, other, next.next, k, Found(k))
    BY <1>5, <2>1, <2>3 DEF Window
  <2> QED BY <2>1, <2>2, <2>4 DEF page, next
<1>8. CASE ~ fits
  <2> DEFINE g == Write(Write(f, at, more), other, less)
             head == Head(next.recs)
             tail == Tail(next.recs)
             one == <<head>>
  <2>1. /\ g.sep = f.sep
        /\ \A p \in 1..Len(f.pages) :
             g.pages[p] = IF p = other THEN less ELSE IF p = at THEN more ELSE f.pages[p]
    BY Written
  <2>2. Merge(f, at) = g
    BY <1>2, <1>8
  <2> HIDE DEF g
  <2>3. next.recs # <<>>
    <3>1. Len(next.recs) # 0
      <4> DEFINE used == Len(page.recs)
                 coming == Len(next.recs)
      <4>1. used \in Nat /\ coming \in Nat /\ used <= N \div 2 /\ ~ (used + coming <= N) /\ N \in Nat
        BY <1>4, <1>6, <1>8, IsamIndexAssumption
      <4> HIDE DEF used, coming
      <4>2. coming # 0
        BY ONLY <4>1
      <4> QED BY <4>2 DEF coming
    <3> QED BY <3>1
  <2>4. head \in Record /\ tail \in Seq(Record) /\ next.recs = one \o tail
    <3>1. head \in Record /\ tail \in Seq(Record)
      BY <1>4, <2>3, HeadTailProperties
    <3>2. next.recs = <<Head(next.recs)>> \o Tail(next.recs)
      <4> HIDE DEF Record
      <4> QED BY <1>4, <2>3
    <3> QED BY <3>1, <3>2
  <2>5. Append(page.recs, head) = page.recs \o one
    <3> HIDE DEF head, Record
    <3> QED BY <1>4, <2>4
  <2> HIDE DEF head, tail
  <2>6. one \in Seq(Record)
    BY <2>4, FirstInOne
  <2> HIDE DEF one
  <2>7. /\ more.recs = page.recs \o one /\ less.recs = tail
    BY <1>5, <2>5 DEF head, tail
  <2>8. ASSUME NEW k
        PROVE  Then(FirstIn(more.recs, k), FirstIn(less.recs, k)) = Found(k)
    <3>1. FirstIn(page.recs \o one, k) = Then(FirstIn(page.recs, k), FirstIn(one, k))
      BY ONLY <1>4, <2>6, FirstInConcat
    <3>2. FirstIn(one \o tail, k) = Then(FirstIn(one, k), FirstIn(tail, k))
      BY ONLY <2>4, <2>6, FirstInConcat
    <3> QED BY <2>4, <2>7, <3>1, <3>2 DEF Then
  <2>9. \A k : Window(g, at, other, next.next, k, Found(k))
    <3>1. g.pages[at] = more /\ g.pages[other] = less
      BY <2>1
    <3> QED BY <1>1, <1>5, <2>8, <3>1 DEF Window
  <2> QED BY <2>1, <2>2, <2>9 DEF page, next
<1> QED BY <1>7, <1>8

\* A removal that is in reach leaves nothing for its key, and no other key anything
\* else, and tells whether there was something.
LEMMA EraseSearch ==
  ASSUME Kept(isam), NEW key \in Key, Reached(isam, key),
         LET c == Chain(isam, LeafOf(isam, key))
             stop == StopAt(isam, c, key)
         IN  stop > 2 => Len(isam.pages[c[stop]].recs) > 1
  PROVE  LET erased == Erase(isam, key)
             g == erased.isam
         IN  /\ erased.outcome = IF Search(isam, key) = {} THEN "absent" ELSE "ok"
             /\ Search(g, key) = {}
             /\ \A k \in Key : k # key => Search(g, k) = Search(isam, k)
<1> DEFINE f == isam
           c == Chain(f, LeafOf(f, key))
           stop == StopAt(f, c, key)
           size == Len(c)
           other == Len(f.pages) + 1
           Goal(e) == /\ e.outcome = IF Search(f, key) = {} THEN "absent" ELSE "ok"
                      /\ Search(e.isam, key) = {}
                      /\ \A k \in Key : k # key => Search(e.isam, k) = Search(f, k)
<1>1. Kept(f) /\ Reached(f, key) /\ Kept(Erase(f, key).isam)
  BY EraseKeeps
<1>2. stop > 2 => Len(f.pages[c[stop]].recs) > 1
  OBVIOUS
<1>3. Erase(f, key) =
        LET at == IF stop = 0 THEN 0 ELSE c[stop]
            page == f.pages[at]
            left == LeftOf(page, key)
        IN  IF stop = 0 \/ TakenOut(page.recs, key) = {} THEN [isam |-> f, outcome |-> "absent"]
            ELSE [outcome |-> "ok", isam |->
                   CASE stop > 1 /\ IsEmpty(left) ->
                          Write(f, Head(c), [f.pages[Head(c)] EXCEPT !.next = page.next])
                     [] ~ IsEmpty(left) /\ Len(left.recs) <= N \div 2 -> Merge(Write(f, at, left), at)
                     [] OTHER -> Write(f, at, left)]
  BY DEF Erase, LeftOf, Absent, Removed
<1> SUFFICES Goal(Erase(f, key))
  BY DEF Goal
<1> HIDE DEF f
<1>4. /\ c \in Seq(1..Len(f.pages)) /\ size \in Nat \ {0} /\ stop \in 0..size
      /\ Head(c) = c[1]
      /\ \A i \in 1..size :
           /\ c[i] \in 1..Len(f.pages) /\ f.pages[c[i]] \in DataPage
           /\ f.pages[c[i]].next = IF i = size THEN 0 ELSE c[i + 1]
           /\ i # stop => FirstIn(f.pages[c[i]].recs, key) = {}
           /\ \A j, k \in 1..Len(f.pages[c[i]].recs) :
                f.pages[c[i]].recs[j].key = key /\ f.pages[c[i]].recs[k].key = key => j = k
      /\ \A i, j \in 1..size : c[i] = c[j] => i = j
  <2>1. CallStops(f, key)
    BY <1>1, ReachedFacts
  <2> QED BY ONLY <2>1 DEF CallStops
<1>5. f \in Files /\ Len(f.pages) \in Nat /\ other \in Nat \ (0..Len(f.pages))
  <2>1. f \in Files /\ Len(f.pages) \in Nat
    BY <1>1, LenProperties DEF Kept, WellFormed, Files
  <2> QED BY <2>1
<1> DEFINE Has(p, k) == FirstIn(f.pages[p].recs, k)
<1> HIDE DEF c, stop, size, other
\* What a change of a window of the chain does.
<1> DEFINE Changes(g, n, m, to, was, now) ==
             /\ Kept(g) /\ g.sep = f.sep /\ n \in 1..size /\ m \in n..size
             /\ \A i \in 1..size : i \notin n..m => i # stop
             /\ (m = n /\ to = other) \/ (m = n + 1 /\ to = c[m])
             /\ \A p \in 1..Len(f.pages) : p # c[n] /\ p # to => g.pages[p] = f.pages[p]
             /\ \A k \in Key : /\ Window(f, c[n], to, Exit(c, m), k, was[k])
                               /\ Window(g, c[n], to, Exit(c, m), k, now[k])
                               /\ k # key => was[k] = now[k]
<1>6. ASSUME NEW g, NEW n, NEW m, NEW to, NEW was, NEW now, Changes(g, n, m, to, was, now)
      PROVE  /\ Search(f, key) = was[key] /\ Search(g, key) = now[key]
             /\ \A k \in Key : k # key => Search(g, k) = Search(f, k)
  <2>1. \A i \in 1..size : i \notin n..m => FirstIn(f.pages[c[i]].recs, key) = {}
    BY <1>4, <1>6
  <2>2. Replaces(f, g, key, n, m, to)
    <3>1. (m = n /\ to \in Nat \ (0..Len(f.pages))) \/ (m = n + 1 /\ to = c[m])
      BY <1>5, <1>6
    <3> QED BY <1>1, <1>6, <2>1, <3>1 DEF Replaces, c, size
  <2>3. Exchanges(f, g, key, n, m, to, was, now)
    <3>1. \A k \in Key : /\ Window(f, c[n], to, Exit(c, m), k, was[k])
                         /\ Window(g, c[n], to, Exit(c, m), k, now[k])
                         /\ k # key => was[k] = now[k]
      BY <1>6
    <3> QED BY ONLY <3>1 DEF Exchanges, c
  <2> HIDE DEF Changes
  <2> QED BY ONLY <2>2, <2>3, SearchReplaced, key \in Key
<1> HIDE DEF Changes
<1>7. CASE stop = 0 \/ TakenOut(f.pages[c[stop]].recs, key) = {}
  <2>1. Erase(f, key) = [isam |-> f, outcome |-> "absent"]
    BY <1>3, <1>7
  <2> DEFINE n == IF stop = 0 THEN 1 ELSE stop
             at == c[n]
             was == [k \in Key |-> Has(at, k)]
  <2>2. n \in 1..size /\ n \in n..size /\ \A i \in 1..size : i \notin n..n => i # stop
    BY <1>4
  <2>3. Has(at, key) = {}
    <3>1. CASE stop = 0
      <4>1. 1 \in 1..size /\ n = 1 /\ 1 # stop
        BY <1>4, <3>1
      <4> HIDE DEF n
      <4> QED BY <1>4, <4>1
    <3>2. CASE stop # 0
      <4>1. stop \in 1..size /\ n = stop
        BY <1>4, <3>2
      <4> DEFINE page == f.pages[c[stop]]
      <4>2. /\ page \in DataPage
            /\ \A j, k \in 1..Len(page.recs) :
                 page.recs[j].key = key /\ page.recs[k].key = key => j = k
        BY <1>4, <4>1
      <4>3. TakenOut(page.recs, key) = {}
        BY <1>7, <3>2
      <4> HIDE DEF page
      <4>4. FirstIn(page.recs, key) = {}
        BY <4>2, <4>3, LeftHas
      <4> QED BY <4>1, <4>4 DEF page
    <3> QED BY <3>1, <3>2
  <2>4. at \in 1..Len(f.pages) /\ f.pages[at].next = Exit(c, n)
    <3> HIDE DEF n
    <3> QED BY <1>4, <2>2 DEF Exit, size
  <2>5. was[key] = {} /\ \A k \in Key : was[k] = FirstIn(f.pages[at].recs, k)
    BY <2>3
  <2> HIDE DEF n, was
  <2>6. \A k \in Key : Window(f, c[n], other, Exit(c, n), k, was[k])
    BY <2>4, <2>5 DEF Window
  <2>7. Search(f, key) = was[key]
    <3>1. Changes(f, n, n, other, was, was)
      BY <1>1, <2>2, <2>6 DEF Changes
    <3> QED BY ONLY <1>6, <3>1
  <2> QED BY <1>1, <2>1, <2>5, <2>7 DEF Goal
<1>8. CASE ~ (stop = 0 \/ TakenOut(f.pages[c[stop]].recs, key) = {})
  <2> DEFINE at == c[stop]
             page == f.pages[at]
             left == LeftOf(page, key)
             first == Head(c)
             unlinked == [f.pages[first] EXCEPT !.next = page.next]
             erased == CASE stop > 1 /\ IsEmpty(left) -> Write(f, first, unlinked)
                         [] ~ IsEmpty(left) /\ Len(left.recs) <= N \div 2 ->
                              Merge(Write(f, at, left), at)
                         [] OTHER -> Write(f, at, left)
  <2>1. Erase(f, key) = [outcome |-> "ok", isam |-> erased]
    BY <1>3, <1>8
  <2>2. stop \in 1..size /\ stop \in stop..size /\ \A i \in 1..size : i \notin stop..stop => i # stop
    BY <1>4, <1>8
  <2>3. at \in 1..Len(f.pages) /\ page \in DataPage /\ page.next = Exit(c, stop)
    BY <1>4, <2>2 DEF Exit, size
  <2>4. KeyGone(page, key, left) /\ FirstIn(page.recs, key) # {}
    <3>1. \A j, k \in 1..Len(page.recs) :
            page.recs[j].key = key /\ page.recs[k].key = key => j = k
      BY <1>4, <2>2
    <3>2. TakenOut(page.recs, key) # {}
      BY <1>8
    <3> HIDE DEF page, left
    <3>3. /\ TakenOut(page.recs, key) = {} <=> FirstIn(page.recs, key) = {}
          /\ KeyGone(page, key, LeftOf(page, key))
      BY ONLY <2>3, <3>1, LeftHas
    <3> QED BY <3>2, <3>3 DEF left
  <2>5. /\ left \in DataPage /\ left.next = page.next /\ FirstIn(left.recs, key) = {}
        /\ \A k : k # key => FirstIn(left.recs, k) = FirstIn(page.recs, k)
        /\ left.recs = <<>> => Len(page.recs) <= 1
    <3> HIDE DEF page, left
    <3> QED BY <2>4 DEF KeyGone
  <2>6. ASSUME Search(f, key) # {}, Search(erased, key) = {},
               \A k \in Key : k # key => Search(erased, k) = Search(f, k)
        PROVE  Goal(Erase(f, key))
    <3> HIDE DEF erased
    <3> QED BY <2>1, <2>6 DEF Goal
  <2>7. Kept(erased)
    <3> HIDE DEF erased
    <3> QED BY <1>1, <2>1
  <2>8. page = f.pages[c[stop]] /\ at = c[stop]
    OBVIOUS
  <2> HIDE DEF at, page, left, first, unlinked
  <2>9. CASE stop > 1 /\ IsEmpty(left)
    <3>1. left.recs = <<>> /\ Len(page.recs) <= 1
      BY <2>5, <2>9 DEF IsEmpty
    <3>2. stop = 2 /\ size >= 2 /\ 1 \in 1..size /\ 2 \in 1..size
      <4>1. ~ (stop > 2)
        BY <1>2, <2>3, <2>8, <3>1, PageFields
      <4> QED BY <1>4, <2>9, <4>1
    <3>3. first = c[1] /\ first \in 1..Len(f.pages) /\ at = c[2] /\ at # 0 /\ first # at
          /\ f.pages[first].next = at /\ Has(first, key) = {}
      <4>1. c[1] \in 1..Len(f.pages) /\ c[2] \in 1..Len(f.pages) /\ c[1] # c[2]
            /\ f.pages[c[1]].next = c[2] /\ Has(c[1], key) = {}
        <5>1. 1 # size /\ 1 # 2 /\ 1 + 1 = 2
          BY <3>2
        <5> QED BY <1>4, <3>2, <5>1
      <4>2. c[2] # 0
        BY <1>5, <4>1
      <4> QED BY <1>4, <2>8, <3>2, <4>1, <4>2 DEF first
    <3>4. erased = Write(f, first, unlinked)
      BY <2>9
    <3>5. unlinked.next = page.next /\ unlinked.recs = f.pages[first].recs
      <4>1. f.pages[first] \in DataPage
        BY <1>4, <3>2, <3>3
      <4>2. \A p \in DataPage : \A q : /\ [p EXCEPT !.next = q].next = q
                                    /\ [p EXCEPT !.next = q].recs = p.recs
        BY DEF DataPage
      <4> HIDE DEF DataPage
      <4> QED BY <4>1, <4>2 DEF unlinked
    <3>6. /\ erased.sep = f.sep
          /\ \A p \in 1..Len(f.pages) : erased.pages[p] = IF p = first THEN unlinked ELSE f.pages[p]
      <4> HIDE DEF erased
      <4> QED BY <1>5, <3>3, <3>4, Written
    <3> HIDE DEF erased
    <3> DEFINE was == [k \in Key |-> Then(Has(first, k), Has(at, k))]
               now == [k \in Key |-> Has(first, k)]
    <3>7. \A k \in Key : /\ was[k] = Then(Has(first, k), Has(at, k)) /\ now[k] = Has(first, k)
                         /\ k # key => was[k] = now[k]
      <4>1. \A k : FirstIn(<<>>, k) = {}
        BY DEF FirstIn
      <4> QED BY <2>5, <3>1, <4>1 DEF Then, page
    <3>8. was[key] # {} /\ now[key] = {}
      BY <2>4, <3>3, <3>7 DEF Then, page
    <3> HIDE DEF was, now
    <3>9. \A k \in Key : /\ Window(f, first, at, Exit(c, 2), k, was[k])
                         /\ Window(erased, first, at, Exit(c, 2), k, now[k])
      <4>1. f.pages[at].next = Exit(c, 2) /\ page.next = Exit(c, 2)
        BY <2>3, <3>2 DEF page
      <4>2. erased.pages[first] = unlinked
        BY <3>3, <3>6
      <4> QED BY <3>3, <3>5, <3>7, <4>1, <4>2 DEF Window
    <3>10. /\ Search(f, key) = was[key] /\ Search(erased, key) = now[key]
           /\ \A k \in Key : k # key => Search(erased, k) = Search(f, k)
      <4>1. 1 \in 1..size /\ 2 \in 1..size /\ 2 = 1 + 1
            /\ \A i \in 1..size : i \notin 1..2 => i # stop
        BY <3>2
      <4>2. \A p \in 1..Len(f.pages) : p # c[1] /\ p # at => erased.pages[p] = f.pages[p]
        BY <3>3, <3>6
      <4>3. \A k \in Key : /\ Window(f, c[1], at, Exit(c, 2), k, was[k])
                           /\ Window(erased, c[1], at, Exit(c, 2), k, now[k])
                           /\ k # key => was[k] = now[k]
        BY <3>3, <3>7, <3>9
      <4>4. 2 \in 1..size /\ at = c[2]
        BY <3>2, <3>3
      <4>5. Changes(erased, 1, 2, at, was, now)
        BY <2>7, <3>6, <4>1, <4>2, <4>3, <4>4 DEF Changes
      <4> QED BY ONLY <1>6, <4>5
    <3> QED BY <2>6, <3>8, <3>10
  <2>10. ASSUME erased = Write(f, at, left)
         PROVE  Goal(Erase(f, key))
    <3>1. /\ erased.sep = f.sep
          /\ \A p \in 1..Len(f.pages) : erased.pages[p] = IF p = at THEN left ELSE f.pages[p]
      <4> HIDE DEF erased
      <4> QED BY <1>5, <2>3, <2>10, Written
    <3> HIDE DEF erased
    <3> DEFINE was == [k \in Key |-> FirstIn(page.recs, k)]
               now == [k \in Key |-> FirstIn(left.recs, k)]
    <3>2. \A k \in Key : /\ was[k] = FirstIn(page.recs, k) /\ now[k] = FirstIn(left.recs, k)
                         /\ k # key => was[k] = now[k]
      BY <2>5
    <3>3. was[key] # {} /\ now[key] = {}
      BY <2>4, <2>5, <3>2
    <3> HIDE DEF was, now
    <3>4. \A k \in Key : /\ Window(f, c[stop], other, Exit(c, stop), k, was[k])
                         /\ Window(erased, c[stop], other, Exit(c, stop), k, now[k])
                         /\ k # key => was[k] = now[k]
      <4>1. f.pages[c[stop]] = page /\ erased.pages[c[stop]] = left
        BY <2>3, <2>8, <3>1
      <4> QED BY <2>3, <2>5, <3>2, <4>1 DEF Window
    <3>5. \A p \in 1..Len(f.pages) : p # c[stop] /\ p # other => erased.pages[p] = f.pages[p]
      BY <2>8, <3>1
    <3>6. /\ Search(f, key) = was[key] /\ Search(erased, key) = now[key]
          /\ \A k \in Key : k # key => Search(erased, k) = Search(f, k)
      <4>1. Changes(erased, stop, stop, other, was, now)
        BY <2>2, <2>7, <3>1, <3>4, <3>5 DEF Changes
      <4> QED BY ONLY <1>6, <4>1
    <3> QED BY <2>6, <3>3, <3>6
  <2>11. CASE ~ IsEmpty(left) /\ Len(left.recs) <= N \div 2
    <3> DEFINE h == Write(f, at, left)
               to == page.next
    <3>1. erased = Merge(h, at)
      BY <2>11
    <3>2. /\ h \in Files /\ Len(h.pages) = Len(f.pages) /\ h.sep = f.sep
          /\ \A p \in 1..Len(f.pages) : h.pages[p] = IF p = at THEN left ELSE f.pages[p]
      <4>1. left \in DataPage /\ at \in 1..Len(f.pages) /\ f \in Files
        BY <1>5, <2>3, <2>5
      <4> QED BY ONLY <4>1, Written, WriteFacts
    <3> HIDE DEF h
    <3>3. h.pages[at] = left
      BY <2>3, <3>2
    <3>4. CASE to = 0
      <4>1. Merge(h, at) = h
        BY <2>5, <3>3, <3>4 DEF Merge
      <4> HIDE DEF erased
      <4> QED BY <2>10, <3>1, <4>1 DEF h
    <3>5. CASE to # 0
      <4> HIDE DEF erased
      <4> DEFINE next == f.pages[to]
      <4>1. /\ stop + 1 \in 1..size /\ stop + 1 \in stop..size /\ to = c[stop + 1]
            /\ to \in 1..Len(f.pages) /\ to # at
            /\ next.next = Exit(c, stop + 1) /\ FirstIn(next.recs, key) = {}
        <5>1. stop # size /\ to = c[stop + 1]
          BY <2>3, <3>5 DEF Exit, size
        <5>2. stop + 1 \in 1..size /\ stop + 1 \in stop..size /\ stop + 1 # stop
          BY <1>4, <2>2, <5>1
        <5> HIDE DEF to
        <5> QED BY <1>4, <2>2, <2>8, <5>1, <5>2 DEF Exit, size
      <4> DEFINE was == [k \in Key |-> Then(FirstIn(page.recs, k), FirstIn(next.recs, k))]
                 now == [k \in Key |-> Then(FirstIn(left.recs, k), FirstIn(next.recs, k))]
      <4>2. h.pages[to] = next /\ h.pages[at].next = to /\ at \in 1..Len(h.pages)
            /\ to \in 1..Len(h.pages) /\ Len(h.pages[at].recs) <= N \div 2
        <5> HIDE DEF to
        <5> QED BY <2>3, <2>5, <2>11, <3>2, <3>3, <4>1 DEF to
      <4>3. \A k \in Key :
              /\ was[k] = Then(FirstIn(page.recs, k), FirstIn(next.recs, k))
              /\ now[k] = Then(FirstIn(left.recs, k), FirstIn(next.recs, k))
              /\ k # key => was[k] = now[k]
        BY <2>5
      <4>4. was[key] # {} /\ now[key] = {}
        BY <2>4, <2>5, <4>1, <4>3 DEF Then
      <4> HIDE DEF was, now, next, to
      <4>5. /\ erased.sep = h.sep
            /\ \A p \in 1..Len(h.pages) : p # at /\ p # to => erased.pages[p] = h.pages[p]
            /\ \A k : Window(erased, at, to, h.pages[to].next, k,
                             Then(FirstIn(h.pages[at].recs, k), FirstIn(h.pages[to].recs, k)))
        BY ONLY <3>1, <3>2, <4>1, <4>2, MergeHas
      <4>6. \A k \in Key : /\ Window(f, c[stop], to, Exit(c, stop + 1), k, was[k])
                           /\ Window(erased, c[stop], to, Exit(c, stop + 1), k, now[k])
                           /\ k # key => was[k] = now[k]
        <5>1. \A k \in Key : Window(erased, c[stop], to, Exit(c, stop + 1), k, now[k])
          BY <2>8, <3>3, <4>1, <4>2, <4>3, <4>5
        <5>2. \A k \in Key : Window(f, c[stop], to, Exit(c, stop + 1), k, was[k])
          BY <2>8, <3>5, <4>1, <4>3 DEF Window, next, to
        <5> QED BY <4>3, <5>1, <5>2
      <4>7. \A p \in 1..Len(f.pages) : p # c[stop] /\ p # to => erased.pages[p] = f.pages[p]
        BY <2>8, <3>2, <4>5
      <4>8. \A i \in 1..size : i \notin stop..stop + 1 => i # stop
        BY <2>2
      <4>9. /\ Search(f, key) = was[key] /\ Search(erased, key) = now[key]
            /\ \A k \in Key : k # key => Search(erased, k) = Search(f, k)
        <5>1. Changes(erased, stop, stop + 1, to, was, now)
          <6>1. erased.sep = f.sep
            BY <3>2, <4>5
          <6>2. stop \in 1..size /\ stop + 1 \in stop..size /\ to = c[stop + 1]
            BY <2>2, <4>1
          <6> QED BY <2>7, <4>6, <4>7, <4>8, <6>1, <6>2 DEF Changes
        <5> QED BY ONLY <1>6, <5>1
      <4> QED BY <2>6, <4>4, <4>9
    <3> QED BY <3>4, <3>5
  <2>12. CASE /\ ~ (stop > 1 /\ IsEmpty(left))
              /\ ~ (~ IsEmpty(left) /\ Len(left.recs) <= N \div 2)
    BY <2>10, <2>12
  <2> QED BY <2>9, <2>11, <2>12
<1> QED BY <1>7, <1>8

-----------------------------------------------------------------------------
(* The promise.                                                             *)

\* What search finds are positions of records behind the leaves.
LEMMA SearchListed ==
  ASSUME IInv, built, NEW key
  PROVE  Search(isam, key) \in SUBSET Position /\ Search(isam, key) \subseteq RawsOf(ToSet(AllRecs))
<1> DEFINE leaf == LeafOf(isam, key)
           recs == Recs(isam, ChainOf(leaf))
<1>1. Kept(isam)
  BY KeptIsInvariant DEF IInv
<1>2. leaf \in 1..Leaves /\ Search(isam, key) = FirstIn(recs, key)
  BY <1>1, SearchIs DEF ChainOf
<1> HIDE DEF leaf
<1>3. recs \in Seq(Record) /\ ToSet(recs) \subseteq ToSet(AllRecs)
  BY <1>2, ChainBehind, RecordsByLeaf
<1> HIDE DEF recs
<1>4. FirstIn(recs, key) \in SUBSET Position
  BY <1>3, FirstInFacts
<1>5. FirstIn(recs, key) \subseteq RawsOf(ToSet(AllRecs))
  <2>1. CASE FirstIn(recs, key) # {}
    <3>1. PICK i \in 1..Len(recs) : FirstIn(recs, key) = recs[i].raws
      BY <1>3, <2>1, FirstInFacts
    <3>2. recs[i] \in ToSet(AllRecs)
      BY <1>3, ToSetOfSeq
    <3> QED BY <3>1, <3>2 DEF RawsOf
  <2> QED BY <2>1
<1> QED BY <1>2, <1>4, <1>5

\* What the calls do to the entries, in terms of what search finds.
LEMMA EntriesAre ==
  ASSUME built, built'
  PROVE  /\ entries = [k \in Key |-> Search(isam, k)]
         /\ entries' = [k \in Key |-> Search(isam', k)]
BY DEF entries, Search

\* The preconditions of the promise, in terms of the files.
LEMMA ReachedNow ==
  ASSUME NEW key
  PROVE  /\ InReach(key) => Reached(isam, key)
         /\ UnlinksOnePage(key) =>
              LET c == Chain(isam, LeafOf(isam, key))
                  stop == StopAt(isam, c, key)
              IN  stop > 2 => Len(isam.pages[c[stop]].recs) > 1
BY DEF InReach, Reached, UnlinksOnePage, ChainOf

\* A careful add gives its key a position that no key had.
LEMMA KeyAddKept ==
  ASSUME IInv, NEW key \in Key, KeyAdd(key), InReach(key)
  PROVE  Promise!Add(key, NewRaw(key))
<1> DEFINE raw == NewRaw(key)
           rec == [key |-> key, raws |-> {raw}]
<1>1. built /\ built' /\ Kept(isam) /\ Reached(isam, key)
  BY KeptIsInvariant, ReachedNow DEF IInv, KeyAdd
<1>2. PICK above \in BOOLEAN : isam' = Add(isam, rec, above)
  BY DEF KeyAdd
<1>3. raw \in Position /\ raw \notin RawsOf(ToSet(AllRecs))
  <2>1. raw \in Fresh(key)
    BY DEF KeyAdd, NewRaw
  <2>2. \A x \in Fresh(key) : x \in Position /\ x \notin RawsOf(ToSet(AllRecs))
    BY DEF Fresh, Position
  <2> HIDE DEF raw
  <2> QED BY <2>1, <2>2
<1> HIDE DEF raw
<1>4. rec \in Record /\ rec.key = key /\ rec.raws = {raw}
  <2>1. rec.key = key /\ rec.raws = {raw} /\ rec \in Record
    BY <1>3 DEF Record
  <2> QED BY <2>1
<1> HIDE DEF rec
<1>5. /\ Search(isam', key) = Search(isam, key) \union {raw}
      /\ \A k \in Key : k # key => Search(isam', k) = Search(isam, k)
  <2>1. /\ Search(Add(isam, rec, above), rec.key) = Search(isam, rec.key) \union rec.raws
        /\ \A k \in Key : k # rec.key => Search(Add(isam, rec, above), k) = Search(isam, k)
    <3>1. Reached(isam, rec.key)
      BY <1>1, <1>4
    <3> QED BY <1>1, <1>4, <3>1, AddSearch
  <2> QED BY <1>2, <1>4, <2>1
<1>6. /\ entries = [k \in Key |-> Search(isam, k)]
      /\ entries' = [k \in Key |-> Search(isam', k)]
  BY <1>1, EntriesAre
<1>7. \A k \in Key : Search(isam, k) \subseteq RawsOf(ToSet(AllRecs))
  BY <1>1, SearchListed
<1>8. /\ entries'[key] = entries[key] \union {raw} /\ raw \notin entries[key]
      /\ \A k \in Key : k # key => entries'[k] = entries[k]
      /\ \A k \in Key : raw \notin entries[k]
  BY <1>3, <1>5, <1>6, <1>7
<1>9. entries' = [entries EXCEPT ![key] = @ \union {raw}]
  <2>1. entries' = [k \in Key |-> entries'[k]] /\ entries = [k \in Key |-> entries[k]]
    BY <1>6
  <2> QED BY <1>8, <2>1
<1>10. reply' = "ok"
  BY DEF KeyAdd
<1>11. Promise!Add(key, raw)
  BY <1>9, <1>10 DEF Promise!Add, Promise!Refused
<1> QED BY <1>11 DEF raw

\* A careful removal takes all the positions of its key away, and tells if there were any.
LEMMA KeyRemoveKept ==
  ASSUME IInv, NEW key \in Key, KeyRemove(key), InReach(key), UnlinksOnePage(key)
  PROVE  Promise!Remove(key)
<1>1. built /\ built' /\ Kept(isam) /\ Reached(isam, key)
  BY KeptIsInvariant, ReachedNow DEF IInv, KeyRemove
<1>2. isam' = Erase(isam, key).isam /\ reply' = Erase(isam, key).outcome
  BY DEF KeyRemove
<1>3. /\ Erase(isam, key).outcome = IF Search(isam, key) = {} THEN "absent" ELSE "ok"
      /\ Search(Erase(isam, key).isam, key) = {}
      /\ \A k \in Key : k # key => Search(Erase(isam, key).isam, k) = Search(isam, k)
  BY <1>1, ReachedNow, EraseSearch
<1>4. /\ entries = [k \in Key |-> Search(isam, k)]
      /\ entries' = [k \in Key |-> Search(isam', k)]
  BY <1>1, EntriesAre
<1>5. /\ entries'[key] = {} /\ \A k \in Key : k # key => entries'[k] = entries[k]
      /\ reply' = IF entries[key] = {} THEN "absent" ELSE "ok"
  BY <1>2, <1>3, <1>4
<1>6. entries' = [entries EXCEPT ![key] = {}]
  <2>1. entries' = [k \in Key |-> entries'[k]] /\ entries = [k \in Key |-> entries[k]]
    BY <1>4
  <2> QED BY <1>5, <2>1
<1> QED BY <1>5, <1>6 DEF Promise!Remove

\* An add or a removal that is careful does to what search finds what an index promises,
\* for every key, also after calls that were not careful.
THEOREM IsamPromiseKept == Spec => KeepsPromise
<1> DEFINE Step == CASE call'[1] = "add" -> InReach(call'[2]) => Promise!Add(call'[2], NewRaw(call'[2]))
                     [] call'[1] = "remove" ->
                          InReach(call'[2]) /\ UnlinksOnePage(call'[2]) => Promise!Remove(call'[2])
                     [] OTHER -> TRUE
<1>1. IInv /\ IInv' /\ [Next]_vars => [Step]_vars
  <2> SUFFICES ASSUME IInv, IInv', Next PROVE Step
    OBVIOUS
  <2>1. ASSUME NEW key \in Key, KeyAdd(key)
        PROVE  Step
    <3>1. call' = <<"add", key>>
      BY <2>1 DEF KeyAdd
    <3>2. call'[1] = "add" /\ call'[2] = key
      BY <3>1
    <3>3. InReach(key) => Promise!Add(key, NewRaw(key))
      BY <2>1, KeyAddKept
    <3> QED BY <3>2, <3>3
  <2>2. ASSUME NEW key \in Key, KeyRemove(key)
        PROVE  Step
    <3>1. call' = <<"remove", key>>
      BY <2>2 DEF KeyRemove
    <3>2. call'[1] = "remove" /\ call'[2] = key /\ "remove" # "add"
      BY <3>1
    <3>3. InReach(key) /\ UnlinksOnePage(key) => Promise!Remove(key)
      BY <2>2, KeyRemoveKept
    <3> QED BY <3>2, <3>3
  <2>3. CASE Reopen
    <3>1. call' = <<"reopen">>
      BY <2>3 DEF Reopen
    <3>2. call'[1] = "reopen" /\ "reopen" \notin {"add", "remove"}
      BY <3>1
    <3> QED BY <3>2
  <2>4. ASSUME NEW batch \in Batches, BulkInsert(batch)
        PROVE  Step
    <3>1. call' = <<"build", batch>>
      BY <2>4 DEF BulkInsert
    <3>2. call'[1] = "build" /\ "build" \notin {"add", "remove"}
      BY <3>1
    <3> QED BY <3>2
  <2> QED BY <2>1, <2>2, <2>3, <2>4 DEF Next, CallsOn
<1> QED BY <1>1, IsamInvariant, PTL DEF Spec, KeepsPromise
=============================================================================
