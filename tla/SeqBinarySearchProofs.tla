----------------------- MODULE SeqBinarySearchProofs ------------------------
(***************************************************************************)
(* For a sorted index file of any length and any keys: binarySearch never  *)
(* reads past the last record, although its upper bound starts there, and  *)
(* the location it returns brackets the key.                               *)
(*                                                                         *)
(* The inductive invariant is RangeHolds: each bound that has moved stands *)
(* on a record on its own side of the key.                                 *)
(***************************************************************************)
EXTENDS SeqBinarySearch, TLAPS

\* Time for each prover, for slower machines than the one the proofs were written on.
USE SMTT(60), ZenonT(60)

\* Two facts about a sorted file, with the code's positions.
LEMMA SortedPositions ==
  ASSUME NEW f \in Files, NEW i \in 0..(Len(f) - 1), NEW j \in 0..(Len(f) - 1), i < j
  PROVE  KeyAt(f, i) < KeyAt(f, j)
<1>1. Sorted(f) /\ Len(f) \in Nat
  BY FilesAssumption
<1>2. /\ i + 1 \in 1..Len(f) /\ j + 1 \in 1..Len(f)
      /\ i + 1 < j + 1
  BY <1>1
<1> QED BY <1>1, <1>2 DEF Sorted, KeyAt

LEMMA KeysAreIntegers ==
  ASSUME NEW f \in Files
  PROVE  /\ Len(f) \in Nat
         /\ \A i \in 0..(Len(f) - 1) : KeyAt(f, i) \in Int
<1>1. f \in Seq(Int)
  BY FilesAssumption
<1>2. \A j \in 1..Len(f) : f[j] \in Int
  BY <1>1
<1> QED BY <1>1, <1>2 DEF KeyAt

\* The middle of a range is inside the range, and below an upper end that the
\* lower end is below.
LEMMA MidInRange ==
  ASSUME NEW l \in Nat, NEW r \in Nat, l <= r
  PROVE  /\ (l + r) \div 2 \in l..r
         /\ l < r => (l + r) \div 2 < r
  OBVIOUS

\* What the response and the lower bound are before the loop, and the record
\* the response holds after it.
ResponseSet == /\ pc = "start" => left = 0
               /\ pc \in {"start", "loop"} => location = "EMPTY_FILE" /\ header = FALSE
               /\ pc = "done" /\ n # 0 => cur \in 0..(n - 1)

IInv == TypeOK /\ RangeHolds /\ NeverOverruns /\ Brackets /\ ResponseSet

\* One iteration with the verdict on the record in the middle.
LEMMA ProbeIsRight ==
  ASSUME TypeOK, RangeHolds, pc = "loop",
         NEW stalePrev \in Keys, NEW staleNext \in Keys,
         NEW v, v = Verdict(file, key, Mid, stalePrev, staleNext)
  PROVE  /\ Mid \in 0..(n - 1) /\ n \in Nat
         /\ v \in Locations \/ v = "RIGHT" \/ v = "LEFT"
         /\ v # "EMPTY_FILE"
         /\ v = "REC_CUR"  => KeyAt(file, Mid) = key
         /\ v = "REC_PREV" => /\ key < KeyAt(file, Mid)
                              /\ Mid > 0 => KeyAt(file, Mid - 1) < key
         /\ v = "REC_NEXT" => /\ KeyAt(file, Mid) < key
                              /\ Mid < n - 1 => key < KeyAt(file, Mid + 1)
         /\ v = "RIGHT" => Mid < n - 1 /\ KeyAt(file, Mid + 1) <= key
         /\ v = "LEFT"  => Mid > 0 /\ key <= KeyAt(file, Mid - 1)
<1>1. /\ file \in Files /\ key \in Int /\ stalePrev \in Int /\ staleNext \in Int
      /\ n \in Nat /\ n > 0 /\ left \in Nat /\ right \in Int
      /\ left <= right /\ right <= n /\ left < n
  BY FilesAssumption, KeysAreIntegers DEF TypeOK, RangeHolds, n
<1>2. Mid \in 0..(n - 1)
  BY <1>1, MidInRange DEF Mid
<1>3. \A i \in 0..(n - 1) : KeyAt(file, i) \in Int
  BY <1>1, KeysAreIntegers DEF n
<1>4. Mid > 0 => Mid - 1 \in 0..(n - 1)
  BY <1>1, <1>2
<1>5. Mid < n - 1 => Mid + 1 \in 0..(n - 1)
  BY <1>1, <1>2
<1> DEFINE prev == PrevKey(file, Mid, stalePrev)
           next == NextKey(file, Mid, staleNext)
           here == KeyAt(file, Mid)
<1>6. /\ prev \in Int /\ next \in Int /\ here \in Int
      /\ Mid > 0 => prev = KeyAt(file, Mid - 1)
      /\ Mid < n - 1 => next = KeyAt(file, Mid + 1)
  BY <1>1, <1>2, <1>3, <1>4, <1>5 DEF PrevKey, NextKey, n
<1>7. v = Compare(key, prev, here, next, Mid = 0, Mid = n - 1)
  BY DEF Verdict, IsLast, n
<1> HIDE DEF prev, next, here
<1>8. /\ v \in {"REC_CUR", "REC_NEXT", "REC_PREV", "RIGHT", "LEFT"}
      /\ v = "REC_CUR"  => here = key
      /\ v = "REC_PREV" => key < here /\ (Mid > 0 => prev < key)
      /\ v = "REC_NEXT" => here < key /\ (Mid < n - 1 => key < next)
      /\ v = "RIGHT" => Mid # n - 1 /\ next <= key
      /\ v = "LEFT"  => Mid # 0 /\ key <= prev
  BY <1>1, <1>2, <1>6, <1>7 DEF Compare
<1> QED BY <1>1, <1>2, <1>6, <1>8 DEF Locations, here

\* A narrowed range still has the key between its ends: this is where the
\* order of the file is used.
LEMMA RangeNarrows ==
  ASSUME IInv, pc = "loop",
         NEW stalePrev \in Keys, NEW staleNext \in Keys, NEW v,
         v = Verdict(file, key, Mid, stalePrev, staleNext),
         v \notin Locations, Probe(v), UNCHANGED <<file, key>>
  PROVE  IInv'
<1>1. /\ Mid \in 0..(n - 1) /\ n \in Nat
      /\ v = "RIGHT" \/ v = "LEFT"
      /\ v = "RIGHT" => Mid < n - 1 /\ KeyAt(file, Mid + 1) <= key
      /\ v = "LEFT"  => Mid > 0 /\ key <= KeyAt(file, Mid - 1)
  BY ProbeIsRight DEF IInv
<1>2. /\ file \in Files /\ key \in Int /\ left \in Nat /\ right \in Int
      /\ left <= right /\ right <= n /\ left < n /\ n > 0
      /\ left > 0 => KeyAt(file, left) <= key
      /\ right < n => key <= KeyAt(file, right)
  BY FilesAssumption DEF IInv, TypeOK, RangeHolds
<1>3. /\ pc' = pc /\ cur' = Mid /\ location' = location /\ header' = header
      /\ file' = file /\ key' = key /\ n' = n
      /\ left'  = IF v = "RIGHT" THEN Mid + 1 ELSE left
      /\ right' = IF v = "LEFT" THEN Mid - 1 ELSE right
  BY DEF Probe, LowerBound, UpperBound, Probed, n
<1>4. Mid \in left..right
  BY <1>2, MidInRange DEF Mid
<1>5. \A i, j \in 0..(n - 1) : i < j => KeyAt(file, i) < KeyAt(file, j)
  BY <1>2, SortedPositions DEF n
<1>6. \A i \in 0..(n - 1) : KeyAt(file, i) \in Int
  BY <1>2, KeysAreIntegers DEF n
<1>7. /\ TypeOK' /\ NeverOverruns' /\ Brackets' /\ ResponseSet'
      /\ (/\ left' <= right' /\ right' <= n /\ left' < n
          /\ left' > 0  => KeyAt(file, left') <= key
          /\ right' < n => key <= KeyAt(file, right')) => RangeHolds'
  BY <1>1, <1>2, <1>3
     DEF IInv, TypeOK, NeverOverruns, Brackets, ResponseSet, RangeHolds, KeyAt
<1>8. CASE v = "RIGHT"
  <2>1. left' = Mid + 1 /\ right' = right
    BY <1>3, <1>8
  <2>2. left' < n /\ KeyAt(file, left') <= key
    BY <1>1, <1>8, <2>1
  <2>3. left' <= right
    <3>1. CASE right = n
      BY <1>1, <1>8, <2>1, <3>1
    <3>2. CASE right < n
      \* KeyAt(file, Mid + 1) <= key <= KeyAt(file, right), and files are sorted.
      <4>1. right \in 0..(n - 1) /\ left' \in 0..(n - 1)
        BY <1>1, <1>2, <2>1, <2>2, <3>2
      <4>2. ~ (right < left')
        BY <1>2, <1>5, <1>6, <2>2, <3>2, <4>1
      <4> QED BY <1>1, <4>1, <4>2
    <3> QED BY <1>1, <1>2, <3>1, <3>2
  <2> QED BY <1>2, <1>7, <2>1, <2>2, <2>3 DEF IInv
<1>9. CASE v = "LEFT"
  <2>1. left' = left /\ right' = Mid - 1
    BY <1>3, <1>9
  <2>2. right' \in 0..(n - 1) /\ right' < n /\ key <= KeyAt(file, right')
    BY <1>1, <1>9, <2>1
  <2>3. left <= right'
    <3>1. CASE left = 0
      BY <2>2, <3>1
    <3>2. CASE left > 0
      <4>1. left \in 0..(n - 1)
        BY <1>1, <1>2, <3>2
      <4>2. ~ (right' < left)
        BY <1>2, <1>5, <1>6, <2>2, <3>2, <4>1
      <4> QED BY <1>1, <2>2, <4>1, <4>2
    <3> QED BY <1>1, <1>2, <3>1, <3>2
  <2>4. right' <= n /\ left' < n /\ (left' > 0 => KeyAt(file, left') <= key)
    BY <1>1, <1>2, <2>1
  <2>5. RangeHolds'
    BY <1>7, <2>1, <2>2, <2>3, <2>4
  <2> QED BY <1>7, <2>5 DEF IInv
<1> QED BY <1>1, <1>7, <1>8, <1>9 DEF IInv

\* Breaking out of the loop leaves a location that brackets the key.
LEMMA FoundBrackets ==
  ASSUME IInv, pc = "loop",
         NEW stalePrev \in Keys, NEW staleNext \in Keys, NEW v,
         v = Verdict(file, key, Mid, stalePrev, staleNext),
         v \in Locations, Probe(v), UNCHANGED <<file, key>>
  PROVE  IInv'
<1>1. /\ Mid \in 0..(n - 1) /\ n \in Nat /\ v # "EMPTY_FILE"
      /\ v = "REC_CUR"  => KeyAt(file, Mid) = key
      /\ v = "REC_PREV" => /\ key < KeyAt(file, Mid)
                           /\ Mid > 0 => KeyAt(file, Mid - 1) < key
      /\ v = "REC_NEXT" => /\ KeyAt(file, Mid) < key
                           /\ Mid < n - 1 => key < KeyAt(file, Mid + 1)
  BY ProbeIsRight DEF IInv
<1>2. /\ pc' = "done" /\ cur' = Mid /\ location' = v
      /\ header' = (v = "REC_PREV" /\ Mid = 0)
      /\ file' = file /\ key' = key /\ left' = left /\ right' = right /\ n' = n
  BY DEF Probe, LowerBound, UpperBound, Probed, n
<1>3. TypeOK' /\ RangeHolds' /\ NeverOverruns' /\ ResponseSet'
  BY <1>1, <1>2 DEF IInv, TypeOK, RangeHolds, NeverOverruns, ResponseSet
<1>4. n # 0
  BY <1>1
<1>5. Brackets'
  BY <1>1, <1>2, <1>4 DEF Brackets, KeyAt
<1> QED BY <1>3, <1>5 DEF IInv

\* The loop invariant holds initially and every step keeps it.
LEMMA InvariantIsInductive ==
  /\ Init => IInv
  /\ IInv /\ [Next]_vars => IInv'
<1>1. Init => IInv
  <2> SUFFICES ASSUME Init PROVE IInv
    OBVIOUS
  <2>1. n \in Nat /\ file \in Files /\ key \in Keys
    BY KeysAreIntegers DEF Init, n
  <2>2. cur \in -1..(n - 1)
    BY <2>1 DEF Init
  <2>3. header \in BOOLEAN /\ location \in Locations
    BY Zenon DEF Init, Locations
  <2>4. TypeOK
    BY <2>1, <2>2, <2>3 DEF Init, TypeOK
  <2>5. RangeHolds /\ NeverOverruns /\ Brackets /\ ResponseSet
    BY DEF Init, RangeHolds, NeverOverruns, Brackets, ResponseSet
  <2> QED BY <2>4, <2>5 DEF IInv
<1>2. ASSUME IInv, ReturnEmpty PROVE IInv'
  <2>1. n' = n
    BY <1>2 DEF ReturnEmpty, n
  <2> QED BY <1>2, <2>1 DEF ReturnEmpty, IInv, TypeOK, RangeHolds, NeverOverruns,
                            Brackets, ResponseSet, Locations
<1>3. ASSUME IInv, EnterLoop PROVE IInv'
  <2>1. n' = n /\ n \in Nat
    BY <1>3, KeysAreIntegers DEF EnterLoop, n, IInv, TypeOK
  <2> QED BY <1>3, <2>1 DEF EnterLoop, IInv, TypeOK, RangeHolds, NeverOverruns,
                            Brackets, ResponseSet
<1>4. ASSUME IInv, Iterate PROVE IInv'
  <2>1. pc = "loop" /\ UNCHANGED <<file, key>>
    BY <1>4 DEF Iterate
  <2>2. PICK stalePrev \in Keys, staleNext \in Keys :
          IF left > right THEN LeaveLoop
          ELSE IF Mid >= n THEN Overrun
          ELSE Probe(Verdict(file, key, Mid, stalePrev, staleNext))
    BY <1>4 DEF Iterate
  <2> DEFINE v == Verdict(file, key, Mid, stalePrev, staleNext)
  <2>3. Mid \in 0..(n - 1) /\ n \in Nat
    BY <1>4, <2>1, ProbeIsRight DEF IInv
  <2>4. Probe(v)
    BY <1>4, <2>1, <2>2, <2>3 DEF IInv, TypeOK, RangeHolds
  <2>5. CASE v \in Locations
    BY <1>4, <2>1, <2>4, <2>5, FoundBrackets
  <2>6. CASE v \notin Locations
    BY <1>4, <2>1, <2>4, <2>6, RangeNarrows
  <2> QED BY <2>5, <2>6
<1>5. ASSUME IInv, UNCHANGED vars PROVE IInv'
  BY <1>5 DEF IInv, TypeOK, RangeHolds, NeverOverruns, Brackets, ResponseSet, vars, n
<1> QED BY <1>1, <1>2, <1>3, <1>4, <1>5 DEF Next

\* binarySearch keeps its loop invariant, on a file of any length.
THEOREM SearchInvariant == Spec => []IInv
<1> QED BY InvariantIsInductive, PTL DEF Spec

\* left, right and the probed position stay within the widths the loop gives
\* them, and the response is one of those binarySearch can make.
THEOREM SearchTypeOK == Spec => []TypeOK
<1>1. IInv => TypeOK
  BY DEF IInv
<1> QED BY <1>1, SearchInvariant, PTL

\* The search never reads past the last record, although right starts there.
THEOREM SearchNeverOverruns == Spec => []NeverOverruns
<1>1. IInv => NeverOverruns
  BY DEF IInv
<1> QED BY <1>1, SearchInvariant, PTL

\* Whatever binarySearch returns brackets the key, and EMPTY_FILE means that
\* the file has no record.
THEOREM SearchBrackets == Spec => []Brackets
<1>1. IInv => Brackets
  BY DEF IInv
<1> QED BY <1>1, SearchInvariant, PTL
=============================================================================
