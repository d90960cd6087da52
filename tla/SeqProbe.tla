------------------------------ MODULE SeqProbe ------------------------------
(***************************************************************************)
(* One probe of SequentialIndex::binarySearch: what the loop body decides  *)
(* from the record it reads in the middle and its two physical neighbours. *)
(*                                                                         *)
(* A "file" is here the sequence of the keys of the index file, in         *)
(* physical order.  Logical positions are those of the code: they start at *)
(* 0, so the key at logical position m is file[m + 1].                     *)
(***************************************************************************)
EXTENDS Integers, Sequences

Locations == {"EMPTY_FILE", "REC_PREV", "REC_CUR", "REC_NEXT"}

KeyAt(file, m) == file[m + 1]

\* sir_prev is read only when the probed record is not the first one, and
\* sir_next only when it is not the last one.  Otherwise the loop tests what
\* the variable held before: `stale'.
PrevKey(file, m, stale) == IF m > 0 THEN KeyAt(file, m - 1) ELSE stale
NextKey(file, m, stale) == IF m < Len(file) - 1 THEN KeyAt(file, m + 1) ELSE stale

IsLast(file, m) == m = Len(file) - 1

\* Mutant: no test for a key beyond the last record.
CompareNoLast(key, prev, cur, next, first, last) ==
  IF cur = key                       THEN "REC_CUR"
  ELSE IF first /\ key < cur         THEN "REC_PREV"
  ELSE IF prev < key /\ key < cur    THEN "REC_PREV"
  ELSE IF cur < key /\ key < next /\ ~ last THEN "REC_NEXT"
  ELSE IF cur < key                  THEN "RIGHT"
  ELSE "LEFT"

\* Mutant: a record above the key is taken for its successor.
CompareNoPrev(key, prev, cur, next, first, last) ==
  IF cur = key               THEN "REC_CUR"
  ELSE IF last /\ cur < key  THEN "REC_NEXT"
  ELSE IF key < cur          THEN "REC_PREV"
  ELSE IF cur < key /\ key < next THEN "REC_NEXT"
  ELSE "RIGHT"

\* The tests of the loop body, in their order, given the data of sir_prev,
\* sir_cur and sir_next.  "RIGHT" and "LEFT" are the two branches that narrow
\* the range and loop again.
Compare(key, prev, cur, next, first, last) ==
  IF cur = key                       THEN "REC_CUR"
  ELSE IF last /\ cur < key          THEN "REC_NEXT"
  ELSE IF first /\ key < cur         THEN "REC_PREV"
  ELSE IF prev < key /\ key < cur    THEN "REC_PREV"
  ELSE IF cur < key /\ key < next    THEN "REC_NEXT"
  ELSE IF cur < key                  THEN "RIGHT"
  ELSE "LEFT"

Verdict(file, key, m, stalePrev, staleNext) ==
  Compare(key, PrevKey(file, m, stalePrev), KeyAt(file, m),
          NextKey(file, m, staleNext), m = 0, IsLast(file, m))

Sorted(file) == \A i, j \in 1..Len(file) : i < j => file[i] < file[j]

=============================================================================
