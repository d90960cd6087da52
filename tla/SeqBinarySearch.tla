-------------------------- MODULE SeqBinarySearch ---------------------------
(***************************************************************************)
(* The loop of SequentialIndex::binarySearch, one step per iteration.      *)
(*                                                                         *)
(* The code starts with right = number of records, one past the last       *)
(* logical position, so whether `mid' can ever be that position (a read    *)
(* beyond the end of the file, which leaves the stream failed) depends on  *)
(* the order of the tests.  Neither does the code say what it returns when *)
(* the range becomes empty: the default location is EMPTY_FILE, which its  *)
(* callers take for "the index has no record".                             *)
(***************************************************************************)
EXTENDS SeqProbe

CONSTANTS
  Files,     \* the contents the index file may have
  Keys       \* the keys searched for, and what unread variables may hold

\* The index file is sorted: bulk_insert sorts, rebuild writes the chain.
ASSUME FilesAssumption == /\ Keys \subseteq Int
                          /\ \A f \in Files : f \in Seq(Int) /\ Sorted(f)

VARIABLES
  pc,        \* "start", "loop", "done", or "overrun": a read past the end
  file,      \* keys of the index file, never written here
  key,       \* data, the argument
  left,      \* logical_left
  right,     \* logical_right
  cur,       \* logical position of sir, the record of the response; -1: none
  location,  \* BinarySearchResponse.location
  header     \* BinarySearchResponse.header

vars == <<pc, file, key, left, right, cur, location, header>>

n == Len(file)

Init == /\ pc = "start"
        /\ file \in Files
        /\ key \in Keys
        /\ left = 0 /\ right = 0 /\ cur = -1
        /\ location = "EMPTY_FILE" /\ header = FALSE

\* Only the header in the file: return at once.
ReturnEmpty == /\ pc = "start" /\ n = 0
               /\ pc' = "done"
               /\ UNCHANGED <<file, key, left, right, cur, location, header>>

EnterLoop == /\ pc = "start" /\ n # 0
             /\ pc' = "loop"
             /\ right' = n
             /\ UNCHANGED <<file, key, left, cur, location, header>>

Mid == (left + right) \div 2

\* Reading at or after the end fails without an exception and the stream stays
\* failed: the search is lost.
Overrun == /\ pc' = "overrun"
           /\ UNCHANGED <<left, right, cur, location, header>>

\* The loop condition fails: the response keeps its default location.
LeaveLoop == /\ pc' = "done"
             /\ UNCHANGED <<left, right, cur, location, header>>

\* Mutants: the lower bound stays on the middle; the response keeps the record after
\* the one that was probed.
LowerStays(verdict) == IF verdict = "RIGHT" THEN Mid ELSE left
NextProbed == Mid + 1

LowerBound(verdict) == IF verdict = "RIGHT" THEN Mid + 1 ELSE left
UpperBound(verdict) == IF verdict = "LEFT" THEN Mid - 1 ELSE right
Probed == Mid

\* The rest of the loop body, once the verdict on the probed record is known:
\* break with a location, or narrow the range.
Probe(verdict) ==
  /\ cur' = Probed
  /\ IF verdict \in Locations
     THEN /\ pc' = "done"
          /\ location' = verdict
          /\ header' = (verdict = "REC_PREV" /\ Mid = 0)
          /\ UNCHANGED <<left, right>>
     ELSE /\ left' = LowerBound(verdict)
          /\ right' = UpperBound(verdict)
          /\ UNCHANGED <<pc, location, header>>

Iterate ==
  /\ pc = "loop"
  /\ UNCHANGED <<file, key>>
  /\ \E stalePrev, staleNext \in Keys :
       IF left > right THEN LeaveLoop
       ELSE IF Mid >= n THEN Overrun
       ELSE Probe(Verdict(file, key, Mid, stalePrev, staleNext))

Next == ReturnEmpty \/ EnterLoop \/ Iterate

\* A call runs on the thread of its caller without waiting for anything.
Spec == Init /\ [][Next]_vars /\ WF_vars(Next)

-----------------------------------------------------------------------------
TypeOK == /\ pc \in {"start", "loop", "done", "overrun"}
          /\ file \in Files /\ key \in Keys
          /\ left \in Nat /\ right \in Int
          /\ cur \in -1..(n - 1)
          /\ location \in Locations /\ header \in BOOLEAN

\* The search never reads past the last record although right starts there.
NeverOverruns == pc # "overrun"

\* What the callers of binarySearch rely on: the location and the record of
\* the response bracket the key, and EMPTY_FILE means that there is no record.
\* `header' is set exactly when the key is below every record.
Brackets ==
  pc = "done" =>
    /\ location = "EMPTY_FILE" <=> n = 0
    /\ location = "REC_CUR"  => KeyAt(file, cur) = key
    /\ location = "REC_PREV" => /\ key < KeyAt(file, cur)
                                /\ cur > 0 => KeyAt(file, cur - 1) < key
    /\ location = "REC_NEXT" => /\ KeyAt(file, cur) < key
                                /\ cur < n - 1 => key < KeyAt(file, cur + 1)
    /\ header <=> (location = "REC_PREV" /\ cur = 0)

\* The fact that makes the search right: a bound that has moved stands on a
\* record on its own side of the key, so the range never becomes empty and
\* left never reaches the end.
RangeHolds ==
  pc = "loop" => /\ n > 0 /\ left <= right /\ right <= n /\ left < n
                 /\ left > 0  => KeyAt(file, left) <= key
                 /\ right < n => key <= KeyAt(file, right)

\* Every search returns.
Terminates == <>(pc = "done")
=============================================================================
