------------------------------ MODULE KeyIndex ------------------------------
(***************************************************************************)
(* What an index promises the engine: for every key, the raw positions of  *)
(* the heap records that have it.  All the callers of an index see of it   *)
(* is the effect of add, remove and bulk_insert on this map, and the reply *)
(* to the last call.                                                       *)
(*                                                                         *)
(* An operation has the arguments of the call, so an index can be held to  *)
(* the one it was asked for.                                               *)
(***************************************************************************)
EXTENDS Integers, Sequences

CONSTANT
  Key         \* values of the indexed attribute

VARIABLES
  PK,         \* TRUE: the index is on the primary key, keys are unique
  entries,    \* the positions recorded for each key
  reply       \* the outcome of the last call

Init == /\ PK \in BOOLEAN
        /\ entries = [k \in Key |-> {}]
        /\ reply = "none"

\* A key goes in with the position its record will have, unless the index is on
\* the primary key and has the key.
Refused(e, k) == PK /\ e[k] # {}

Add(k, raw) ==
  /\ IF Refused(entries, k) THEN reply' = "duplicate" /\ UNCHANGED entries
     ELSE reply' = "ok" /\ entries' = [entries EXCEPT ![k] = @ \union {raw}]
  /\ UNCHANGED PK

\* All the positions of a key go away together.
Remove(k) ==
  /\ reply' = IF entries[k] = {} THEN "absent" ELSE "ok"
  /\ entries' = [entries EXCEPT ![k] = {}]
  /\ UNCHANGED PK

\* The entries with the first n records <<key, position>> of a batch.
With(batch, n) ==
  [k \in Key |-> entries[k] \union {batch[i][2] : i \in {j \in 1..n : batch[j][1] = k}}]

\* Takes in a batch, or the part of it before the first key that is refused.
BulkInsert(batch) ==
  LET refused == {i \in DOMAIN batch : Refused(With(batch, i - 1), batch[i][1])}
  IN  /\ \/ reply' = "loaded" /\ refused = {} /\ entries' = With(batch, Len(batch))
         \/ /\ reply' = "stopped"
            /\ \E i \in refused : /\ \A j \in refused : i <= j
                                  /\ entries' = With(batch, i - 1)
      /\ UNCHANGED PK

\* An index that has entries may also leave a batch alone.
BulkIgnored ==
  /\ reply' = "ignored"
  /\ \E k \in Key : entries[k] # {}
  /\ UNCHANGED <<PK, entries>>
=============================================================================
