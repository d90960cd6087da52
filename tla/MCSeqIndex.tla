----------------------------- MODULE MCSeqIndex -----------------------------
(* SeqIndex on a few keys, for both kinds of index.  With six keys there    *)
(* can be two or three overflow records behind one record of the index file,*)
(* behind the header, or behind different ones; with five entries there are *)
(* duplicates on records of either file, and a removal or a rebuild among   *)
(* them.  Zero is a key, since it is also a byte offset.  bulk_insert gets  *)
(* every batch that is no longer than that.                                 *)
EXTENDS SeqIndex

CONSTANTS MinKey, MaxKey, MaxUnique, MaxRepeated
MCKey == MinKey..MaxKey
MCBulks ==
  LET keys == SetToSortSeq(MCKey, <)
      batch(count) == FlattenSeq([i \in DOMAIN keys |-> [j \in 1..count[keys[i]] |-> <<keys[i], j>>]])
  IN  {bulk \in {batch(count) : count \in [MCKey -> 0..MaxPerKey]} : Len(bulk) \in 1..MaxRepeated}
MCMaxRecords == [pk \in BOOLEAN |-> IF pk THEN MaxUnique ELSE MaxRepeated]
=============================================================================
