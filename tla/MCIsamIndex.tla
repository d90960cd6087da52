---------------------------- MODULE MCIsamIndex ----------------------------
(* IsamIndex with the calls for the keys from FirstCall to LastCall, those of *)
(* one of the leaves and the key that the next one begins with: the pages of  *)
(* different leaves have nothing in common but the end of the file.           *)
EXTENDS IsamIndex

CONSTANTS MaxKey, FirstCall, LastCall
MCKey == 1..MaxKey

\* As many records as the leaves hold, with equal keys in one leaf and in two; two
\* more than that, which need a page and a duplicate; too few.
MCBatches == {<<1, 1, 2, 4, 5, 7, 8, 8, 9, 9, 10, 10>>,
              <<1, 2, 2, 4, 5, 7, 7, 8, 8, 9, 9, 10, 11, 11>>,
              <<1, 2, 3>>}

\* A batch replaces whatever the files had: one call on an index that is built is
\* like one on an index that is not.
CallsNext == \/ CallsOn(FirstCall..LastCall) \/ Reopen
             \/ ~ built /\ \E batch \in Batches : BulkInsert(batch)
CallsSpec == Init /\ [][CallsNext]_vars

\* No step reads the last call or its outcome, nor a page that is in no chain.
View ==
  LET linked == UNION {ToSet(ChainOf(leaf)) : leaf \in 1..Leaves}
  IN  IF ~ built THEN <<>>
      ELSE <<[p \in DOMAIN isam.pages |-> IF p \in linked THEN isam.pages[p] ELSE <<>>], isam.sep>>
=============================================================================
