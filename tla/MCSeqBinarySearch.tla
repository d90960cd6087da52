------------------------- MODULE MCSeqBinarySearch --------------------------
(* SeqBinarySearch on files of up to MaxRecords records.  The search only   *)
(* compares, so one file per length and the keys on and between its records *)
(* are every case there is up to order.                                     *)
EXTENDS SeqBinarySearch

CONSTANT MaxRecords

MCFiles == {[i \in 1..len |-> 2 * i] : len \in 0..MaxRecords}
MCKeys == 0..(2 * MaxRecords + 1)
=============================================================================
