--------------------------- MODULE MCEngineCalls ----------------------------
(* EngineCalls with three threads and two keys, enough for calls to race on   *)
(* the same key or on different ones.  No step reads `reply'.                 *)
EXTENDS EngineCalls, TLC

CONSTANT MaxKey
MCKey == 1..MaxKey
MCView == <<serial, heap, indexFiles, count, stream, leaked, call, calls>>
MCSymmetry == Permutations(Thread)
=============================================================================
