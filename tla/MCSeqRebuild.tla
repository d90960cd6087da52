---------------------------- MODULE MCSeqRebuild ----------------------------
(* SeqRebuild with the keys 1 to MaxKey.  No step reads `reply', `past' or    *)
(* `want', but the properties do, so there is no view.                        *)
EXTENDS SeqRebuild

CONSTANT MaxKey
MCKey == 1..MaxKey
=============================================================================
