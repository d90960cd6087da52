----------------------------- MODULE MCSecondary -----------------------------
(* Secondary with a table of up to MaxCount rows.  No step reads `reply'.     *)
EXTENDS Secondary

CONSTANT MaxKey
MCKey == 1..MaxKey
MCTable == {"t"}
MCAttr == [t \in MCTable |-> "id"]
\* The rows of 1 and 2 have the same value, so the index has one key with several
\* rows, and there is a row whose key is none of its keys.
\* Of the other columns there are no indexes.
MCColumn == {"x", "name", "flag"}
MCColumnType == [c \in MCColumn |-> CASE c = "x" -> "number" [] c = "name" -> "VARCHAR"
                                       [] c = "flag" -> "BOOL"]
MCKeyType == [t \in MCTable |-> "number"]
MCValue == [c \in MCColumn |-> [k \in MCKey |-> 2]]
MCView == <<disk, process, secondary>>
=============================================================================
