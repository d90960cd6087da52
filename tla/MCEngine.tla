------------------------------ MODULE MCEngine ------------------------------
(* Engine with three tables whose primary keys have names of their own: one   *)
(* that is filled as far as MaxCount allows, one that gets a record of one    *)
(* key, to be beside it, and one whose key is not an attribute, which leaves  *)
(* it without an index as a BOOL key would.  No action reads `reply', so      *)
(* states that differ in it only are one.                                     *)
EXTENDS Engine

CONSTANT MaxKey
MCView == <<disk, process>>
MCKey == 1..MaxKey
MCTable == {"full", "beside", "unknown"}
MCOneTable == {"full"}
MCOwnNames == [t \in Table |-> t]
MCKeyType == [t \in Table |-> IF t \in {"full", "beside"} THEN "number" ELSE t]

MCNext == Next /\ \A t \in Table \ {"full"} :
            count'[t] <= 1 /\ \A k \in Key \ {1} : index'[t][k] = NoEntry
MCSpec == Init /\ [][MCNext]_vars
=============================================================================
