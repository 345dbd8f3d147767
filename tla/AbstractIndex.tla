--------------------------- MODULE AbstractIndex ---------------------------
(***************************************************************************)
(* What an index promises its callers, with no pages in it: a map from     *)
(* key to row id.  Insert is an upsert: it replaces the row id of a key    *)
(* already present.  Delete of a missing key changes nothing.  `op` is the *)
(* last call, so that every call is bound to its own effect: an Insert     *)
(* that is lost, or that does not overwrite, is not a step of this spec.   *)
(*                                                                         *)
(* BTree is checked to implement this specification under a refinement    *)
(* mapping (BTree!AbstractSpec).                                           *)
(***************************************************************************)
CONSTANTS Keys,    \* normalized keys
          RIDs,    \* row ids
          NoRID    \* the answer of a search for a missing key

VARIABLES index,   \* index[k]: the row id stored under k, or NoRID
          op       \* the last call and its arguments

Init == index = [k \in Keys |-> NoRID] /\ op = <<"none">>

\* Insert(k, r): afterwards k maps to r, every other key as before.
Insert(k, r) == op' = <<"insert", k, r>> /\ index' = [index EXCEPT ![k] = r]

\* Delete(k): afterwards k is absent, every other key as before.
Delete(k) == op' = <<"delete", k>> /\ index' = [index EXCEPT ![k] = NoRID]

Next == \E k \in Keys : Delete(k) \/ \E r \in RIDs : Insert(k, r)

Spec == Init /\ [][Next]_<<index, op>>
=============================================================================
