--------------------------- MODULE AbstractStore ---------------------------
(***************************************************************************)
(* What a multi-version row store promises its callers, with nothing about *)
(* versions: each transaction collects a private set of writes, and the    *)
(* committed rows change only when a transaction commits, by exactly the   *)
(* writes it made. A rolled-back transaction leaves no trace.              *)
(*                                                                         *)
(* MvccStore is checked to implement this specification under a           *)
(* refinement mapping (MvccStore!AbstractSpec).                            *)
(***************************************************************************)
CONSTANTS Txns,   \* transaction ids
          Rows,   \* row ids
          Data    \* row contents

Absent  == "absent"     \* the row does not exist (never inserted, or deleted)
NoWrite == "nowrite"    \* the transaction has not written the row

VARIABLES db,     \* db[r]: the committed contents of row r, or Absent
          wset    \* wset[t][r]: what t last wrote to r, or NoWrite

vars == <<db, wset>>

Values == Data \cup {Absent}
NoWrites == [r \in Rows |-> NoWrite]

TypeOK ==
    /\ db \in [Rows -> Values]
    /\ wset \in [Txns -> [Rows -> Values \cup {NoWrite}]]

Init ==
    /\ db = [r \in Rows |-> Absent]
    /\ wset = [t \in Txns |-> NoWrites]

\* t writes v to r (insert or update) or deletes it (v = Absent), privately.
Write(t, r, v) ==
    /\ wset' = [wset EXCEPT ![t][r] = v]
    /\ UNCHANGED db

\* t commits: its writes become the committed contents, all at once.
Commit(t) ==
    /\ db' = [r \in Rows |-> IF wset[t][r] = NoWrite THEN db[r] ELSE wset[t][r]]
    /\ wset' = [wset EXCEPT ![t] = NoWrites]

\* t rolls back: its writes are dropped.
Abort(t) ==
    /\ wset' = [wset EXCEPT ![t] = NoWrites]
    /\ UNCHANGED db

Next ==
    \/ \E t \in Txns, r \in Rows, v \in Values : Write(t, r, v)
    \/ \E t \in Txns : Commit(t) \/ Abort(t)

Spec == Init /\ [][Next]_vars
=============================================================================
