-------------------------------- MODULE Mvcc --------------------------------
(***************************************************************************)
(* Snapshot isolation as minidb implements it: the transaction manager     *)
(* (src/unnamed/part_006, txn.Manager), snapshot visibility               *)
(* (src/internal/txn/mvcc.go), the SQL executor's statement handlers      *)
(* (src/internal/sql/executor.go) over one table heap, and vacuum.         *)
(*                                                                         *)
(* Every session is one Executor sharing the manager and the heap.  A      *)
(* statement's body (scan, filter, write, autocommit) is one step.         *)
(* Manager.Begin is two steps, because its id allocation                   *)
(* (atomic.AddUint64) happens before m.mu is taken: the step between is    *)
(* visible to other threads unless the engine runs one statement at a time *)
(* (StatementLock).                                                        *)
(*                                                                         *)
(* Data is abstracted: a tuple is its MVCC header (xmin, xmax), whether its *)
(* slot is still in use, and a ghost field: the logical row it is a        *)
(* version of.  A WHERE clause is any subset of the visible tuples.        *)
(***************************************************************************)
EXTENDS Naturals, FiniteSets, Sequences, FiniteSetsExt, SequencesExt

CONSTANTS
    Sessions,       \* executors sharing one txn.Manager and one heap
    TxnIdBound,     \* largest transaction id the model allocates
    MaxTuples,      \* largest number of tuple slots in the heap
    StatementLock,  \* TRUE: one statement in flight at a time (spec section 5)
    VacuumEnabled   \* TRUE: the engine's VACUUM may run between statements

ASSUME TxnIdBound \in Nat /\ TxnIdBound >= 2
ASSUME MaxTuples \in Nat
ASSUME StatementLock \in BOOLEAN /\ VacuumEnabled \in BOOLEAN

InvalidTxnID == 0                 \* types.InvalidTxnID
TxnIDs == 2 .. TxnIdBound         \* NewManager sets nextTxnID to 1; Begin pre-increments
MaxTxnID == TxnIdBound + 1        \* types.MaxTxnID: above every id the model allocates
NoTxn == InvalidTxnID             \* e.currentTxn == nil

VARIABLES
    nextTxnID,   \* Manager.nextTxnID
    activeTxns,  \* DOMAIN Manager.activeTxns
    status,      \* Transaction.Status of every id ("unused" before Begin)
    snapshot,    \* Transaction.Snapshot of every id
    heap,        \* the table heap's tuples, in scan order
    current,     \* Executor.currentTxn of every session
    pc,          \* where a session is inside a statement
    stmtTxn      \* the transaction a session is beginning or autocommitting

vars == <<nextTxnID, activeTxns, status, snapshot, heap, current, pc, stmtTxn>>

Statuses == {"unused", "running", "committed", "aborted"}
Snapshots == [xmin : TxnIDs \cup {MaxTxnID}, xmax : 0 .. TxnIdBound, active : SUBSET TxnIDs]
Tuples == [xmin : TxnIDs, xmax : {InvalidTxnID} \cup TxnIDs, live : BOOLEAN,
           row : Nat]
\* idle: between statements; begin / autobegin: the id is allocated and
\* Begin waits for m.mu; auto: inside an autocommit statement's body.
PCs == {"idle", "begin", "autobegin", "auto"}

-----------------------------------------------------------------------------
(* Visibility (mvcc.go) *)

\* Snapshot.isTxnVisible
isTxnVisible(s, x) ==
    /\ x # InvalidTxnID
    /\ x < s.xmax
    /\ x \notin s.active

\* Snapshot.IsVisible
IsVisible(s, tup) ==
    /\ isTxnVisible(s, tup.xmin)
    /\ tup.xmax = InvalidTxnID \/ ~isTxnVisible(s, tup.xmax)

\* TableHeap.Scan filtered by IsVisible: the slots a statement of a
\* transaction with snapshot s reads.
VisibleSlots(s) == {i \in DOMAIN heap : heap[i].live /\ IsVisible(s, heap[i])}

-----------------------------------------------------------------------------
(* Transaction manager (part_006) *)

\* Manager.createSnapshotLocked: Xmax is nextTxnID as loaded now, the
\* active set is a copy of activeTxns, Xmin their minimum or Xmax.
createSnapshotLocked ==
    [xmin   |-> IF activeTxns = {} THEN nextTxnID ELSE Min(activeTxns),
     xmax   |-> nextTxnID,
     active |-> activeTxns]

\* Manager.updateGlobalXmin, recomputed under m.mu on every change of activeTxns.
GlobalXmin == IF activeTxns = {} THEN MaxTxnID ELSE Min(activeTxns)

\* atomic.AddUint64(&m.nextTxnID, 1): the new value is the transaction's id.
AllocTxnID(s) ==
    /\ nextTxnID < TxnIdBound
    /\ nextTxnID' = nextTxnID + 1
    /\ stmtTxn' = [stmtTxn EXCEPT ![s] = nextTxnID + 1]

\* Manager.Commit of a running transaction t.
CommitTxn(t) ==
    /\ status' = [status EXCEPT ![t] = "committed"]
    /\ activeTxns' = activeTxns \ {t}

\* Manager.Rollback of a running transaction t.  Nothing in the heap is undone.
RollbackTxn(t) ==
    /\ status' = [status EXCEPT ![t] = "aborted"]
    /\ activeTxns' = activeTxns \ {t}

-----------------------------------------------------------------------------
(* Executor (executor.go) *)

\* No other session is inside a statement, when statements are serialized.
NoOtherStatement(s) == StatementLock => \A o \in Sessions \ {s} : pc[o] = "idle"

\* The transaction the statement of session s runs in (getTransaction).
TxnOf(s) == IF pc[s] = "auto" THEN stmtTxn[s] ELSE current[s]

\* Session s may run a statement body: inside an explicit transaction, or
\* in the autocommit transaction getTransaction began for it.
InStatement(s) ==
    \/ pc[s] = "auto"
    \/ pc[s] = "idle" /\ current[s] # NoTxn /\ NoOtherStatement(s)

\* The end of a statement body: `if autoCommit { FlushAllPages; Commit }`.
Finish(s) ==
    IF pc[s] = "auto"
    THEN /\ CommitTxn(stmtTxn[s])
         /\ pc' = [pc EXCEPT ![s] = "idle"]
    ELSE UNCHANGED <<status, activeTxns, pc>>

\* A new tuple version written by transaction t.
NewVersion(t, r) == [xmin |-> t, xmax |-> InvalidTxnID, live |-> TRUE, row |-> r]

\* executeBegin with no transaction in progress: Begin up to taking m.mu.
ExecBegin(s) ==
    /\ pc[s] = "idle" /\ current[s] = NoTxn /\ NoOtherStatement(s)
    /\ AllocTxnID(s)
    /\ pc' = [pc EXCEPT ![s] = "begin"]
    /\ UNCHANGED <<activeTxns, status, snapshot, heap, current>>

\* getTransaction with no transaction in progress (INSERT, SELECT, UPDATE,
\* DELETE after their catalog checks): an autocommit Begin up to m.mu.
AutoBegin(s) ==
    /\ pc[s] = "idle" /\ current[s] = NoTxn /\ NoOtherStatement(s)
    /\ AllocTxnID(s)
    /\ pc' = [pc EXCEPT ![s] = "autobegin"]
    /\ UNCHANGED <<activeTxns, status, snapshot, heap, current>>

\* The rest of Manager.Begin under m.mu: snapshot, install, updateGlobalXmin.
BeginLocked(s) ==
    LET t == stmtTxn[s] IN
    /\ pc[s] \in {"begin", "autobegin"}
    /\ snapshot' = [snapshot EXCEPT ![t] = createSnapshotLocked]
    /\ status' = [status EXCEPT ![t] = "running"]
    /\ activeTxns' = activeTxns \cup {t}
    /\ IF pc[s] = "begin"
       THEN /\ current' = [current EXCEPT ![s] = t]
            /\ pc' = [pc EXCEPT ![s] = "idle"]
       ELSE /\ pc' = [pc EXCEPT ![s] = "auto"]
            /\ UNCHANGED current
    /\ UNCHANGED <<nextTxnID, heap, stmtTxn>>

\* executeCommit: FlushAllPages (no effect on visibility), Manager.Commit,
\* currentTxn = nil.
ExecCommit(s) ==
    /\ pc[s] = "idle" /\ current[s] # NoTxn /\ NoOtherStatement(s)
    /\ CommitTxn(current[s])
    /\ current' = [current EXCEPT ![s] = NoTxn]
    /\ UNCHANGED <<nextTxnID, snapshot, heap, pc, stmtTxn>>

\* executeRollback: MVCCStore.RollbackTransaction (the in-memory store,
\* which no read consults), Manager.Rollback, currentTxn = nil.
ExecRollback(s) ==
    /\ pc[s] = "idle" /\ current[s] # NoTxn /\ NoOtherStatement(s)
    /\ RollbackTxn(current[s])
    /\ current' = [current EXCEPT ![s] = NoTxn]
    /\ UNCHANGED <<nextTxnID, snapshot, heap, pc, stmtTxn>>

\* Execute returning an error before any transaction is touched: a parse
\* error, an unknown table, BEGIN inside a transaction, COMMIT or ROLLBACK
\* outside one.
Rejected(s) ==
    /\ pc[s] = "idle" /\ NoOtherStatement(s)
    /\ UNCHANGED vars

\* executeInsert after getTransaction: heap.Insert appends a version with
\* xmin = txn, xmax = 0, then the autocommit Commit.
ExecInsert(s) ==
    /\ InStatement(s)
    /\ Len(heap) < MaxTuples
    /\ heap' = Append(heap, NewVersion(TxnOf(s), Len(heap) + 1))
    /\ Finish(s)
    /\ UNCHANGED <<nextTxnID, snapshot, current, stmtTxn>>

\* executeSelect after getTransaction: the scan reads VisibleSlots and
\* changes nothing; then the autocommit Commit.
ExecSelect(s) ==
    /\ InStatement(s)
    /\ Finish(s)
    /\ UNCHANGED <<nextTxnID, snapshot, heap, current, stmtTxn>>

\* An error return after getTransaction (INSERT's column count mismatch or
\* heap.Insert error, the scan error of SELECT, UPDATE or DELETE): the
\* statement returns without Commit or Rollback, so an autocommit
\* transaction stays in activeTxns with no session holding it.
StatementError(s) ==
    /\ InStatement(s)
    /\ pc' = [pc EXCEPT ![s] = "idle"]
    /\ UNCHANGED <<nextTxnID, activeTxns, status, snapshot, heap, current, stmtTxn>>

\* The new versions of the tuples at the slots ord, in scan order.
NewVersions(ord, t) == [k \in DOMAIN ord |-> NewVersion(t, heap[ord[k]].row)]

\* executeUpdate after getTransaction: for every visible tuple matching
\* WHERE, in scan order, set XMax on the scanned copy (never written back)
\* and heap.Insert a new version; then the autocommit Commit.
ExecUpdate(s) ==
    LET t == TxnOf(s) IN
    /\ InStatement(s)
    /\ \E M \in SUBSET VisibleSlots(snapshot[t]) :
          LET ord == SetToSortSeq(M, <) IN
          /\ Len(heap) + Len(ord) <= MaxTuples
          /\ heap' = heap \o NewVersions(ord, t)
    /\ Finish(s)
    /\ UNCHANGED <<nextTxnID, snapshot, current, stmtTxn>>

\* executeUpdate whose heap.Insert fails at the k-th matching tuple: the
\* versions inserted before stay, and an autocommit transaction is rolled
\* back; an explicit one is left running.
UpdateFails(s) ==
    LET t == TxnOf(s) IN
    /\ InStatement(s)
    /\ \E M \in SUBSET VisibleSlots(snapshot[t]) :
          LET ord == SetToSortSeq(M, <) IN
          \E k \in DOMAIN ord :
             LET done == SubSeq(ord, 1, k - 1) IN
             /\ Len(heap) + Len(done) <= MaxTuples
             /\ heap' = heap \o NewVersions(done, t)
    /\ IF pc[s] = "auto"
       THEN RollbackTxn(t) /\ pc' = [pc EXCEPT ![s] = "idle"]
       ELSE UNCHANGED <<status, activeTxns, pc>>
    /\ UNCHANGED <<nextTxnID, snapshot, current, stmtTxn>>

\* executeDelete after getTransaction: for every visible tuple matching
\* WHERE, set XMax = txn and heap.Update it in place; then the autocommit
\* Commit.  Nothing checks whether XMax was already set.
ExecDelete(s) ==
    LET t == TxnOf(s) IN
    /\ InStatement(s)
    /\ \E M \in SUBSET VisibleSlots(snapshot[t]) :
          heap' = [i \in DOMAIN heap |->
                     IF i \in M THEN [heap[i] EXCEPT !.xmax = t]
                                ELSE heap[i]]
    /\ Finish(s)
    /\ UNCHANGED <<nextTxnID, snapshot, current, stmtTxn>>

-----------------------------------------------------------------------------
(* Vacuum (spec section 4.7; engine.go is not part of the sources) *)

\* A tuple is reclaimable iff xmax # 0, xmax < global-xmin and the xmax
\* transaction is in the committed-txns set.
Reclaimable(tup) ==
    /\ tup.live
    /\ tup.xmax # InvalidTxnID
    /\ tup.xmax < GlobalXmin
    /\ status[tup.xmax] = "committed"

\* Engine.Vacuum: tombstone every reclaimable tuple, between statements.
Vacuum ==
    /\ VacuumEnabled
    /\ StatementLock => \A s \in Sessions : pc[s] = "idle"
    /\ heap' = [i \in DOMAIN heap |->
                  IF Reclaimable(heap[i]) THEN [heap[i] EXCEPT !.live = FALSE]
                                          ELSE heap[i]]
    /\ UNCHANGED <<nextTxnID, activeTxns, status, snapshot, current, pc, stmtTxn>>

-----------------------------------------------------------------------------

Init ==
    /\ nextTxnID = 1
    /\ activeTxns = {}
    /\ status = [t \in TxnIDs |-> "unused"]
    /\ snapshot = [t \in TxnIDs |-> [xmin |-> MaxTxnID, xmax |-> 0, active |-> {}]]
    /\ heap = << >>
    /\ current = [s \in Sessions |-> NoTxn]
    /\ pc = [s \in Sessions |-> "idle"]
    /\ stmtTxn = [s \in Sessions |-> NoTxn]

Next ==
    \/ \E s \in Sessions :
          \/ ExecBegin(s) \/ AutoBegin(s) \/ BeginLocked(s)
          \/ ExecCommit(s) \/ ExecRollback(s) \/ Rejected(s)
          \/ ExecInsert(s) \/ ExecSelect(s) \/ StatementError(s)
          \/ ExecUpdate(s) \/ UpdateFails(s) \/ ExecDelete(s)
    \/ Vacuum

Spec == Init /\ [][Next]_vars

-----------------------------------------------------------------------------
(* Properties *)

TypeOK ==
    /\ nextTxnID \in 1 .. TxnIdBound
    /\ activeTxns \subseteq TxnIDs
    /\ status \in [TxnIDs -> Statuses]
    /\ snapshot \in [TxnIDs -> Snapshots]
    /\ heap \in Seq(Tuples) /\ Len(heap) <= MaxTuples
    /\ current \in [Sessions -> {NoTxn} \cup TxnIDs]
    /\ pc \in [Sessions -> PCs]
    /\ stmtTxn \in [Sessions -> {NoTxn} \cup TxnIDs]

Running == {t \in TxnIDs : status[t] = "running"}

\* The view of transaction t ignores every write of transaction w: a tuple
\* w created is invisible to t, and a tuple w deleted is visible to t
\* exactly when its creator is.
Ignores(t, w) ==
    \A i \in DOMAIN heap :
        heap[i].live =>
            /\ heap[i].xmin = w => ~IsVisible(snapshot[t], heap[i])
            /\ heap[i].xmax = w =>
                 (IsVisible(snapshot[t], heap[i]) <=> isTxnVisible(snapshot[t], heap[i].xmin))

\* Repeatable read (snapshot isolation, spec section 4.5): while a
\* transaction runs, the set of heap tuples its SELECT returns never changes,
\* whatever other sessions and VACUUM do in between.
RepeatableRead ==
    [][\A t \in TxnIDs :
          status[t] = "running" /\ status'[t] = "running" =>
             VisibleSlots(snapshot[t])' = VisibleSlots(snapshot[t])]_vars

\* ROLLBACK leaves the table observably unchanged (spec scenario 3 and
\* section 7; TestEngineRollback): no running transaction's view reflects a
\* write of a transaction that was rolled back.
RollbackInvisible ==
    \A t \in Running : \A w \in TxnIDs :
        status[w] = "aborted" => Ignores(t, w)

\* A running transaction's SELECT sees at most one version of every row:
\* UPDATE's old version stops being visible where its new one becomes so
\* (docs/sql.md, UPDATE step 4).
OneVersionPerRow ==
    \A t \in Running : \A i, j \in VisibleSlots(snapshot[t]) :
        heap[i].row = heap[j].row => i = j

\* VACUUM reclaims only tuples no active transaction can possibly see
\* (spec section 4.7): no step tombstones a tuple that is visible to a
\* running transaction.
VacuumKeepsVisible ==
    [][\A t \in TxnIDs : status[t] = "running" =>
          \A i \in VisibleSlots(snapshot[t]) : heap'[i].live]_vars

\* Every running transaction is held by a session: an autocommit
\* statement's transaction ends with the statement, so none is left in
\* activeTxns (where it would pin GlobalXmin and block VACUUM forever).
NoOrphanTxn ==
    \A t \in Running : \E s \in Sessions :
        \/ current[s] = t
        \/ pc[s] # "idle" /\ stmtTxn[s] = t

=============================================================================
