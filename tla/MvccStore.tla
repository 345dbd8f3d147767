----------------------------- MODULE MvccStore -----------------------------
(***************************************************************************)
(* txn.MVCCStore (src/internal/txn/mvcc.go): per row a chain of tuple      *)
(* versions, newest first, written through Insert, Update and Delete under *)
(* a transaction's snapshot, undone by RollbackTransaction and pruned by   *)
(* GarbageCollect. Transactions and snapshots come from txn.Manager        *)
(* (src/unnamed/part_006): Begin, Commit, Rollback, createSnapshotLocked.  *)
(*                                                                         *)
(* A caller's Update or Delete that finds no visible version, or that      *)
(* returns a WriteConflictError, changes nothing and is not a step here.   *)
(* Read and Scan change nothing; FreshView is what Read returns to a       *)
(* transaction beginning now.                                              *)
(***************************************************************************)
EXTENDS Integers, Sequences, FiniteSets, FiniteSetsExt

CONSTANTS TxnIdBound,   \* largest transaction id Begin hands out
          RowBound,     \* largest row id Insert hands out
          Data,         \* row contents (model values)
          MaxChain,     \* longest version chain an Update may extend
          OncePerRow    \* TRUE: callers write each row at most once per transaction

ASSUME TxnIdBound >= 2 /\ RowBound >= 1 /\ MaxChain >= 1
ASSUME OncePerRow \in BOOLEAN

InvalidTxnID == 0                  \* types.InvalidTxnID
TxnIDs == 2 .. TxnIdBound          \* NewManager sets nextTxnID to 1; Begin pre-increments
MaxTxnID == TxnIdBound + 1         \* types.MaxTxnID: above every id handed out
RowIDs == 1 .. RowBound

Absent  == "absent"     \* AbstractStore!Absent: Read returns nil
NoWrite == "nowrite"    \* AbstractStore!NoWrite

VARIABLES nextTxnID,   \* Manager.nextTxnID
          activeTxns,  \* keys of Manager.activeTxns
          status,      \* Transaction.Status, "unused" before Begin
          snapshot,    \* Transaction.Snapshot: Xmax and ActiveTxns
          versions,    \* versions[r]: MVCCStore.versions[table][r], newest first
          nextRowID,   \* MVCCStore.nextRowID[table]
          ghostWs      \* history: what each running transaction last wrote per row

vars == <<nextTxnID, activeTxns, status, snapshot, versions, nextRowID, ghostWs>>

Version == [xmin : TxnIDs, xmax : {InvalidTxnID} \cup TxnIDs, data : Data]
Running == {t \in TxnIDs : status[t] = "running"}

(* Snapshot.isTxnVisible and Snapshot.IsVisible. *)
isTxnVisible(s, x) == x # InvalidTxnID /\ x < s.xmax /\ x \notin s.active

IsVisible(s, v) ==
    /\ isTxnVisible(s, v.xmin)
    /\ v.xmax = InvalidTxnID \/ ~isTxnVisible(s, v.xmax)

(* The loop over versions, newest first, that Update, Delete and Read     *)
(* share: the index of the first visible version, 0 if none.              *)
FirstVisible(s, vs) ==
    LET I == {i \in DOMAIN vs : IsVisible(s, vs[i])}
    IN  IF I = {} THEN 0 ELSE Min(I)

(* createSnapshotLocked: Xmax is nextTxnID after the increment, i.e. the  *)
(* new transaction's own id; Xmin is set but nothing in the store reads it.*)
createSnapshotLocked(xmax) == [xmax |-> xmax, active |-> activeTxns]

GlobalXmin == IF activeTxns = {} THEN MaxTxnID ELSE Min(activeTxns)

(* Read for a transaction that began now: the committed state.            *)
FreshView == [r \in RowIDs |->
                LET i == FirstVisible(createSnapshotLocked(nextTxnID + 1), versions[r])
                IN  IF i = 0 THEN Absent ELSE versions[r][i].data]

Abs == INSTANCE AbstractStore WITH Txns <- TxnIDs, Rows <- RowIDs,
                                   db <- FreshView, wset <- ghostWs

(* A write the caller may make: OncePerRow restricts it to rows t has not *)
(* written yet.                                                            *)
MayWrite(t, r) == OncePerRow => ghostWs[t][r] = NoWrite

(* Mutant: RollbackTransaction that drops t's versions but leaves the    *)
(* xmax t set on older ones.                                              *)
RollbackChainKeepXmax(vs, t) == SelectSeq(vs, LAMBDA v : v.xmin # t)

(* MVCCStore.RollbackTransaction for one chain: drop t's versions and     *)
(* clear the xmax t set on the others.                                    *)
RollbackChain(vs, t) ==
    LET kept == SelectSeq(vs, LAMBDA v : v.xmin # t)
    IN  [k \in DOMAIN kept |->
            IF kept[k].xmax = t THEN [kept[k] EXCEPT !.xmax = InvalidTxnID]
                                ELSE kept[k]]

(* GarbageCollect for one chain of at least two versions: keep the newest *)
(* and every version not deleted below oldestActiveTxn.                   *)
CollectChain(vs, oldest) ==
    <<Head(vs)>> \o SelectSeq(Tail(vs),
                        LAMBDA v : v.xmax = InvalidTxnID \/ v.xmax >= oldest)

-----------------------------------------------------------------------------
Init ==
    /\ nextTxnID = 1
    /\ activeTxns = {}
    /\ status = [t \in TxnIDs |-> "unused"]
    /\ snapshot = [t \in TxnIDs |-> [xmax |-> 0, active |-> {}]]
    /\ versions = [r \in RowIDs |-> <<>>]
    /\ nextRowID = 0
    /\ ghostWs = [t \in TxnIDs |-> [r \in RowIDs |-> NoWrite]]

(* Manager.Begin: the id, then the snapshot under the lock, then the      *)
(* transaction joins activeTxns.                                          *)
Begin ==
    LET t == nextTxnID + 1
    IN  /\ t \in TxnIDs
        /\ nextTxnID' = t
        /\ snapshot' = [snapshot EXCEPT ![t] = createSnapshotLocked(t)]
        /\ status' = [status EXCEPT ![t] = "running"]
        /\ activeTxns' = activeTxns \cup {t}
        /\ UNCHANGED <<versions, nextRowID, ghostWs>>

(* MVCCStore.Insert: a new row id and a one-version chain.                *)
Insert(t, d) ==
    LET r == nextRowID + 1
    IN  /\ t \in Running
        /\ r \in RowIDs
        /\ nextRowID' = r
        /\ versions' = [versions EXCEPT ![r] = <<[xmin |-> t, xmax |-> InvalidTxnID, data |-> d]>>]
        /\ ghostWs' = [ghostWs EXCEPT ![t][r] = d]
        /\ UNCHANGED <<nextTxnID, activeTxns, status, snapshot>>

(* Mutant: Update without the write-write check.                          *)
UpdateNoConflictCheck(t, r, d) ==
    LET vs == versions[r]
        i  == FirstVisible(snapshot[t], vs)
    IN  /\ t \in Running
        /\ MayWrite(t, r)
        /\ i # 0
        /\ Len(vs) < MaxChain
        /\ versions' = [versions EXCEPT ![r] =
                <<[xmin |-> t, xmax |-> InvalidTxnID, data |-> d]>> \o [vs EXCEPT ![i].xmax = t]]
        /\ ghostWs' = [ghostWs EXCEPT ![t][r] = d]
        /\ UNCHANGED <<nextTxnID, activeTxns, status, snapshot, nextRowID>>

(* MVCCStore.Update: the first visible version, the write-write check on  *)
(* its xmax, then xmax = t on it and the new version at the front.        *)
Update(t, r, d) ==
    LET vs == versions[r]
        i  == FirstVisible(snapshot[t], vs)
    IN  /\ t \in Running
        /\ MayWrite(t, r)
        /\ i # 0
        /\ vs[i].xmax \in {InvalidTxnID, t}
        /\ Len(vs) < MaxChain
        /\ versions' = [versions EXCEPT ![r] =
                <<[xmin |-> t, xmax |-> InvalidTxnID, data |-> d]>> \o [vs EXCEPT ![i].xmax = t]]
        /\ ghostWs' = [ghostWs EXCEPT ![t][r] = d]
        /\ UNCHANGED <<nextTxnID, activeTxns, status, snapshot, nextRowID>>

(* MVCCStore.Delete: the same search and check, then xmax = t.            *)
Delete(t, r) ==
    LET vs == versions[r]
        i  == FirstVisible(snapshot[t], vs)
    IN  /\ t \in Running
        /\ MayWrite(t, r)
        /\ i # 0
        /\ vs[i].xmax \in {InvalidTxnID, t}
        /\ versions' = [versions EXCEPT ![r][i].xmax = t]
        /\ ghostWs' = [ghostWs EXCEPT ![t][r] = Absent]
        /\ UNCHANGED <<nextTxnID, activeTxns, status, snapshot, nextRowID>>

(* Mutant: Commit that does not delete t from activeTxns.                 *)
CommitKeepsActive(t) ==
    /\ t \in Running
    /\ status' = [status EXCEPT ![t] = "committed"]
    /\ ghostWs' = [ghostWs EXCEPT ![t] = [r \in RowIDs |-> NoWrite]]
    /\ UNCHANGED <<nextTxnID, activeTxns, snapshot, versions, nextRowID>>

(* Manager.Commit: status Committed, out of activeTxns; the store is not  *)
(* touched.                                                               *)
Commit(t) ==
    /\ t \in Running
    /\ status' = [status EXCEPT ![t] = "committed"]
    /\ activeTxns' = activeTxns \ {t}
    /\ ghostWs' = [ghostWs EXCEPT ![t] = [r \in RowIDs |-> NoWrite]]
    /\ UNCHANGED <<nextTxnID, snapshot, versions, nextRowID>>

(* The rollback path of the executor: MVCCStore.RollbackTransaction, then *)
(* Manager.Rollback.                                                      *)
Rollback(t) ==
    /\ t \in Running
    /\ versions' = [r \in RowIDs |-> RollbackChain(versions[r], t)]
    /\ status' = [status EXCEPT ![t] = "aborted"]
    /\ activeTxns' = activeTxns \ {t}
    /\ ghostWs' = [ghostWs EXCEPT ![t] = [r \in RowIDs |-> NoWrite]]
    /\ UNCHANGED <<nextTxnID, snapshot, nextRowID>>

(* MVCCStore.GarbageCollect(oldestActiveTxn), called with the manager's   *)
(* global xmin, as VACUUM does (spec 4.7).                                *)
GarbageCollect ==
    /\ versions' = [r \in RowIDs |->
                      IF Len(versions[r]) <= 1 THEN versions[r]
                      ELSE CollectChain(versions[r], GlobalXmin)]
    /\ versions' # versions
    /\ UNCHANGED <<nextTxnID, activeTxns, status, snapshot, nextRowID, ghostWs>>

(* MVCCStore.Read and Scan: the first visible version of a row, under    *)
(* any caller's snapshot; nothing changes.                                *)
Read(r) == UNCHANGED vars

Next ==
    \/ Begin
    \/ \E r \in RowIDs : Read(r)
    \/ GarbageCollect
    \/ \E t \in TxnIDs :
          \/ Commit(t) \/ Rollback(t)
          \/ \E d \in Data : Insert(t, d)
          \/ \E r \in RowIDs : Delete(t, r) \/ \E d \in Data : Update(t, r, d)

Spec == Init /\ [][Next]_vars

-----------------------------------------------------------------------------
TypeOK ==
    /\ nextTxnID \in 1 .. TxnIdBound
    /\ activeTxns = Running
    /\ versions \in [RowIDs -> Seq(Version)]
    /\ nextRowID \in 0 .. RowBound

(* The store keeps the promise of AbstractStore: the rows a transaction   *)
(* beginning now would read change only when a transaction commits, and   *)
(* then by exactly the inserts, updates and deletes that transaction made *)
(* through MVCCStore.                                                     *)
AbstractSpec == Abs!Spec

(* First updater wins: two transactions that ran concurrently (neither in *)
(* the other's snapshot) never both have a version of one row created or  *)
(* deleted by them, unless one was rolled back. This is what the xmax     *)
(* check in Update and Delete is for.                                     *)
Wrote(t, r) == \E i \in DOMAIN versions[r] : t \in {versions[r][i].xmin, versions[r][i].xmax}
Concurrent(t, u) == u \in snapshot[t].active \/ u >= snapshot[t].xmax

NoConcurrentWriters ==
    \A r \in RowIDs, t, u \in TxnIDs :
        /\ t # u
        /\ status[t] = "running"
        /\ status[u] \in {"running", "committed"}
        /\ Concurrent(t, u)
        => ~(Wrote(t, r) /\ Wrote(u, r))
=============================================================================
