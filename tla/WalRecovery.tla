----------------------------- MODULE WalRecovery -----------------------------
(***************************************************************************)
(* The write-ahead log (src/internal/wal/log.go), the buffer pool's page   *)
(* writes (src/internal/storage/buffer.go), the commit path of the         *)
(* executor and transaction manager, process crashes, and ARIES recovery   *)
(* (src/internal/wal/recovery.go), in one session.                         *)
(*                                                                         *)
(* Data is abstracted to "changes": every data record carries a fresh      *)
(* change id, a write adds it to a page, an undo (or the redo of a CLR)    *)
(* removes it.  Page contents are the sets of change ids they hold.        *)
(***************************************************************************)
EXTENDS Naturals, FiniteSets, Sequences, SequencesExt, FiniteSetsExt

CONSTANTS
    Pages,          \* page ids of the table heap
    NoPage,         \* page id carried by records that name no page
    Capacity,       \* buffer-pool frames
    TxnIdBound,     \* largest transaction id the manager hands out
    MaxChanges,     \* bound on data writes over the whole behaviour
    MaxCrashes,     \* bound on process crashes
    MaxCheckpoints, \* bound on engine checkpoints (0 disables them)
    MaxFlushFaults, \* bound on failing WAL flushes (0: the disk never fails)
    ShortWrites,    \* whether a failing flush may write part of the buffer
    BeforeImages,   \* which images data records carry: FALSE for INSERT,
                    \* TRUE for UPDATE and DELETE (they log the old row)
    AutoFlush       \* whether an Append may fill the 64 KiB buffer

ASSUME Capacity \in 1..Cardinality(Pages)
ASSUME NoPage \notin Pages
ASSUME TxnIdBound \in Nat /\ MaxChanges \in Nat /\ MaxCrashes \in Nat
ASSUME MaxCheckpoints \in Nat /\ MaxFlushFaults \in Nat /\ ShortWrites \in BOOLEAN
ASSUME BeforeImages \subseteq BOOLEAN /\ BeforeImages # {} /\ AutoFlush \in BOOLEAN

InvalidTxnID == 0
TxnIDs == 2..TxnIdBound          \* the manager starts at nextTxnID = 1
TxnSlots == {InvalidTxnID} \cup TxnIDs
Changes == 1..MaxChanges
NotInDPT == -1                   \* a page absent from the dirty-page table

RecTypes == {"Begin", "Commit", "Abort", "Insert", "CLR", "Checkpoint"}

\* A record before Append stamps it.  `chg` is the change id a data record
\* adds (Insert) or a CLR removes; it stands for the after/before image.
\* `img` says whether the record carries a before image (a CLR carries the
\* before image of the record it compensates, LogCLR's `data`).
NewRec(type, t, p, c, undoNext, att, dpt) ==
    [type |-> type, lsn |-> 0, prev |-> 0, txn |-> t, page |-> p, chg |-> c,
     undoNext |-> undoNext, att |-> att, dpt |-> dpt, img |-> FALSE]

TxnRec(type, t) == NewRec(type, t, NoPage, 0, 0, {}, {})

\* Bytes of a record cut short by a failed write.
Torn == NewRec("Torn", InvalidTxnID, NoPage, 0, 0, {}, {})

VARIABLES
    file,       \* the WAL file: records, possibly a torn fragment
    wal,        \* the Writer: buffer, currentLSN, flushedLSN, txnLastLSN, maxTxnID
    store,      \* buffer-pool frames, LRU list, and the data file's pages
    nextTxnID,  \* the manager's counter
    cur,        \* the shell's current transaction (InvalidTxnID: none)
    phase,      \* "run", or the recovery phase the engine is in
    att,        \* recovery's active-transaction table
    dpt,        \* recovery's dirty-page table
    rlog,       \* the records recovery read from the file
    toUndo,     \* undo's worklist of LSNs
    crashes, ckpts, faults,
    fate,       \* ghost: per begun transaction, what its caller was told
    incTxn,     \* ghost: per begun transaction, its id
    curInc,     \* ghost: the begun transaction `cur` is
    chgInc      \* ghost: per change id, the begun transaction that made it

vars == <<file, wal, store, nextTxnID, cur, phase, att, dpt, rlog, toUndo,
          crashes, ckpts, faults, fate, incTxn, curInc, chgInc>>

-----------------------------------------------------------------------------
(* The WAL file as recovery and reopen read it: records up to the first    *)
(* record that does not parse (readAllRecords, findLastLSN).               *)

ReadAllRecords(f) ==
    LET t == SelectInSeq(f, LAMBDA r : r.type = "Torn")
    IN  IF t = 0 THEN f ELSE SubSeq(f, 1, t - 1)

(* Writer.Append without its auto-flush: stamp LSN and PrevLSN, remember  *)
(* the txn's last LSN.                                                     *)
Append_(w, r) ==
    LET s == [r EXCEPT !.lsn = w.currentLSN, !.prev = w.txnLastLSN[r.txn]]
    IN  [w EXCEPT !.buffer = Append(@, s),
                  !.currentLSN = @ + 1,
                  !.txnLastLSN = IF r.type = "Checkpoint" THEN @
                                 ELSE [@ EXCEPT ![r.txn] = w.currentLSN]]

\* delete(w.txnLastLSN, txnID)
Forget(w, t) == [w EXCEPT !.txnLastLSN[t] = 0]

(* flushLocked: write the buffer, sync, advance flushedLSN, clear it.      *)
FlushedOK(w, f) ==
    IF w.buffer = <<>> THEN <<w, f>>
    ELSE <<[w EXCEPT !.flushedLSN = w.currentLSN - 1, !.buffer = <<>>],
           f \o w.buffer>>

(* flushLocked returning an error.  A failed Sync leaves the whole buffer  *)
(* in the file; a short Write leaves a prefix of it, ending at a record    *)
(* boundary or in a torn record.  Either way the buffer is kept and        *)
(* flushedLSN is not advanced, so the next flush writes it all again.      *)
FlushFailures(w, f) ==
    { <<w, f \o w.buffer>> }
    \cup IF ~ShortWrites THEN {}
        ELSE { <<w, f \o SubSeq(w.buffer, 1, k) \o <<Torn>>>> : k \in 0..Len(w.buffer) - 1 }
             \cup { <<w, f \o SubSeq(w.buffer, 1, k)>> : k \in 1..Len(w.buffer) - 1 }

(* Append's tail: once the buffer holds walBufferSize bytes, flushLocked, *)
(* its error dropped.  Record sizes are abstracted, so with AutoFlush any  *)
(* append may be the one that fills the buffer.  A failing auto-flush is   *)
(* not modelled.                                                           *)
AutoFlushed(wf) ==
    {wf} \cup (IF AutoFlush THEN {FlushedOK(wf[1], wf[2])} ELSE {})

\* Writer.Append whole: the writer and the file after appending r.
Appended(wf, r) == AutoFlushed(<<Append_(wf[1], r), wf[2]>>)

(* NewWriter on an existing file: findLastLSN.                             *)
Reopen(f) ==
    LET rs == ReadAllRecords(f)
        last == IF rs = <<>> THEN 0 ELSE rs[Len(rs)].lsn
        track(m, r) ==
            IF r.type \in {"Commit", "Abort"} THEN [m EXCEPT ![r.txn] = 0]
            ELSE IF r.type = "Checkpoint" THEN m
            ELSE [m EXCEPT ![r.txn] = r.lsn]
    IN  [buffer |-> <<>>, currentLSN |-> last + 1, flushedLSN |-> last,
         txnLastLSN |-> FoldLeft(track, [t \in TxnSlots |-> 0], rs),
         maxTxnID |-> FoldLeft(LAMBDA m, r : IF r.txn > m THEN r.txn ELSE m, 0, rs)]

-----------------------------------------------------------------------------
(* Buffer pool.  A frame is resident or not; pins are balanced within     *)
(* every step of this single-threaded model, so eviction never fails.      *)

EmptyFrame == [res |-> FALSE, dirty |-> FALSE, data |-> {}, lsn |-> 0]

Resident(s) == {p \in Pages : s.frame[p].res}

\* The contents of page p as the engine sees it.
Content(s, p) == IF s.frame[p].res THEN s.frame[p].data ELSE s.disk[p].data

WritePage(s, p) ==
    [s EXCEPT !.disk[p] = [data |-> s.frame[p].data, lsn |-> s.frame[p].lsn]]

\* evictOne: the LRU page (the back of the list) goes, written if dirty,
\* with no WAL force.
EvictOne(s) ==
    LET v == s.lru[Len(s.lru)]
        w == IF s.frame[v].dirty THEN WritePage(s, v) ELSE s
    IN  [w EXCEPT !.frame[v] = EmptyFrame,
                  !.lru = SubSeq(s.lru, 1, Len(s.lru) - 1)]

\* Mutant: the pool makes room only once it is over capacity.
FetchPageEvictPastCapacity(s, p) ==
    IF s.frame[p].res
    THEN [s EXCEPT !.lru = <<p>> \o SelectSeq(@, LAMBDA q : q # p)]
    ELSE LET e == IF Cardinality(Resident(s)) > Capacity THEN EvictOne(s) ELSE s
         IN  [e EXCEPT !.frame[p] = [res |-> TRUE, dirty |-> FALSE,
                                     data |-> s.disk[p].data, lsn |-> s.disk[p].lsn],
                       !.lru = <<p>> \o @]

\* FetchPage: a hit moves p to the front; a miss reads p, evicts if full,
\* and pushes p to the front.
FetchPage(s, p) ==
    IF s.frame[p].res
    THEN [s EXCEPT !.lru = <<p>> \o SelectSeq(@, LAMBDA q : q # p)]
    ELSE LET e == IF Cardinality(Resident(s)) >= Capacity THEN EvictOne(s) ELSE s
         IN  [e EXCEPT !.frame[p] = [res |-> TRUE, dirty |-> FALSE,
                                     data |-> s.disk[p].data, lsn |-> s.disk[p].lsn],
                       !.lru = <<p>> \o @]

\* Fetch p, set its contents to data, unpin it dirty.
Modify(s, p, data) ==
    LET f == FetchPage(s, p)
    IN  [f EXCEPT !.frame[p].data = data, !.frame[p].dirty = TRUE]

\* FlushAllPages: write every dirty frame, then sync the data file.
FlushAllPages(s) ==
    [s EXCEPT !.disk = [p \in Pages |-> IF s.frame[p].res /\ s.frame[p].dirty
                                        THEN [data |-> s.frame[p].data, lsn |-> s.frame[p].lsn]
                                        ELSE s.disk[p]],
              !.frame = [p \in Pages |-> [s.frame[p] EXCEPT !.dirty = FALSE]]]

-----------------------------------------------------------------------------
(* ARIES recovery over the records it read.                                *)

NoEntry == [present |-> FALSE, status |-> "none", last |-> 0, undoNext |-> 0]

IsData(r) == r.type = "Insert"

\* Mutant: a COMMIT marks the ATT entry instead of removing it, so undo
\* treats the committed transaction as a loser.
AnalysisRecordCommitKept(a, r) ==
    CASE r.type = "Begin" ->
            [a EXCEPT !.att[r.txn] = [NoEntry EXCEPT !.present = TRUE,
                                      !.status = "running", !.last = r.lsn]]
      [] r.type = "Commit" ->
            IF a.att[r.txn].present
            THEN [a EXCEPT !.att[r.txn].status = "committed", !.att[r.txn].last = r.lsn]
            ELSE a
      [] r.type = "Abort" ->
            IF a.att[r.txn].present
            THEN [a EXCEPT !.att[r.txn].status = "aborted", !.att[r.txn].last = r.lsn]
            ELSE a
      [] IsData(r) ->
            [a EXCEPT !.att[r.txn].last = IF a.att[r.txn].present THEN r.lsn ELSE @,
                      !.dpt[r.page] = IF @ = NotInDPT THEN r.lsn ELSE @]
      [] r.type = "CLR" ->
            IF a.att[r.txn].present
            THEN [a EXCEPT !.att[r.txn].last = r.lsn, !.att[r.txn].undoNext = r.undoNext]
            ELSE a
      [] OTHER -> a

\* analysisPhase's switch on one record after the checkpoint.
AnalysisRecord(a, r) ==
    CASE r.type = "Begin" ->
            [a EXCEPT !.att[r.txn] = [NoEntry EXCEPT !.present = TRUE,
                                      !.status = "running", !.last = r.lsn]]
      [] r.type = "Commit" -> [a EXCEPT !.att[r.txn] = NoEntry]
      [] r.type = "Abort" ->
            IF a.att[r.txn].present
            THEN [a EXCEPT !.att[r.txn].status = "aborted", !.att[r.txn].last = r.lsn]
            ELSE a
      [] IsData(r) ->
            [a EXCEPT !.att[r.txn].last = IF a.att[r.txn].present THEN r.lsn ELSE @,
                      !.dpt[r.page] = IF @ = NotInDPT THEN r.lsn ELSE @]
      [] r.type = "CLR" ->
            IF a.att[r.txn].present
            THEN [a EXCEPT !.att[r.txn].last = r.lsn, !.att[r.txn].undoNext = r.undoNext]
            ELSE a
      [] OTHER -> a

\* analysisPhase: seed ATT and DPT from the last checkpoint (its entries get
\* no LastLSN), then scan every record after it.
Analysis(rs) ==
    LET ci == SelectLastInSeq(rs, LAMBDA r : r.type = "Checkpoint")
        ckLSN == IF ci = 0 THEN 0 ELSE rs[ci].lsn
        seed == [att |-> [t \in TxnSlots |->
                            IF ci # 0 /\ t \in rs[ci].att
                            THEN [NoEntry EXCEPT !.present = TRUE, !.status = "running"]
                            ELSE NoEntry],
                 dpt |-> [p \in Pages |->
                            IF ci # 0 /\ \E e \in rs[ci].dpt : e[1] = p
                            THEN (CHOOSE e \in rs[ci].dpt : e[1] = p)[2]
                            ELSE NotInDPT]]
        step(a, r) == IF ckLSN > 0 /\ r.lsn <= ckLSN THEN a ELSE AnalysisRecord(a, r)
    IN  FoldLeft(step, seed, rs)

\* The engine's redo callback (applyRedo, redoWriteSlot): re-execute the
\* change and set the page's LSN to the record's.  A CLR writes its
\* AfterImage, the before image of the record it compensates, only when it
\* has one: the CLR of an undone INSERT restores nothing.
RedoApply(s, r) ==
    LET m == Modify(s, r.page, IF IsData(r) THEN Content(s, r.page) \cup {r.chg}
                               ELSE IF r.img THEN Content(s, r.page) \ {r.chg}
                               ELSE Content(s, r.page))
    IN  [m EXCEPT !.frame[r.page].lsn = r.lsn]

\* redoPhase: from the smallest recLSN, every data record and CLR whose page
\* is in the DPT, at or after its recLSN, and newer than the page.
\* The pageLSN callback Engine.recover installs: FetchPage, which may evict
\* and write back a dirty page, then the frame's LSN and UnpinPage. Yields
\* the store after the fetch and the LSN.
PageLSNCallback(s, p) ==
    LET f == FetchPage(s, p) IN <<f, f.frame[p].lsn>>

Redo(s, rs, d) ==
    LET inDPT == {p \in Pages : d[p] # NotInDPT}
        minRec == IF inDPT = {} THEN 0 ELSE Min({d[p] : p \in inDPT})
        step(x, r) ==
            IF /\ r.lsn >= minRec
               /\ IsData(r) \/ r.type = "CLR"
               /\ r.page \in inDPT
               /\ r.lsn >= d[r.page]
            THEN LET c == PageLSNCallback(x, r.page)
                 IN  IF c[2] < r.lsn THEN RedoApply(c[1], r) ELSE c[1]
            ELSE x
    IN  IF inDPT = {} THEN s ELSE FoldLeft(step, s, rs)

\* undoPhase's seed: UndoNext if set, else LastLSN if set.
UndoSeed(a) ==
    {IF a[t].undoNext # 0 THEN a[t].undoNext ELSE a[t].last :
        t \in {u \in TxnSlots : a[u].present /\ (a[u].undoNext # 0 \/ a[u].last # 0)}}

\* recordMap[lsn]: the last record read with that LSN.
RecordIndex(rs, l) == SelectLastInSeq(rs, LAMBDA r : r.lsn = l)

\* Mutant: after undoing a record, undo goes on from the record itself.
UndoFollowSelf(r) == r.lsn

\* Mutant: a non-data record that sends undo back to its own LSN.
NonDataNextSelf(r) == r.lsn

\* undoPhase on a BEGIN or other non-data record: continue at its PrevLSN.
NonDataNext(r) == r.prev

\* undoPhase on a CLR: continue at its UndoNextLSN, past what it compensated.
CLRSkip(r) == r.undoNext

\* After undoing a data record, undoPhase follows its PrevLSN.
UndoFollow(r) == r.prev

\* LogCLR's undoNextLSN argument: the undone record's PrevLSN.
CLRUndoNext(r) == r.prev

-----------------------------------------------------------------------------
(* Normal operation: the shell's statements.                               *)

\* The manager still holds the transaction as Running.
Live(i) == fate[i] \in {"running", "failed"}

Init ==
    /\ file = <<>>
    /\ wal = [buffer |-> <<>>, currentLSN |-> 1, flushedLSN |-> 0,
              txnLastLSN |-> [t \in TxnSlots |-> 0], maxTxnID |-> 0]
    /\ store = [frame |-> [p \in Pages |-> EmptyFrame], lru |-> <<>>,
                disk |-> [p \in Pages |-> [data |-> {}, lsn |-> 0]]]
    /\ nextTxnID = 1
    /\ cur = InvalidTxnID
    /\ phase = "run"
    /\ att = [t \in TxnSlots |-> NoEntry]
    /\ dpt = [p \in Pages |-> NotInDPT]
    /\ rlog = <<>>
    /\ toUndo = {}
    /\ crashes = 0 /\ ckpts = 0 /\ faults = 0
    /\ fate = <<>> /\ incTxn = <<>> /\ curInc = 0 /\ chgInc = <<>>

RecoveryVars == <<att, dpt, rlog, toUndo>>

\* BEGIN, or the autocommit transaction of a statement: Manager.Begin
\* takes an id and logs BEGIN.
Begin ==
    /\ phase = "run" /\ cur = InvalidTxnID
    /\ nextTxnID < TxnIdBound
    /\ LET t == nextTxnID + 1
       IN  /\ nextTxnID' = t
           /\ cur' = t
           /\ \E o \in Appended(<<wal, file>>, TxnRec("Begin", t)) :
                 wal' = o[1] /\ file' = o[2]
           /\ fate' = Append(fate, "running")
           /\ incTxn' = Append(incTxn, t)
           /\ curInc' = Len(fate) + 1
    /\ UNCHANGED <<store, phase, RecoveryVars, crashes, ckpts, faults, chgInc>>

\* A row written by INSERT, UPDATE or DELETE: heap writes page p through
\* the buffer pool, then the executor logs the change (unforced), with a
\* before image (UPDATE, DELETE) or without one (INSERT).
Write(p, img) ==
    /\ phase = "run" /\ cur # InvalidTxnID /\ Live(curInc)
    /\ Len(chgInc) < MaxChanges
    /\ LET c == Len(chgInc) + 1
       IN  /\ store' = Modify(store, p, Content(store, p) \cup {c})
           /\ \E o \in Appended(<<wal, file>>,
                               [NewRec("Insert", cur, p, c, 0, {}, {}) EXCEPT !.img = img]) :
                 wal' = o[1] /\ file' = o[2]
           /\ chgInc' = Append(chgInc, curInc)
    /\ UNCHANGED <<nextTxnID, cur, phase, RecoveryVars, crashes, ckpts,
                   faults, fate, incTxn, curInc>>

\* executeCommit (and the autocommit tail of a statement), first half:
\* FlushAllPages before Manager.Commit.
CommitFlush ==
    /\ phase = "run" /\ cur # InvalidTxnID /\ Live(curInc)
    /\ store' = FlushAllPages(store)
    /\ fate' = [fate EXCEPT ![curInc] = "committing"]
    /\ UNCHANGED <<file, wal, nextTxnID, cur, phase, RecoveryVars, crashes,
                   ckpts, faults, incTxn, curInc, chgInc>>

\* Manager.Commit: LogCommit appends COMMIT and forces it.  On success the
\* txn's last LSN is forgotten and the caller told COMMIT.  If the flush
\* fails the txn stays Running: an explicit transaction stays current, an
\* autocommit statement drops the error and the transaction with it.
CommitLog ==
    /\ phase = "run" /\ cur # InvalidTxnID /\ fate[curInc] = "committing"
    /\ LET w == Append_(wal, TxnRec("Commit", cur))
       IN  \/ LET o == FlushedOK(w, file)
              IN  /\ wal' = Forget(o[1], cur)
                  /\ file' = o[2]
                  /\ fate' = [fate EXCEPT ![curInc] = "acked"]
                  /\ cur' = InvalidTxnID /\ curInc' = 0
                  /\ UNCHANGED faults
           \/ /\ faults < MaxFlushFaults
              /\ \E o \in FlushFailures(w, file), keep \in BOOLEAN :
                    /\ wal' = o[1]
                    /\ file' = o[2]
                    /\ fate' = [fate EXCEPT ![curInc] = "failed"]
                    /\ cur' = IF keep THEN cur ELSE InvalidTxnID
                    /\ curInc' = IF keep THEN curInc ELSE 0
              /\ faults' = faults + 1
    /\ UNCHANGED <<store, nextTxnID, phase, RecoveryVars, crashes, ckpts,
                   incTxn, chgInc>>

\* executeRollback: Manager.Rollback logs ABORT (unforced); the heap is
\* left as it is.
Rollback ==
    /\ phase = "run" /\ cur # InvalidTxnID /\ Live(curInc)
    /\ \E o \in Appended(<<wal, file>>, TxnRec("Abort", cur)) :
          wal' = Forget(o[1], cur) /\ file' = o[2]
    /\ fate' = [fate EXCEPT ![curInc] = "rolledback"]
    /\ cur' = InvalidTxnID /\ curInc' = 0
    /\ UNCHANGED <<store, nextTxnID, phase, RecoveryVars, crashes, ckpts,
                   faults, incTxn, chgInc>>

\* Engine checkpoint (spec 4.9): snapshot the dirty pages and the active
\* transactions, flush the WAL, flush all pages, append and force the record.
Checkpoint ==
    /\ phase = "run" /\ ckpts < MaxCheckpoints
    /\ LET d == {<<p, store.frame[p].lsn>> :
                    p \in {q \in Resident(store) : store.frame[q].dirty}}
           a == {incTxn[i] : i \in {j \in DOMAIN fate : Live(j)}}
           f1 == FlushedOK(wal, file)
           f2 == FlushedOK(Append_(f1[1], NewRec("Checkpoint", InvalidTxnID, NoPage, 0, 0, a, d)), f1[2])
       IN  /\ wal' = f2[1]
           /\ file' = f2[2]
           /\ store' = FlushAllPages(store)
    /\ ckpts' = ckpts + 1
    /\ UNCHANGED <<nextTxnID, cur, phase, RecoveryVars, crashes, faults, fate,
                   incTxn, curInc, chgInc>>

\* SELECT (or the scan of an UPDATE or DELETE that matches nothing) in the
\* current transaction: Scan fetches every page of the table, in the
\* table's page order, which the model leaves open.
Select ==
    /\ phase = "run" /\ cur # InvalidTxnID /\ Live(curInc)
    /\ \E order \in SetToSeqs(Pages) : store' = FoldLeft(FetchPage, store, order)
    /\ UNCHANGED <<file, wal, nextTxnID, cur, phase, RecoveryVars, crashes, ckpts,
                   faults, fate, incTxn, curInc, chgInc>>

\* A statement rejected before it reaches the storage layer.
Idle == phase = "run" /\ UNCHANGED vars

-----------------------------------------------------------------------------
(* Crash and restart.                                                      *)

\* The process dies at any point, recovery included: frames, the WAL buffer
\* and the shell's transaction are gone; the files stay.  The engine reopens
\* the WAL (NewWriter) and starts Recover with fresh tables.
Crash ==
    /\ crashes < MaxCrashes
    /\ crashes' = crashes + 1
    /\ store' = [store EXCEPT !.frame = [p \in Pages |-> EmptyFrame], !.lru = <<>>]
    /\ wal' = Reopen(file)
    /\ cur' = InvalidTxnID /\ curInc' = 0
    /\ phase' = "analysis"
    /\ att' = [t \in TxnSlots |-> NoEntry]
    /\ dpt' = [p \in Pages |-> NotInDPT]
    /\ rlog' = <<>> /\ toUndo' = {}
    /\ fate' = [i \in DOMAIN fate |->
                  IF fate[i] \in {"running", "committing"} THEN "crashed" ELSE fate[i]]
    /\ nextTxnID' = 1                    \* the restarted engine's NewManager
    /\ UNCHANGED <<file, ckpts, faults, incTxn, chgInc>>

AnalysisPhase ==
    /\ phase = "analysis"
    /\ rlog' = ReadAllRecords(file)
    /\ att' = Analysis(rlog')["att"]
    /\ dpt' = Analysis(rlog')["dpt"]
    /\ phase' = "redo"
    /\ UNCHANGED <<file, wal, store, nextTxnID, cur, toUndo, crashes, ckpts,
                   faults, fate, incTxn, curInc, chgInc>>

\* redoPhase, then the start of undoPhase (its worklist).
RedoPhase ==
    /\ phase = "redo"
    /\ store' = Redo(store, rlog, dpt)
    /\ toUndo' = UndoSeed(att)
    /\ phase' = "undo"
    /\ UNCHANGED <<file, wal, nextTxnID, cur, att, dpt, rlog, crashes, ckpts,
                   faults, fate, incTxn, curInc, chgInc>>

\* One iteration of undoPhase's loop: pop the largest LSN.  A CLR sends
\* undo to its UndoNextLSN, another non-data record to its PrevLSN; a data
\* record is undone, compensated by an unforced CLR, and its PrevLSN pushed.
UndoStep ==
    /\ phase = "undo" /\ toUndo # {}
    /\ LET l == Max(toUndo)
           i == RecordIndex(rlog, l)
           r == rlog[i]
           push(x) == (toUndo \ {l}) \cup (IF x # 0 THEN {x} ELSE {})
       IN  IF i = 0
           THEN /\ toUndo' = toUndo \ {l}
                /\ UNCHANGED <<store, wal, file>>
           ELSE IF r.type = "CLR"
           THEN /\ toUndo' = push(CLRSkip(r))
                /\ UNCHANGED <<store, wal, file>>
           ELSE IF ~IsData(r)
           THEN /\ toUndo' = push(NonDataNext(r))
                /\ UNCHANGED <<store, wal, file>>
           ELSE /\ store' = Modify(store, r.page, Content(store, r.page) \ {r.chg})
                /\ \E o \in Appended(<<wal, file>>,
                                    [NewRec("CLR", r.txn, r.page, r.chg, CLRUndoNext(r),
                                            {}, {}) EXCEPT !.img = r.img]) :
                      wal' = o[1] /\ file' = o[2]
                /\ toUndo' = push(UndoFollow(r))
    /\ UNCHANGED <<nextTxnID, cur, phase, att, dpt, rlog, crashes, ckpts,
                   faults, fate, incTxn, curInc, chgInc>>

\* The end of undoPhase: an ABORT for every ATT transaction, in map order.
\* Then the engine's post-recovery step (spec 4.8): flush all dirty pages
\* and move the manager's counter past every id seen.
\* Engine.recover after Recover: the largest id in the WAL or the ATT,
\* stored by SetNextTxnID(max + 1) when there is one; Begin pre-increments,
\* so the first id handed out is max + 2.
RecoveredNextTxnID(maxId, n) == IF maxId > 0 THEN maxId + 1 ELSE n

RecoveryDone ==
    /\ phase = "undo" /\ toUndo = {}
    /\ LET losers == {t \in TxnSlots : att[t].present}
       IN  /\ \E order \in SetToSeqs(losers) :
              \E o \in AutoFlushed(<<FoldLeft(LAMBDA w, t : Forget(Append_(w, TxnRec("Abort", t)), t),
                                               wal, order), file>>) :
                 wal' = o[1] /\ file' = o[2]
           /\ nextTxnID' = RecoveredNextTxnID(Max({wal.maxTxnID} \cup losers), nextTxnID)
    /\ store' = FlushAllPages(store)
    /\ phase' = "run"
    /\ UNCHANGED <<cur, RecoveryVars, crashes, ckpts, faults, fate, incTxn,
                   curInc, chgInc>>

Next ==
    \/ Begin
    \/ \E p \in Pages, img \in BeforeImages : Write(p, img)
    \/ CommitFlush
    \/ CommitLog
    \/ Rollback
    \/ Checkpoint
    \/ Select
    \/ Idle
    \/ Crash
    \/ AnalysisPhase
    \/ RedoPhase
    \/ UndoStep
    \/ RecoveryDone

Spec == Init /\ [][Next]_vars

\* Recover runs analysisPhase, redoPhase and undoPhase one after the other
\* on the starting goroutine before the engine accepts a statement, so each
\* recovery step, once enabled, is taken unless the process crashes again.
FairSpec == Spec /\ WF_vars(AnalysisPhase) /\ WF_vars(RedoPhase)
                 /\ WF_vars(UndoStep) /\ WF_vars(RecoveryDone)

-----------------------------------------------------------------------------
(* Properties.                                                             *)

Records == [type : RecTypes, lsn : Nat, prev : Nat, txn : TxnSlots,
            page : Pages \cup {NoPage}, chg : {0} \cup Changes,
            undoNext : Nat, att : SUBSET TxnIDs, dpt : SUBSET (Pages \X Nat),
            img : BOOLEAN]
Frames == [res : BOOLEAN, dirty : BOOLEAN, data : SUBSET Changes, lsn : Nat]

TypeOK ==
    /\ file \in Seq(Records \cup {Torn})
    /\ wal.buffer \in Seq(Records)
    /\ wal.flushedLSN < wal.currentLSN
    /\ wal.txnLastLSN \in [TxnSlots -> Nat]
    /\ store.frame \in [Pages -> Frames]
    /\ Cardinality(Resident(store)) <= Capacity
    /\ ToSet(store.lru) = Resident(store) /\ Len(store.lru) = Cardinality(Resident(store))
    /\ store.disk \in [Pages -> [data : SUBSET Changes, lsn : Nat]]
    /\ phase \in {"run", "analysis", "redo", "undo"}
    /\ cur \in TxnSlots
    /\ toUndo \subseteq Nat
    /\ fate \in Seq({"running", "committing", "acked", "failed", "rolledback", "crashed"})
    /\ chgInc \in Seq(DOMAIN fate)

\* The changes of the data records in rs whose transaction has no COMMIT in rs.
LoserChanges(rs) ==
    LET committed == {rs[i].txn : i \in {j \in DOMAIN rs : rs[j].type = "Commit"}}
    IN  {rs[i].chg : i \in {j \in DOMAIN rs : IsData(rs[j]) /\ rs[j].txn \notin committed}}

\* Recover (analysisPhase, redoPhase, undoPhase, then the engine's page
\* flush) leaves no change of a transaction whose log it read without a
\* COMMIT: every loser's logged writes are undone, across repeated crashes.
UndoComplete ==
    [][phase = "undo" /\ phase' = "run" =>
         \A p \in Pages : Content(store', p) \cap LoserChanges(rlog) = {}]_vars

\* undoPhase never compensates a write twice: no two CLRs of the log the
\* writer holds (the records recovery can read, then its buffer) undo the
\* same change, however often recovery was interrupted.
CompensatedOnce ==
    LET rs == ReadAllRecords(file) \o wal.buffer
    IN  \A i, j \in DOMAIN rs :
            (rs[i].type = "CLR" /\ rs[j].type = "CLR" /\ rs[i].lsn # rs[j].lsn)
                => rs[i].chg # rs[j].chg

\* A COMMIT that returned is never lost: while the engine runs, every
\* change of a transaction whose Manager.Commit succeeded is on its page,
\* whatever crashes, failed flushes and recoveries came before.
CommittedSurvive ==
    phase = "run" =>
        \A c \in DOMAIN chgInc :
            fate[chgInc[c]] = "acked" => \E p \in Pages : c \in Content(store, p)

\* What the shell's user was told survives a crash: when recovery ends,
\* every change on a page belongs to a transaction whose COMMIT returned
\* (or whose COMMIT failed, leaving the outcome open).
RecoveryAtomic ==
    [][phase = "undo" /\ phase' = "run" =>
         \A p \in Pages : \A c \in Content(store', p) :
             fate[chgInc[c]] \in {"acked", "failed"}]_vars


(* Recovery terminates: after a crash, Recover's analysis, redo and the   *)
(* undo worklist (following PrevLSN and the UndoNextLSN of CLRs written   *)
(* by an earlier, interrupted recovery) always reach the end, and the     *)
(* engine runs statements again.                                          *)
RecoveryTerminates == phase # "run" ~> phase = "run"

====
