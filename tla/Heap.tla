-------------------------------- MODULE Heap --------------------------------
(***************************************************************************)
(* Table heaps over slotted pages (storage/page.go, storage/heap.go), the  *)
(* catalog that persists each heap's first and last page, and a clean      *)
(* restart (Engine close, then open and LoadCatalog).                      *)
(*                                                                         *)
(* A page's bytes are abstracted to the sequence of writes made to it: a   *)
(* byte holds what the last write covering it wrote.  A payload write is   *)
(* tagged with a fresh version, a slot-entry write with its slot number.   *)
(* Offsets, lengths and the free-space arithmetic are the code's.          *)
(***************************************************************************)
EXTENDS Integers, Sequences, FiniteSets

CONSTANTS
    Tables,       \* table names
    PageSize,     \* storage.PageSize (4096 in the code)
    DataLens,     \* lengths of a tuple's Data (the JSON of a row)
    MaxPages,     \* pages the data file may grow to, catalog page included
    MaxWrites,    \* Insert and Update calls in a behaviour
    MaxRestarts

PageHeaderSize == 28
SlotSize == 4                 \* slotSize: offset (2) + length (2)
TupleHeaderSize == 36         \* Tuple.Serialize: xmin .. dataLen
CatalogPage == 0              \* NewCatalog takes the first page
NoTable == "none"
NoId == -1                    \* no entry in tableIDs
PageIDs == 1..(MaxPages - 1)
TupleLens == {TupleHeaderSize + d : d \in DataLens}

ASSUME /\ PageSize \in Nat /\ PageSize < 2^16
       /\ DataLens \subseteq Nat /\ DataLens # {}
       /\ \A l \in TupleLens : PageSize - PageHeaderSize - SlotSize >= l
       /\ MaxPages \in Nat \ {0, 1} /\ MaxWrites \in Nat /\ MaxRestarts \in Nat

VARIABLES
    pages,      \* data pages: slot directory, free-space bounds, write log
    numPages,   \* DiskManager's page count
    cat,        \* the in-memory Catalog: table ids, TableHeap first/last
    catDisk,    \* what the catalog page holds (the last serialize)
    owner,      \* ghost: the table whose heap allocated each page
    nextVer,    \* ghost: version tag of the next payload write
    writes,     \* bound counter: Insert and Update calls
    restarts

vars == <<pages, numPages, cat, catDisk, owner, nextVer, writes, restarts>>

-----------------------------------------------------------------------------
(* Slotted page (page.go).                                                 *)

\* NewPage / init: no slots, free space from the header to the page end.
EmptyPage == [slot |-> <<>>, freeOff |-> PageHeaderSize, freeEnd |-> PageSize,
              log |-> <<>>]

SlotCount(pg) == Len(pg.slot)

\* getSlot/setSlot address slot n at the tail of the page.
SlotPos(n) == PageSize - (n + 1) * SlotSize

\* Mutant: free space measured from the page start, not from freeOff.
FreeSpaceNoHeader(pg) == pg.freeEnd - SlotSize

\* FreeSpace: room between the two bounds, less one new slot entry.
FreeSpace(pg) == pg.freeEnd - pg.freeOff - SlotSize

\* setSlot: write the 4-byte entry of slot n (appending slot n = count).
SetSlot(pg, n, off, len, ver) ==
    LET e == [off |-> off, len |-> len, ver |-> ver]
    IN  [pg EXCEPT
           !.slot = IF n < Len(@) THEN [@ EXCEPT ![n + 1] = e] ELSE Append(@, e),
           !.log = Append(@, [lo |-> SlotPos(n), hi |-> SlotPos(n) + SlotSize,
                              tag |-> <<"slot", n>>])]

\* copy(p.Data[lo:], data) of a payload of length len.
WritePayload(pg, lo, len, ver) ==
    [pg EXCEPT !.log = Append(@, [lo |-> lo, hi |-> lo + len, tag |-> <<"tuple", ver>>])]

\* InsertTuple, when FreeSpace(pg) >= len: payload below freeEnd, then a
\* new slot entry, then the slot count.
InsertTuple(pg, len, ver) ==
    LET newEnd == pg.freeEnd - len
    IN  SetSlot(WritePayload([pg EXCEPT !.freeEnd = newEnd], newEnd, len, ver),
                SlotCount(pg), newEnd, len, ver)

\* Mutant: the relocating update reuses freeEnd without lowering it.
UpdateTupleNoAlloc(pg, n, len, ver) ==
    LET old == pg.slot[n + 1]
        newEnd == pg.freeEnd - len
    IN  IF len <= old.len
        THEN SetSlot(WritePayload(pg, old.off, len, ver), n, old.off, len, ver)
        ELSE SetSlot(WritePayload(SetSlot(pg, n, old.off, 0, old.ver), newEnd, len, ver),
                     n, newEnd, len, ver)

\* UpdateTuple of slot n < count (the ErrPageFull case is the caller's
\* guard): in place when it fits, else tombstone, allocate, rewrite.
UpdateTuple(pg, n, len, ver) ==
    LET old == pg.slot[n + 1]
        newEnd == pg.freeEnd - len
    IN  IF len <= old.len
        THEN SetSlot(WritePayload(pg, old.off, len, ver), n, old.off, len, ver)
        ELSE SetSlot(WritePayload([SetSlot(pg, n, old.off, 0, old.ver)
                                     EXCEPT !.freeEnd = newEnd], newEnd, len, ver),
                     n, newEnd, len, ver)

\* UpdateTuple's ErrPageFull: a longer payload that does not fit.
UpdateFits(pg, n, len) == len <= pg.slot[n + 1].len \/ FreeSpace(pg) >= len

\* DeleteTuple: length 0, offset kept.
DeleteTuple(pg, n) ==
    SetSlot(pg, n, pg.slot[n + 1].off, 0, pg.slot[n + 1].ver)

\* GetAllTuples: the slots with a non-zero length.
LiveSlots(pg) == {n \in 0..(SlotCount(pg) - 1) : pg.slot[n + 1].len > 0}

\* The bytes [lo, hi) still hold what the write tagged tag put there.
Intact(pg, lo, hi, tag) ==
    \E i \in DOMAIN pg.log :
        /\ pg.log[i].tag = tag /\ pg.log[i].lo <= lo /\ hi <= pg.log[i].hi
        /\ \A j \in (i + 1)..Len(pg.log) :
              pg.log[j].tag = tag \/ pg.log[j].hi <= lo \/ hi <= pg.log[j].lo

-----------------------------------------------------------------------------
(* Table heap and catalog (heap.go).                                       *)

Created(c) == {t \in Tables : c.ids[t] # NoId}

\* Scan: from firstPage, fetch each page id in turn until lastPage; a page
\* past the end of the file ends the walk (unless it is the first).
ScanPages(h) == {p \in h.first..h.last : p < numPages}

\* The RIDs Scan returns for a table, and the RIDs of the table's tuples.
ScanRids(t) ==
    UNION {{<<p, n>> : n \in LiveSlots(pages[p])} : p \in ScanPages(cat.heap[t])}
TableRids(t) ==
    UNION {{<<p, n>> : n \in LiveSlots(pages[p])} : p \in {q \in PageIDs : owner[q] = t}}

\* The catalog of a fresh database: NewCatalog serializes nothing, so the
\* catalog page is zeroed and would deserialize as no tables and
\* nextTableID 0.
EmptyCatalog(next) ==
    [ids |-> [t \in Tables |-> NoId], next |-> next,
     heap |-> [t \in Tables |-> [first |-> CatalogPage, last |-> CatalogPage]]]

Init ==
    /\ pages = [p \in PageIDs |-> EmptyPage]
    /\ numPages = 1
    /\ cat = EmptyCatalog(1)
    /\ catDisk = EmptyCatalog(0)
    /\ owner = [p \in PageIDs |-> NoTable]
    /\ nextVer = 1
    /\ writes = 0 /\ restarts = 0

\* DiskManager.AllocatePage, as BufferPool.NewPage calls it: the page id is
\* the current count, the count goes up by one (written to the file header)
\* and the page is written out empty. MaxPages bounds the file.
AllocatePage == numPages
CanAllocate == numPages < MaxPages   \* the model bound on the file size

\* Mutant: the catalog is serialized before nextTableID is advanced.
CreateTableSerializeFirst(t) ==
    /\ cat.ids[t] = NoId
    /\ CanAllocate
    /\ LET p == AllocatePage
           c == [cat EXCEPT !.ids[t] = cat.next, !.heap[t] = [first |-> p, last |-> p]]
       IN  /\ cat' = [c EXCEPT !.next = @ + 1] /\ catDisk' = c
           /\ pages' = [pages EXCEPT ![p] = EmptyPage]
           /\ owner' = [owner EXCEPT ![p] = t]
    /\ numPages' = numPages + 1
    /\ UNCHANGED <<nextVer, writes, restarts>>

\* Catalog.CreateTable: a fresh id, NewTableHeap (one new page), serialize.
CreateTable(t) ==
    /\ cat.ids[t] = NoId
    /\ CanAllocate
    /\ LET p == AllocatePage
           c == [cat EXCEPT !.ids[t] = cat.next, !.next = @ + 1,
                            !.heap[t] = [first |-> p, last |-> p]]
       IN  /\ cat' = c /\ catDisk' = c
           /\ pages' = [pages EXCEPT ![p] = EmptyPage]
           /\ owner' = [owner EXCEPT ![p] = t]
    /\ numPages' = numPages + 1
    /\ UNCHANGED <<nextVer, writes, restarts>>

\* TableHeap.Insert: into lastPage if it has room, else a new page that
\* becomes lastPage (in memory only; the catalog is not serialized).
Insert(t, d) ==
    /\ cat.ids[t] # NoId /\ writes < MaxWrites
    /\ LET len == TupleHeaderSize + d
           last == cat.heap[t].last
       IN  IF FreeSpace(pages[last]) >= len
           THEN /\ pages' = [pages EXCEPT ![last] = InsertTuple(@, len, nextVer)]
                /\ UNCHANGED <<numPages, cat, owner>>
           ELSE /\ CanAllocate
                /\ pages' = [pages EXCEPT ![AllocatePage] = InsertTuple(EmptyPage, len, nextVer)]
                /\ owner' = [owner EXCEPT ![AllocatePage] = t]
                /\ cat' = [cat EXCEPT !.heap[t].last = AllocatePage]
                /\ numPages' = numPages + 1
    /\ nextVer' = nextVer + 1 /\ writes' = writes + 1
    /\ UNCHANGED <<catDisk, restarts>>

\* TableHeap.Update of a RID the caller scanned (executeDelete writes the
\* tuple back with its xmax set; redo and undo rewrite slots).
Update(p, n, d) ==
    /\ p < numPages /\ n < SlotCount(pages[p]) /\ writes < MaxWrites
    /\ UpdateFits(pages[p], n, TupleHeaderSize + d)
    /\ pages' = [pages EXCEPT ![p] = UpdateTuple(@, n, TupleHeaderSize + d, nextVer)]
    /\ nextVer' = nextVer + 1 /\ writes' = writes + 1
    /\ UNCHANGED <<numPages, cat, catDisk, owner, restarts>>

\* TableHeap.Delete (vacuum, undo of an insert): tombstone the slot.
Delete(p, n) ==
    /\ p < numPages /\ n < SlotCount(pages[p]) /\ writes < MaxWrites
    /\ pages' = [pages EXCEPT ![p] = DeleteTuple(@, n)]
    /\ writes' = writes + 1
    /\ UNCHANGED <<numPages, cat, catDisk, owner, nextVer, restarts>>

\* TableHeap.Scan (SELECT): reads only.
Scan(t) == cat.ids[t] # NoId /\ UNCHANGED vars

\* Engine close (flush all pages) and open: LoadCatalog deserializes the
\* catalog page; pages and the page count are on disk.
Restart ==
    /\ restarts < MaxRestarts
    /\ cat' = catDisk
    /\ restarts' = restarts + 1
    /\ UNCHANGED <<pages, numPages, catDisk, owner, nextVer, writes>>

Next ==
    \/ \E t \in Tables : CreateTable(t) \/ Scan(t)
    \/ \E t \in Tables, d \in DataLens : Insert(t, d)
    \/ \E p \in PageIDs, n \in 0..(PageSize \div TupleHeaderSize), d \in DataLens :
          Update(p, n, d)
    \/ \E p \in PageIDs, n \in 0..(PageSize \div TupleHeaderSize) : Delete(p, n)
    \/ Restart

Spec == Init /\ [][Next]_vars

-----------------------------------------------------------------------------
(* Properties.                                                             *)

Catalogs == [ids : [Tables -> Int], next : Nat,
             heap : [Tables -> [first : Nat, last : Nat]]]

TypeOK ==
    /\ numPages \in 1..MaxPages
    /\ cat \in Catalogs /\ catDisk \in Catalogs
    /\ owner \in [PageIDs -> Tables \cup {NoTable}]
    /\ \A p \in PageIDs :
          /\ pages[p].freeOff = PageHeaderSize
          /\ pages[p].freeEnd \in PageHeaderSize..PageSize
          /\ \A i \in DOMAIN pages[p].slot : pages[p].slot[i].off \in 0..PageSize
    /\ nextVer \in Nat /\ writes \in 0..MaxWrites /\ restarts \in 0..MaxRestarts

\* Spec 3, page invariant, over InsertTuple, UpdateTuple (in place and
\* relocating) and DeleteTuple: free-space begin <= end, every live slot's
\* payload lies in [freeEnd, PageSize), and live payloads are disjoint.
PayloadsDisjoint ==
    \A p \in PageIDs :
        LET pg == pages[p] IN
        /\ pg.freeOff <= pg.freeEnd
        /\ \A n \in LiveSlots(pg) :
              /\ pg.freeEnd <= pg.slot[n + 1].off
              /\ pg.slot[n + 1].off + pg.slot[n + 1].len <= PageSize
              /\ \A m \in LiveSlots(pg) \ {n} :
                    \/ pg.slot[n + 1].off + pg.slot[n + 1].len <= pg.slot[m + 1].off
                    \/ pg.slot[m + 1].off + pg.slot[m + 1].len <= pg.slot[n + 1].off

\* The slot directory and the payloads both grow down from the page end;
\* getSlot must still read back every entry setSlot wrote: no payload
\* copy of InsertTuple or UpdateTuple lands on a slot entry.  (The model
\* reads slots from the directory, which this invariant justifies.)
SlotsReadable ==
    \A p \in PageIDs : \A n \in 0..(SlotCount(pages[p]) - 1) :
        Intact(pages[p], SlotPos(n), SlotPos(n) + SlotSize, <<"slot", n>>)

\* Every table gets its own id, also when some were created before a
\* restart and some after: LoadCatalog must restore nextTableID.
DistinctTableIds ==
    \A t, u \in Created(cat) : t # u => cat.ids[t] # cat.ids[u]

\* SELECT sees exactly its table's rows: Scan of a table returns the live
\* slots of the pages that table's heap allocated, no more, no fewer, also
\* after a restart.
ScanExact ==
    \A t \in Created(cat) : ScanRids(t) = TableRids(t)

=============================================================================
