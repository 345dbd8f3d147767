-------------------------------- MODULE BTree --------------------------------
(***************************************************************************)
(* The B-tree index of minidb (package index, btree.go; in this repository *)
(* the file is appended to src/internal/index/btree_test.go, lines        *)
(* 260-866).  The engine builds an index in CreateIndex and rebuilds it    *)
(* in Vacuum, one Insert at a time, on the goroutine that runs the         *)
(* statement; an operation is therefore one atomic step here.              *)
(*                                                                         *)
(* A page is a node: its leaf flag, its keys, and either its row ids (a    *)
(* leaf) or its children (an internal node), as deserializeNode reads them.*)
(* Keys are the normalized byte strings, abstracted to integers compared   *)
(* as bytes.Compare compares them.  Pins are not modelled: every operation *)
(* unpins what it fetched before it returns.                               *)
(***************************************************************************)
EXTENDS Naturals, FiniteSets, Sequences, SequencesExt

CONSTANTS
    Keys,       \* normalized keys (integers, in byte order)
    RIDs,       \* row ids
    NoRID,      \* RID{}: what Search returns with found = false
    Order,      \* bt.order: a node splits when it holds more than Order-1 keys
    MaxPages    \* the model bound on pages the buffer pool hands out

ASSUME Keys \subseteq Nat /\ Order \in Nat /\ Order >= 3 /\ MaxPages \in Nat

Pages == 0 .. MaxPages - 1

VARIABLES
    nodes,      \* nodes[p]: the B-tree node stored on page p
    root,       \* bt.rootPageID
    nextPage,   \* pages 0 .. nextPage-1 have been allocated by NewPage
    lastOp      \* history: the last call and its arguments (no code state)

vars == <<nodes, root, nextPage, lastOp>>

Node(leaf, ks, vs, cs) == [leaf |-> leaf, keys |-> ks, vals |-> vs, children |-> cs]
EmptyLeaf == Node(TRUE, <<>>, <<>>, <<>>)

\* The state an Insert leaves behind: the pages, the root, the next page.
Tree(ns, rt, nx) == [ns |-> ns, root |-> rt, next |-> nx]

-----------------------------------------------------------------------------
(* Descent (findLeaf, Search) *)

\* A plausible bug in findLeaf: follow the child right of a key only when
\* the probe is strictly greater, so a probe equal to a separator goes left.
ChildIndexStrict(n, k) == Cardinality({i \in DOMAIN n.keys : k > n.keys[i]}) + 1

\* findLeaf's loop: childIdx is one past the last key <= the probe (the
\* keys are sorted and the loop breaks at the first greater one).
ChildIndex(n, k) == Cardinality({i \in DOMAIN n.keys : k >= n.keys[i]}) + 1

\* findLeaf: the pages from p down to the leaf for key k; all but the last
\* are the path it returns.
RECURSIVE Descend(_, _)
Descend(p, k) ==
    IF nodes[p].leaf THEN <<p>>
    ELSE <<p>> \o Descend(nodes[p].children[ChildIndex(nodes[p], k)], k)

findLeaf(k) == Descend(root, k)

\* Search: linear scan of the leaf for an equal key.
Search(k) ==
    LET n == nodes[Last(findLeaf(k))] IN
    IF \E i \in DOMAIN n.keys : n.keys[i] = k
    THEN n.vals[CHOOSE i \in DOMAIN n.keys : n.keys[i] = k]
    ELSE NoRID

\* scanNode from p: the row ids of every leaf below p, children in order.
RECURSIVE scanNode(_)
scanNode(p) ==
    IF nodes[p].leaf THEN nodes[p].vals
    ELSE FoldLeft(LAMBDA acc, c : acc \o scanNode(c), <<>>, nodes[p].children)

ScanAll == scanNode(root)

-----------------------------------------------------------------------------
(* Insert *)

\* insertIntoLeaf: overwrite the row id of an equal key, or shift the
\* greater keys right and put k after the last smaller one.
insertIntoLeaf(n, k, r) ==
    IF \E i \in DOMAIN n.keys : n.keys[i] = k
    THEN [n EXCEPT !.vals[CHOOSE i \in DOMAIN n.keys : n.keys[i] = k] = r]
    ELSE LET at == Cardinality({i \in DOMAIN n.keys : k > n.keys[i]}) + 1 IN
         [n EXCEPT !.keys = InsertAt(@, at, k), !.vals = InsertAt(@, at, r)]

\* A plausible bug in insertIntoParent: the new child put left of the key.
ParentInsertRightFirst(p, key, right) ==
    LET at == Cardinality({i \in DOMAIN p.keys : key > p.keys[i]}) + 1 IN
    [p EXCEPT !.keys = InsertAt(@, at, key), !.children = InsertAt(@, at, right)]

\* insertIntoParent's shift: key at insertIdx, the right child after it.
ParentInsert(p, key, right) ==
    LET at == Cardinality({i \in DOMAIN p.keys : key > p.keys[i]}) + 1 IN
    [p EXCEPT !.keys = InsertAt(@, at, key), !.children = InsertAt(@, at + 1, right)]

RECURSIVE insertIntoParent(_, _, _, _, _, _, _), splitInternal(_, _, _, _, _)

\* insertIntoParent(path, left, key, right) over the pages ns: an empty
\* path makes a new root on a new page; otherwise the key and right child
\* go into the last page of the path, which splits when it overflows.
insertIntoParent(ns, rt, nx, path, left, key, right) ==
    IF path = <<>>
    THEN Tree([ns EXCEPT ![nx] = Node(FALSE, <<key>>, <<>>, <<left, right>>)], nx, nx + 1)
    ELSE LET pid == Last(path)
             p   == ParentInsert(ns[pid], key, right)
         IN IF Len(p.keys) > Order - 1
            THEN splitInternal([ns EXCEPT ![pid] = p], rt, nx, Front(path), pid)
            ELSE Tree([ns EXCEPT ![pid] = p], rt, nx)

\* splitInternal: a new page takes the keys after the middle one and their
\* children; the middle key is promoted (not copied) to the parent.
splitInternal(ns, rt, nx, path, pid) ==
    LET n   == ns[pid]
        c   == Len(n.keys)
        mid == c \div 2
        left  == [n EXCEPT !.keys = SubSeq(n.keys, 1, mid),
                           !.children = SubSeq(n.children, 1, mid + 1)]
        right == Node(FALSE, SubSeq(n.keys, mid + 2, c), <<>>,
                      SubSeq(n.children, mid + 2, c + 1))
    IN insertIntoParent([ns EXCEPT ![pid] = left, ![nx] = right], rt, nx + 1,
                        path, pid, n.keys[mid + 1], nx)

\* A plausible bug in splitLeaf: the left page's largest key copied up as
\* the separator instead of the right page's smallest.
splitLeafSepLeft(ns, rt, nx, path, lid) ==
    LET n   == ns[lid]
        c   == Len(n.keys)
        mid == c \div 2
        left  == [n EXCEPT !.keys = SubSeq(n.keys, 1, mid), !.vals = SubSeq(n.vals, 1, mid)]
        right == Node(TRUE, SubSeq(n.keys, mid + 1, c), SubSeq(n.vals, mid + 1, c), <<>>)
    IN insertIntoParent([ns EXCEPT ![lid] = left, ![nx] = right], rt, nx + 1,
                        path, lid, n.keys[mid], nx)

\* splitLeaf: a new page takes the keys from the middle on; its smallest
\* key is copied up as the separator.
splitLeaf(ns, rt, nx, path, lid) ==
    LET n   == ns[lid]
        c   == Len(n.keys)
        mid == c \div 2
        left  == [n EXCEPT !.keys = SubSeq(n.keys, 1, mid), !.vals = SubSeq(n.vals, 1, mid)]
        right == Node(TRUE, SubSeq(n.keys, mid + 1, c), SubSeq(n.vals, mid + 1, c), <<>>)
    IN insertIntoParent([ns EXCEPT ![lid] = left, ![nx] = right], rt, nx + 1,
                        path, lid, right.keys[1], nx)

\* BTree.Insert(k, r): findLeaf, insertIntoLeaf, and splitLeaf when the leaf
\* holds more than Order-1 keys.  Taken only when the pages it allocates
\* fit under MaxPages.
Insert(k, r) ==
    LET d    == findLeaf(k)
        lid  == Last(d)
        leaf == insertIntoLeaf(nodes[lid], k, r)
        ns   == [nodes EXCEPT ![lid] = leaf]
        res  == IF Len(leaf.keys) > Order - 1
                THEN splitLeaf(ns, root, nextPage, Front(d), lid)
                ELSE Tree(ns, root, nextPage)
    IN /\ res.next <= MaxPages
       /\ nodes' = res.ns
       /\ root' = res.root
       /\ nextPage' = res.next
       /\ lastOp' = <<"insert", k, r>>

\* A plausible bug in Delete: the keys shifted left but not the row ids.
DeleteKeepsVal(k) ==
    LET lid == Last(findLeaf(k))
        n   == nodes[lid]
    IN /\ IF \E i \in DOMAIN n.keys : n.keys[i] = k
          THEN LET i == CHOOSE i \in DOMAIN n.keys : n.keys[i] = k IN
               nodes' = [nodes EXCEPT ![lid] = [n EXCEPT !.keys = RemoveAt(@, i)]]
          ELSE UNCHANGED nodes
       /\ lastOp' = <<"delete", k>>
       /\ UNCHANGED <<root, nextPage>>

\* BTree.Delete(k): remove k from its leaf by shifting; no merge or
\* redistribution, so a leaf may be left empty.
Delete(k) ==
    LET lid == Last(findLeaf(k))
        n   == nodes[lid]
    IN /\ IF \E i \in DOMAIN n.keys : n.keys[i] = k
          THEN LET i == CHOOSE i \in DOMAIN n.keys : n.keys[i] = k IN
               nodes' = [nodes EXCEPT ![lid] = [n EXCEPT !.keys = RemoveAt(@, i),
                                                        !.vals = RemoveAt(@, i)]]
          ELSE UNCHANGED nodes
       /\ lastOp' = <<"delete", k>>
       /\ UNCHANGED <<root, nextPage>>

-----------------------------------------------------------------------------

\* NewBTree: the root is a new page holding an empty leaf.
Init ==
    /\ nodes = [p \in Pages |-> EmptyLeaf]
    /\ root = 0
    /\ nextPage = 1
    /\ lastOp = <<"none">>

Next == \E k \in Keys : Delete(k) \/ \E r \in RIDs : Insert(k, r)

Spec == Init /\ [][Next]_vars

-----------------------------------------------------------------------------
(* Properties *)

Nodes == [leaf : BOOLEAN, keys : Seq(Keys), vals : Seq(RIDs), children : Seq(Pages)]

\* Types, and the layout deserializeNode reads: a leaf holds one row id per
\* key and no children, an internal node no row ids.
TypeOK ==
    /\ nextPage \in 1 .. MaxPages
    /\ root \in 0 .. nextPage - 1
    /\ \A p \in Pages :
          /\ nodes[p] \in Nodes
          /\ nodes[p].leaf => Len(nodes[p].vals) = Len(nodes[p].keys) /\ nodes[p].children = <<>>
          /\ ~nodes[p].leaf => nodes[p].vals = <<>>

\* The number of internal levels above the leaves, down the first children.
RECURSIVE Height(_)
Height(p) == IF nodes[p].leaf THEN 0 ELSE 1 + Height(nodes[p].children[1])

\* The pages of the subtree at p that break the layout of a B-tree of height
\* d with keys in [lo, hi): a page not yet allocated, keys unsorted, more
\* than Order-1 of them or outside the bounds, an internal node without one
\* more child than keys, or a leaf at the wrong depth.  Child j is bounded by
\* keys j-1 and j.
RECURSIVE Misplaced(_, _, _, _)
Misplaced(p, lo, hi, d) ==
    LET n == nodes[p]
        ok == /\ p < nextPage
              /\ IsSorted(n.keys, <)
              /\ Len(n.keys) <= Order - 1
              /\ \A i \in DOMAIN n.keys : lo <= n.keys[i] /\ n.keys[i] < hi
              /\ n.leaf <=> d = 0
              /\ ~n.leaf => Len(n.children) = Len(n.keys) + 1
    IN  IF ~ok THEN {p}
        ELSE IF n.leaf THEN {}
        ELSE UNION {Misplaced(n.children[j],
                              IF j = 1 THEN lo ELSE n.keys[j - 1],
                              IF j = Len(n.children) THEN hi ELSE n.keys[j],
                              d - 1) : j \in DOMAIN n.children}

\* After any sequence of Insert and Delete (splits of leaves and of
\* internal nodes, new roots, leaves emptied by Delete), the pages reached
\* from rootPageID form a balanced search tree whose separators route
\* findLeaf to the one leaf that can hold a key (spec section 4.10).
WellFormed == Misplaced(root, Min(Keys), Max(Keys) + 1, Height(root)) = {}

\* ScanAll returns the row id of every key the index holds, once, in key
\* order (spec section 8, scenario 8): scanNode's depth-first walk agrees
\* with Search on every key.
ScanAllInKeyOrder ==
    LET held == SetToSortSeq({k \in Keys : Search(k) # NoRID}, <) IN
    ScanAll = [i \in DOMAIN held |-> Search(held[i])]

\* The index as its callers see it: Search on every key, and the call made.
Abs == INSTANCE AbstractIndex WITH index <- [k \in Keys |-> Search(k)], op <- lastOp

\* Every Insert(k, r) leaves Search(k) = r and every Delete(k) leaves k
\* absent, with every other key's search result unchanged, through every
\* split (TestDuplicateKeyUpdate, TestLeafSplit, TestDelete): the B-tree
\* implements AbstractIndex call by call.
AbstractSpec == Abs!Spec
=============================================================================
