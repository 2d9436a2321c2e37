-------------------------------- MODULE BTree --------------------------------
(***************************************************************************)
(* BTree and BTreeIterator: lookups and ordered walks over an on-disk      *)
(* B-tree whose nodes are read on demand and kept in the map m_nodes.      *)
(*                                                                         *)
(* The tree on disk never changes while it is mounted, so it is a set of   *)
(* constants.  Node n holds the records Lo[n]..Hi[n] of the sorted sequence*)
(* of records (positions 1..N, keys RecKey); an index node has Cnt[n]      *)
(* entries, entry k naming the child Kid[n][k] under the first key of that *)
(* child, as the file system writes them; a leaf has one entry per record. *)
(* Reading a node can fail (object map, device or checksum).               *)
(***************************************************************************)
EXTENDS Integers, FiniteSets, TLC

CONSTANTS
  N, RecKey,            \* the records
  Nodes, Root, NoNode,  \* object ids of the nodes, and the null pointer
  Level, Lo, Hi, Cnt, Kid,  \* the tree
  Keys,                 \* keys asked for
  MaxNodes,             \* BTREE_MAP_MAX_NODES
  IndexMod              \* 2^32 in the build: an index is a uint32_t

Leaf(n) == Level[n] = 0

\* The first record below entry k of node n, and the last one.
First(n, k) == IF Leaf(n) THEN Lo[n] + k ELSE Lo[Kid[n][k]]
Last(n, k)  == IF Leaf(n) THEN Lo[n] + k ELSE Hi[Kid[n][k]]

Entries(n) == 0..(Cnt[n] - 1)

\* The key stored in entry k of node n.
EntryKey(n, k) == RecKey[First(n, k)]

ASSUME RecordsSorted ==
  /\ N \in Nat
  /\ RecKey \in [1..N -> Int]
  /\ \A p, q \in 1..N : p < q => RecKey[p] < RecKey[q]
  /\ Keys \subseteq Int

ASSUME TreeTyped ==
  /\ Nodes \subseteq Nat
  /\ Root \in Nodes
  /\ NoNode \notin Nodes
  /\ Level \in [Nodes -> Nat]
  /\ Lo \in [Nodes -> Nat] /\ Hi \in [Nodes -> Nat] /\ Cnt \in [Nodes -> Nat]
  /\ MaxNodes \in Nat
  /\ IndexMod \in Nat
  /\ \A n \in Nodes : Cnt[n] < IndexMod - 1

\* Only the root of an empty tree is empty.
ASSUME TreeCovers ==
  /\ Lo[Root] = 1 /\ Hi[Root] = N
  /\ \A n \in Nodes :
       /\ 1 <= Lo[n] /\ Hi[n] <= N
       /\ n # Root \/ ~Leaf(n) => Lo[n] <= Hi[n] /\ Cnt[n] > 0
       /\ Leaf(n) => Cnt[n] = Hi[n] - Lo[n] + 1

\* The children of an index node divide its records, in order.
ASSUME TreeNested ==
  \A n \in Nodes : ~Leaf(n) =>
    /\ \A k \in Entries(n) :
         Kid[n][k] \in Nodes \ {Root} /\ Level[Kid[n][k]] = Level[n] - 1
    /\ Lo[Kid[n][0]] = Lo[n]
    /\ Hi[Kid[n][Cnt[n] - 1]] = Hi[n]
    /\ \A k \in Entries(n) :
         k + 1 < Cnt[n] => Lo[Kid[n][k + 1]] = Hi[Kid[n][k]] + 1
    /\ \A j, k \in Entries(n) : j < k => Hi[Kid[n][j]] < Lo[Kid[n][k]]

VARIABLES
  nodes,     \* m_nodes: what each cached node remembers of its parent
  rootNode,  \* m_root_node
  pc,        \* "closed", "idle", the phases of an operation, "crashed"
  req,       \* the operation running, or the last one
  node,      \* the node pointer of the running operation
  pidx,      \* the entry to go down through after a climb
  entry,     \* the client's BTreeEntry of the last successful Lookup
  ret,       \* how the last Lookup returned
  it         \* the client's BTreeIterator: m_node and m_index

vars == <<nodes, rootNode, pc, req, node, pidx, entry, ret, it>>

Cached == DOMAIN nodes

NoPlace == [node |-> NoNode, index |-> 0]
Places == [node : Nodes \cup {NoNode}, index : 0..(IndexMod - 1)]

\* An operation and its arguments (key and exact are 0 and FALSE where it
\* takes none).
Request(o, k, x) == [op |-> o, key |-> k, exact |-> x]
Requests == [op : {"none", "lookup", "seek", "first", "next"},
             key : Keys \cup {0}, exact : BOOLEAN]

TypeOK ==
  /\ Cached \subseteq Nodes
  /\ nodes \in [Cached -> [parent : Nodes \cup {NoNode}, pidx : Nat]]
  /\ rootNode \in {Root, NoNode}
  /\ pc \in {"closed", "idle", "start", "down", "leaf", "up", "across",
             "crashed"}
  /\ req \in Requests
  /\ node \in Nodes \cup {NoNode}
  /\ pidx \in Nat
  /\ entry \in Places
  /\ ret \in {"found", "missing", "unreadable"}
  /\ it \in Places

Init ==
  /\ nodes = [n \in {} |-> [parent |-> NoNode, pidx |-> 0]]
  /\ rootNode = NoNode
  /\ pc = "closed"
  /\ req = Request("none", 0, FALSE)
  /\ node = NoNode
  /\ pidx = 0
  /\ entry = NoPlace
  /\ ret = "missing"
  /\ it = NoPlace

-----------------------------------------------------------------------------
\* FindBin's result i for key k in node n (module FindBin proves that this is
\* what the search returns).
Found(m, n, k, i) ==
  LET wanted == {j \in Entries(n) :
                   CASE m = "EQ" -> EntryKey(n, j) = k
                     [] m = "LE" -> EntryKey(n, j) <= k
                     [] m = "GE" -> EntryKey(n, j) >= k}
  IN \/ i = -1 /\ wanted = {}
     \/ /\ i \in wanted
        /\ \A j \in wanted : IF m = "LE" THEN j <= i ELSE j >= i

\* uint32_t arithmetic on indices: m_index + 1, and entries_cnt() - 1.
Inc(i) == IF i = IndexMod - 1 THEN 0 ELSE i + 1
LastIndex(n) == IF Cnt[n] = 0 THEN IndexMod - 1 ELSE Cnt[n] - 1

\* Nodes something outside m_nodes points to: m_root_node, the pointer of the
\* running operation (the parent of the node being made), the node of the
\* client's entry and of its iterator.
Pinned == {rootNode, node, entry.node, it.node}

\* Mutants: the whole map is cleared; only pinned nodes are kept.
SweptAll(kept) == kept = {}
SweptPinned(kept) == kept = Cached \cap Pinned

\* The eviction loop visits m_nodes by ascending object id and erases a node
\* when the map holds its last reference: what stays is what is pinned, and
\* what is the parent of a node that stays or has not been visited yet.
Swept(kept) ==
  /\ kept \subseteq Cached
  /\ \A n \in Cached :
       n \in kept <=> \/ n \in Pinned
                      \/ \E c \in Cached : /\ nodes[c].parent = n
                                           /\ c > n \/ c \in kept

\* Mutants: no limit on the map; the parent's index is taken one too low.
InsertUnbounded(oid, par, i) ==
  nodes' = [n \in Cached \cup {oid} |->
              IF n = oid THEN [parent |-> par, pidx |-> i] ELSE nodes[n]]
InsertShifted(oid, par, i) ==
  nodes' = [n \in Cached \cup {oid} |->
              IF n = oid THEN [parent |-> par, pidx |-> i - 1] ELSE nodes[n]]

\* m_nodes[oid] = a new node, after an eviction when the map is over its limit.
Insert(oid, par, i) ==
  \E kept \in SUBSET Cached :
    /\ IF Cardinality(Cached) > MaxNodes THEN Swept(kept) ELSE kept = Cached
    /\ nodes' = [n \in kept \cup {oid} |->
                   IF n = oid THEN [parent |-> par, pidx |-> i] ELSE nodes[n]]

\* GetNode: from the map, or read, verified and inserted, or (object map
\* entry missing, read error, bad checksum) the null pointer.
GetNode(oid, par, i, result) ==
  \/ oid \in Cached /\ result = oid /\ UNCHANGED nodes
  \/ oid \notin Cached /\ result = oid /\ Insert(oid, par, i)
  \/ oid \notin Cached /\ result = NoNode /\ UNCHANGED nodes

\* BTree::Init.  Volumes go on with a tree whose root could not be read.
Open ==
  /\ pc = "closed"
  /\ \E r \in {Root, NoNode} :
       /\ GetNode(Root, NoNode, 0, r)
       /\ rootNode' = r
  /\ pc' = "idle"
  /\ UNCHANGED <<req, node, pidx, entry, ret, it>>

Call(r) ==
  /\ pc = "idle"
  /\ req' = r
  /\ pc' = "start"
  /\ UNCHANGED <<nodes, rootNode, node, pidx, entry, ret, it>>

CallLookup == \E k \in Keys, x \in BOOLEAN : Call(Request("lookup", k, x))
CallSeek == \E k \in Keys : Call(Request("seek", k, FALSE))
CallFirst == Call(Request("first", 0, FALSE))

\* A walk goes on only from an entry it could read (ApfsDir, ApfsVolume).
CallNext ==
  /\ it.node # NoNode
  /\ it.index < Cnt[it.node]
  /\ Call(Request("next", 0, FALSE))

\* The operation ends; its locals die.
Return ==
  /\ pc' = "idle"
  /\ node' = NoNode
  /\ UNCHANGED <<rootNode, req, pidx>>

\* A null node pointer is dereferenced.
Crash ==
  /\ pc' = "crashed"
  /\ UNCHANGED <<nodes, rootNode, req, node, pidx, entry, ret, it>>

Descending == req.op \in {"lookup", "seek", "first"}

\* Lookup checks m_root_node; GetIterator and GetIteratorBegin do not.
Start ==
  /\ pc = "start"
  /\ Descending
  /\ rootNode # NoNode
  /\ node' = rootNode
  /\ pc' = IF Leaf(rootNode) THEN "leaf" ELSE "down"
  /\ UNCHANGED <<nodes, rootNode, req, pidx, entry, ret, it>>

\* Mutant: Lookup does not check either.
StartUnchecked ==
  /\ pc = "start"
  /\ Descending
  /\ rootNode = NoNode
  /\ Crash

StartWithoutRoot ==
  /\ pc = "start"
  /\ Descending
  /\ rootNode = NoNode
  /\ IF req.op = "lookup"
       THEN Return /\ ret' = "unreadable" /\ UNCHANGED <<nodes, entry, it>>
       ELSE Crash

\* Entry i is the one the running operation goes down through.
Route(i) ==
  CASE req.op = "lookup" -> Found("LE", node, req.key, i)
    [] req.op = "seek" ->
         \E f \in -1..(Cnt[node] - 1) :
           Found("LE", node, req.key, f) /\ i = IF f < 0 THEN 0 ELSE f
    [] req.op = "first" -> i = 0

\* One level down; a lookup gives up on an unreadable child, an iterator
\* does not check.
Descend ==
  /\ pc = "down"
  /\ \E i \in Entries(node) :
       /\ Route(i)
       /\ \/ \E child \in Nodes :
               /\ GetNode(Kid[node][i], node, i, child)
               /\ node' = child
               /\ pc' = IF Leaf(child) THEN "leaf" ELSE "down"
               /\ UNCHANGED <<rootNode, req, pidx, entry, ret, it>>
          \/ /\ GetNode(Kid[node][i], node, i, NoNode)
             /\ IF req.op = "lookup"
                  THEN Return /\ ret' = "unreadable" /\ UNCHANGED <<entry, it>>
                  ELSE Crash

\* A lookup of a key before the first one ends at the first index node.
DescendBefore ==
  /\ pc = "down"
  /\ req.op = "lookup"
  /\ Found("LE", node, req.key, -1)
  /\ Return
  /\ ret' = "missing"
  /\ UNCHANGED <<nodes, entry, it>>

LeafLookup ==
  /\ pc = "leaf"
  /\ req.op = "lookup"
  /\ \E i \in -1..(Cnt[node] - 1) :
       /\ Found(IF req.exact THEN "EQ" ELSE "LE", node, req.key, i)
       /\ ret' = IF i < 0 THEN "missing" ELSE "found"
       /\ entry' = IF i < 0 THEN entry ELSE [node |-> node, index |-> i]
  /\ Return
  /\ UNCHANGED <<nodes, it>>

\* it.Setup, when the leaf has an entry at or after the key.
LeafIterator ==
  /\ pc = "leaf"
  /\ req.op \in {"seek", "first"}
  /\ \E i \in 0..Cnt[node] :
       /\ IF req.op = "first"
            THEN i = 0
            ELSE i < Cnt[node] /\ Found("GE", node, req.key, i)
       /\ it' = [node |-> node, index |-> i]
  /\ Return
  /\ UNCHANGED <<nodes, entry, ret>>

\* Mutant: the iterator is left at the last entry.
LeafIteratorStays ==
  /\ pc = "leaf"
  /\ req.op = "seek"
  /\ Found("GE", node, req.key, -1)
  /\ it' = [node |-> node, index |-> LastIndex(node)]
  /\ Return
  /\ UNCHANGED <<nodes, entry, ret>>

\* Otherwise: Setup at the last entry, and next(), which leaves the leaf.
\* In an empty leaf the last entry is number 2^32 - 1 and next() wraps it to 0.
LeafIteratorPast ==
  /\ pc = "leaf"
  /\ req.op = "seek"
  /\ Found("GE", node, req.key, -1)
  /\ it' = [node |-> node, index |-> Inc(LastIndex(node))]
  /\ pc' = "up"
  /\ UNCHANGED <<nodes, rootNode, req, node, pidx, entry, ret>>

\* BTreeIterator::next inside a leaf, and at its end.
NextInLeaf ==
  /\ pc = "start"
  /\ req.op = "next"
  /\ it' = [it EXCEPT !.index = Inc(@)]
  /\ it'.index < Cnt[it.node]
  /\ Return
  /\ UNCHANGED <<nodes, entry, ret>>

NextLeavesLeaf ==
  /\ pc = "start"
  /\ req.op = "next"
  /\ it' = [it EXCEPT !.index = Inc(@)]
  /\ it'.index >= Cnt[it.node]
  /\ pc' = "up"
  /\ node' = it.node
  /\ UNCHANGED <<nodes, rootNode, req, pidx, entry, ret>>

\* Mutant: node moves up only where the climb stops.
ClimbStuck ==
  /\ pc = "up"
  /\ LET parent == nodes[node].parent
         i == nodes[node].pidx + 1
     IN IF parent = NoNode
          THEN Return /\ UNCHANGED <<nodes, entry, ret, it>>
          ELSE /\ node' = IF i >= Cnt[parent] THEN node ELSE parent
               /\ pidx' = i
               /\ pc' = IF i >= Cnt[parent] THEN "up" ELSE "across"
               /\ UNCHANGED <<nodes, rootNode, req, entry, ret, it>>

\* next_node climbs while the entry after the one it came from does not exist;
\* above the root the walk has ended and the iterator stays where it is.
Climb ==
  /\ pc = "up"
  /\ LET parent == nodes[node].parent
         i == nodes[node].pidx + 1
     IN IF parent = NoNode
          THEN Return /\ UNCHANGED <<nodes, entry, ret, it>>
          ELSE /\ node' = parent
               /\ pidx' = i
               /\ pc' = IF i >= Cnt[parent] THEN "up" ELSE "across"
               /\ UNCHANGED <<nodes, rootNode, req, entry, ret, it>>

\* and goes down along first entries to the next leaf.
Across ==
  /\ pc = "across"
  /\ ~Leaf(node)
  /\ \/ \E child \in Nodes :
          /\ GetNode(Kid[node][pidx], node, pidx, child)
          /\ node' = child
          /\ pidx' = 0
          /\ UNCHANGED <<rootNode, pc, req, entry, ret, it>>
     \/ GetNode(Kid[node][pidx], node, pidx, NoNode) /\ Crash

EnterNextLeaf ==
  /\ pc = "across"
  /\ Leaf(node)
  /\ it' = [node |-> node, index |-> 0]
  /\ Return
  /\ UNCHANGED <<nodes, entry, ret>>

Step ==
  \/ Start \/ StartWithoutRoot
  \/ Descend \/ DescendBefore \/ LeafLookup \/ LeafIterator \/ LeafIteratorPast
  \/ NextInLeaf \/ NextLeavesLeaf \/ Climb \/ Across \/ EnterNextLeaf

Next ==
  \/ Open
  \/ CallLookup \/ CallSeek \/ CallFirst \/ CallNext
  \/ Step

Spec == Init /\ [][Next]_vars

\* The caller runs in the same thread and waits: a started operation runs on.
FairSpec == Spec /\ WF_vars(Step)

-----------------------------------------------------------------------------
(* The climb of next_node trusts m_parent and m_parent_index of cached      *)
(* nodes: eviction never leaves a cached node whose parent is gone, and     *)
(* every node but the root is the child its parent entry names.             *)
ParentsCached ==
  \A n \in Cached :
    IF n = Root
      THEN nodes[n].parent = NoNode
      ELSE /\ nodes[n].parent \in Cached
           /\ ~Leaf(nodes[n].parent)
           /\ nodes[n].pidx \in Entries(nodes[n].parent)
           /\ Kid[nodes[n].parent][nodes[n].pidx] = n

(* What an operation, the client's entry or its iterator points to is never *)
(* evicted, so no node is ever in memory twice.                             *)
PinnedStays == Pinned \ {NoNode} \subseteq Cached

(* Checking the size before the insertion lets the map grow one node past   *)
(* its limit and no further, as long as the limit leaves room for the nodes *)
(* that pointers hold at a time.                                            *)
CacheBounded == Cardinality(Cached) <= MaxNodes + 1

(* An unreadable block makes a Lookup return false; it never takes the      *)
(* driver down, even on a tree whose root could not be read.                *)
LookupSurvives == pc = "crashed" => req.op # "lookup"

(* Every operation ends, or the program does.                               *)
Answered == (pc = "start") ~> (pc \in {"idle", "crashed"})

\* What the operations show of the records.
Place(p) == Lo[p.node] + p.index

Answer == CASE ret = "found" -> Place(entry)
            [] ret = "missing" -> 0
            [] ret = "unreadable" -> -1

Busy == pc \notin {"closed", "idle"}

\* next() moves m_index before it looks for the next leaf.
Cursor ==
  IF it.node = NoNode \/ (Busy /\ req.op \in {"seek", "first"})
    THEN 0
    ELSE IF req.op = "next" /\ pc \in {"up", "across", "crashed"}
           THEN Place(it) - 1
           ELSE Place(it)

Map == INSTANCE OrderedMap WITH
         question <- req, busy <- Busy, answer <- Answer, cursor <- Cursor

(* The tree implements the ordered map: lookups return the record the map   *)
(* would return, or report failure when a block was unreadable; a walk      *)
(* visits every record from the first one at or after the key, in order,    *)
(* without skipping or repeating one, whatever was evicted in between.      *)
ImplementsMap == Map!MapSpec
=============================================================================
