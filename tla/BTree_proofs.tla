----------------------------- MODULE BTree_proofs -----------------------------
(***************************************************************************)
(* Proofs about the B-tree, for every tree the assumptions of BTree allow, *)
(* every cache limit and every pattern of read failures:                   *)
(*   - the search in a node is right (SearchCorrect), ends after log2(n)   *)
(*     rounds (SearchLogarithmic) and is what BTree takes it for            *)
(*     (SearchFinds),                                                       *)
(*   - the node cache is coherent (CacheCorrect),                          *)
(*   - the tree implements the ordered map (Implementation),               *)
(* and, for every tree for which the limit is at least three times the      *)
(* level of its root,                                                      *)
(*   - the cache never grows more than one node past its limit             *)
(*     (CacheStaysBounded).                                                *)
(***************************************************************************)
EXTENDS BTree, FindBin, FiniteSetTheorems, TLAPS

CacheInv == TypeOK /\ ParentsCached /\ PinnedStays

(* Getting a node whose parent is pinned keeps the cache coherent, evicts   *)
(* nothing that is pinned, and leaves a node that was got in the map.       *)
LEMMA GetNodeKeepsCache ==
  ASSUME CacheInv,
         NEW oid \in Nodes, NEW par, NEW i \in Nat,
         NEW result \in Nodes \cup {NoNode},
         \/ oid = Root /\ par = NoNode
         \/ /\ par \in Pinned /\ par \in Nodes /\ ~Leaf(par)
            /\ i \in Entries(par) /\ Kid[par][i] = oid /\ oid # Root,
         GetNode(oid, par, i, result)
  PROVE  /\ DOMAIN nodes' \subseteq Nodes
         /\ nodes' \in [DOMAIN nodes' -> [parent : Nodes \cup {NoNode}, pidx : Nat]]
         /\ ParentsCached'
         /\ Pinned \ {NoNode} \subseteq DOMAIN nodes'
         /\ result # NoNode => result = oid /\ result \in DOMAIN nodes'
<1>1. oid # NoNode /\ (par \in Pinned /\ par \in Nodes => par \in Cached)
  BY TreeTyped DEF CacheInv, PinnedStays
<1>2. CASE UNCHANGED nodes /\ ((oid \in Cached /\ result = oid) \/ result = NoNode)
  BY <1>1, <1>2 DEF CacheInv, TypeOK, ParentsCached, PinnedStays, Cached
<1>3. CASE oid \notin Cached /\ result = oid /\ Insert(oid, par, i)
  <2>1. PICK kept \in SUBSET Cached :
          /\ IF Cardinality(Cached) > MaxNodes THEN Swept(kept) ELSE kept = Cached
          /\ nodes' = [n \in kept \cup {oid} |->
                 IF n = oid THEN [parent |-> par, pidx |-> i] ELSE nodes[n]]
    BY <1>3 DEF Insert
  <2>2. /\ Pinned \cap Cached \subseteq kept
        /\ \A n \in kept : nodes[n].parent \in Cached => nodes[n].parent \in kept
    <3>1. CASE kept = Cached
      BY <3>1
    <3>2. CASE Swept(kept)
      BY <2>1, <3>2 DEF Swept
    <3> QED BY <2>1, <3>1, <3>2
  <2>3. /\ DOMAIN nodes' = kept \cup {oid}
        /\ nodes'[oid] = [parent |-> par, pidx |-> i]
        /\ \A n \in kept : nodes'[n] = nodes[n]
    BY <1>3, <2>1
  <2>4. kept \subseteq Nodes
        /\ \A n \in kept : nodes[n] \in [parent : Nodes \cup {NoNode}, pidx : Nat]
    BY DEF CacheInv, TypeOK
  <2>5. DOMAIN nodes' \subseteq Nodes
        /\ nodes' \in [DOMAIN nodes' -> [parent : Nodes \cup {NoNode}, pidx : Nat]]
    <3>1. [parent |-> par, pidx |-> i] \in [parent : Nodes \cup {NoNode}, pidx : Nat]
      OBVIOUS
    <3> QED BY <2>1, <2>3, <2>4, <3>1
  <2>6. ParentsCached'
    <3> SUFFICES ASSUME NEW n \in kept \cup {oid}
                 PROVE IF n = Root
                         THEN nodes'[n].parent = NoNode
                         ELSE /\ nodes'[n].parent \in kept \cup {oid}
                              /\ ~Leaf(nodes'[n].parent)
                              /\ nodes'[n].pidx \in Entries(nodes'[n].parent)
                              /\ Kid[nodes'[n].parent][nodes'[n].pidx] = n
      BY <2>3 DEF ParentsCached, Cached
    <3>1. CASE n = oid
      <4>1. nodes'[n].parent = par /\ nodes'[n].pidx = i
        BY <2>3, <3>1
      <4> QED BY <1>1, <2>2, <3>1, <4>1
    <3>2. CASE n \in kept
      <4>1. nodes'[n] = nodes[n]
        BY <2>3, <3>2
      <4> QED BY <2>2, <3>2, <4>1 DEF CacheInv, ParentsCached
    <3> QED BY <3>1, <3>2
  <2>7. Pinned \ {NoNode} \subseteq DOMAIN nodes'
    BY <2>2, <2>3 DEF CacheInv, PinnedStays
  <2> QED BY <1>3, <2>3, <2>5, <2>6, <2>7
<1> QED BY <1>2, <1>3 DEF GetNode

-----------------------------------------------------------------------------
(* Where the operations are in the tree.                                    *)

\* Every record after the ones of node n is past the key k, every one before
\* them is short of it.
Past(n, k) == \A q \in 1..N : q > Hi[n] => RecKey[q] > k
Short(n, k) == \A q \in 1..N : q < Lo[n] => RecKey[q] < k

\* A descent is at a node that holds the answer if there is one.
OnPath(n) ==
  /\ req.op = "lookup" =>
       Past(n, req.key) /\ (n = Root \/ RecKey[Lo[n]] <= req.key)
  /\ req.op = "seek" => Past(n, req.key) /\ Short(n, req.key)
  /\ req.op = "first" => Lo[n] = 1

\* A climb is at a node that ends where the leaf it left ends, the way down
\* to the next leaf at one that continues there.
ControlInv ==
  /\ pc = "start" => req.op # "none"
  /\ pc = "start" /\ req.op = "next" =>
       it.node # NoNode /\ it.index < Cnt[it.node]
  /\ pc \in {"down", "leaf"} =>
       /\ node \in Nodes
       /\ Descending
       /\ Leaf(node) <=> pc = "leaf"
       /\ OnPath(node)
  /\ pc \in {"up", "across"} =>
       /\ node \in Nodes
       /\ req.op \in {"seek", "next"}
       /\ it.node # NoNode
       /\ it.index = Cnt[it.node]
       /\ req.op = "seek" => Map!IsCeiling(req.key, Hi[it.node] + 1)
  /\ pc = "up" => Hi[node] = Hi[it.node]
  /\ pc = "across" =>
       IF Leaf(node)
         THEN Lo[node] = Hi[it.node] + 1
         ELSE pidx \in Entries(node) /\ Lo[Kid[node][pidx]] = Hi[it.node] + 1
  /\ it.node # NoNode => Leaf(it.node) /\ it.index <= Cnt[it.node]
  /\ ret = "found" =>
       /\ entry.node # NoNode
       /\ Leaf(entry.node)
       /\ entry.index < Cnt[entry.node]
  /\ LookupSurvives

IInv == CacheInv /\ ControlInv

(* The entries of a leaf are consecutive records, in order.                  *)
LEMMA LeafFacts ==
  ASSUME NEW n \in Nodes, Leaf(n)
  PROVE  /\ Lo[n] \in Nat /\ Hi[n] \in Nat /\ Cnt[n] \in Nat
         /\ 1 <= Lo[n] /\ Hi[n] <= N /\ Hi[n] = Lo[n] + Cnt[n] - 1
         /\ Cnt[n] < IndexMod - 1
         /\ \A k \in Entries(n) : /\ EntryKey(n, k) = RecKey[Lo[n] + k]
                                  /\ Lo[n] + k \in 1..N
                                  /\ EntryKey(n, k) \in Int
<1>1. /\ Lo[n] \in Nat /\ Hi[n] \in Nat /\ Cnt[n] \in Nat
      /\ 1 <= Lo[n] /\ Hi[n] <= N /\ Hi[n] = Lo[n] + Cnt[n] - 1
      /\ Cnt[n] < IndexMod - 1
  BY TreeTyped, TreeCovers
<1>2. ASSUME NEW k \in Entries(n)
      PROVE  /\ EntryKey(n, k) = RecKey[Lo[n] + k]
             /\ Lo[n] + k \in 1..N
             /\ EntryKey(n, k) \in Int
  <2>1. EntryKey(n, k) = RecKey[Lo[n] + k]
    BY DEF EntryKey, First
  <2>2. Lo[n] + k \in 1..N
    BY SMTT(30), <1>1, RecordsSorted DEF Entries
  <2> QED BY <2>1, <2>2, RecordsSorted
<1> QED BY <1>1, <1>2

(* The entries of an index node are its children, each under the key of its *)
(* first record.                                                            *)
LEMMA IndexFacts ==
  ASSUME NEW n \in Nodes, ~Leaf(n)
  PROVE  /\ Lo[n] \in Nat /\ Hi[n] \in Nat /\ Cnt[n] \in Nat /\ Cnt[n] > 0
         /\ \A k \in Entries(n) :
              /\ Kid[n][k] \in Nodes \ {Root}
              /\ Lo[Kid[n][k]] \in 1..N /\ Hi[Kid[n][k]] \in 1..N
              /\ EntryKey(n, k) = RecKey[Lo[Kid[n][k]]]
              /\ EntryKey(n, k) \in Int
         /\ 0 \in Entries(n) /\ Cnt[n] - 1 \in Entries(n)
<1>1. Lo[n] \in Nat /\ Hi[n] \in Nat /\ Cnt[n] \in Nat /\ Cnt[n] > 0
  BY TreeTyped, TreeCovers
<1>2. ASSUME NEW k \in Entries(n)
      PROVE  /\ Kid[n][k] \in Nodes \ {Root}
             /\ Lo[Kid[n][k]] \in 1..N /\ Hi[Kid[n][k]] \in 1..N
             /\ EntryKey(n, k) = RecKey[Lo[Kid[n][k]]]
             /\ EntryKey(n, k) \in Int
  <2> DEFINE c == Kid[n][k]
  <2>1. c \in Nodes \ {Root}
    BY TreeNested
  <2>2. Lo[c] \in Nat /\ Hi[c] \in Nat /\ 1 <= Lo[c] /\ Lo[c] <= Hi[c] /\ Hi[c] <= N
    BY <2>1, TreeTyped, TreeCovers
  <2>3. Lo[c] \in 1..N /\ Hi[c] \in 1..N
    BY <2>2, RecordsSorted
  <2>4. EntryKey(n, k) = RecKey[Lo[c]]
    BY DEF EntryKey, First
  <2> QED BY <2>1, <2>3, <2>4, RecordsSorted
<1> QED BY <1>1, <1>2 DEF Entries

(* The tree is opened with an empty cache and at most its root in use.      *)
LEMMA InitInv == Init => IInv
<1> SUFFICES ASSUME Init PROVE IInv
  OBVIOUS
<1>1. CacheInv
  BY TreeTyped DEF Init, CacheInv, TypeOK, ParentsCached, PinnedStays, Cached,
     Pinned, NoPlace, Places, Request, Requests
<1>2. ControlInv
  BY DEF Init, ControlInv, NoPlace, Request, LookupSurvives
<1> QED BY <1>1, <1>2 DEF IInv

(* The cache survives every step.                                           *)
LEMMA CacheNext == IInv /\ [Next]_vars => CacheInv'
<1> SUFFICES ASSUME IInv, [Next]_vars PROVE CacheInv'
  OBVIOUS
<1> USE DEF IInv
<1>0. ASSUME UNCHANGED nodes, TypeOK', Pinned' \subseteq Pinned PROVE CacheInv'
  BY <1>0 DEF CacheInv, ParentsCached, PinnedStays, Cached
<1>1. CASE Open
  <2>1. PICK r \in {Root, NoNode} : GetNode(Root, NoNode, 0, r) /\ rootNode' = r
    BY <1>1 DEF Open
  <2>2. /\ DOMAIN nodes' \subseteq Nodes
        /\ nodes' \in [DOMAIN nodes' -> [parent : Nodes \cup {NoNode}, pidx : Nat]]
        /\ ParentsCached'
        /\ Pinned \ {NoNode} \subseteq DOMAIN nodes'
        /\ r # NoNode => r \in DOMAIN nodes'
    BY ZenonT(40), <2>1, TreeTyped, GetNodeKeepsCache
  <2>3. TypeOK'
    BY <1>1, <2>1, <2>2 DEF CacheInv, TypeOK, Cached, Open
  <2>4. PinnedStays'
    BY <1>1, <2>1, <2>2 DEF PinnedStays, Pinned, Cached, Open
  <2> QED BY <2>2, <2>3, <2>4 DEF CacheInv
<1>2. CASE CallLookup \/ CallSeek \/ CallFirst \/ CallNext
  <2>1. PICK r \in Requests : Call(r)
    BY <1>2 DEF CallLookup, CallSeek, CallFirst, CallNext, Request, Requests
  <2>2. TypeOK'
    BY <2>1 DEF Call, CacheInv, TypeOK, Cached
  <2> QED BY <1>0, <2>1, <2>2 DEF Call, Pinned
<1>3. CASE Start
  BY <1>0, <1>3, TreeTyped DEF Start, CacheInv, TypeOK, Cached, Pinned
<1>4. CASE StartWithoutRoot
  BY <1>0, <1>4 DEF StartWithoutRoot, Return, Crash, CacheInv, TypeOK, Cached,
     Pinned, PinnedStays, ParentsCached
<1>5. ASSUME pc \in {"down", "across"}, node \in Nodes, ~Leaf(node),
             NEW i \in Entries(node), NEW child \in Nodes \cup {NoNode},
             GetNode(Kid[node][i], node, i, child)
      PROVE  /\ DOMAIN nodes' \subseteq Nodes
             /\ nodes' \in [DOMAIN nodes' -> [parent : Nodes \cup {NoNode}, pidx : Nat]]
             /\ ParentsCached'
             /\ Pinned \ {NoNode} \subseteq DOMAIN nodes'
             /\ child # NoNode => child \in DOMAIN nodes'
  <2>1. Kid[node][i] \in Nodes \ {Root}
    BY <1>5, IndexFacts
  <2>2. node \in Pinned /\ i \in Nat
    BY DEF Pinned, Entries
  <2> QED BY <1>5, <2>1, <2>2, GetNodeKeepsCache
<1>6. ASSUME NEW child \in Nodes \cup {NoNode}, node' \in {child, NoNode, node},
             DOMAIN nodes' \subseteq Nodes,
             nodes' \in [DOMAIN nodes' -> [parent : Nodes \cup {NoNode}, pidx : Nat]],
             ParentsCached', Pinned \ {NoNode} \subseteq DOMAIN nodes',
             child # NoNode => child \in DOMAIN nodes',
             UNCHANGED <<rootNode, entry, it, req>>, pc' \in {"idle", "down", "leaf", "across", "crashed"},
             pidx' \in Nat, ret' \in {"found", "missing", "unreadable"}
      PROVE  CacheInv'
  <2>1. TypeOK'
    BY <1>6 DEF CacheInv, TypeOK, Cached
  <2>2. PinnedStays'
    BY <1>6 DEF PinnedStays, Pinned, Cached
  <2> QED BY <1>6, <2>1, <2>2 DEF CacheInv
<1>7. CASE Descend
  <2>1. node \in Nodes /\ ~Leaf(node) /\ pc = "down"
    BY <1>7 DEF Descend, ControlInv
  <2>2. PICK i \in Entries(node) :
          \/ \E child \in Nodes :
               /\ GetNode(Kid[node][i], node, i, child)
               /\ node' = child
               /\ pc' = IF Leaf(child) THEN "leaf" ELSE "down"
               /\ UNCHANGED <<rootNode, req, pidx, entry, ret, it>>
          \/ /\ GetNode(Kid[node][i], node, i, NoNode)
             /\ IF req.op = "lookup"
                  THEN Return /\ ret' = "unreadable" /\ UNCHANGED <<entry, it>>
                  ELSE Crash
    BY <1>7 DEF Descend
  <2>3. pidx \in Nat /\ ret \in {"found", "missing", "unreadable"}
    BY DEF CacheInv, TypeOK
  <2>4. ASSUME NEW child \in Nodes,
               GetNode(Kid[node][i], node, i, child),
               node' = child,
               pc' = IF Leaf(child) THEN "leaf" ELSE "down",
               UNCHANGED <<rootNode, req, pidx, entry, ret, it>>
        PROVE  CacheInv'
    BY <1>5, <1>6, <2>1, <2>3, <2>4
  <2>5. ASSUME GetNode(Kid[node][i], node, i, NoNode),
               IF req.op = "lookup"
                  THEN Return /\ ret' = "unreadable" /\ UNCHANGED <<entry, it>>
                  ELSE Crash
        PROVE  CacheInv'
    <3>1. /\ UNCHANGED <<rootNode, entry, it, req, pidx>>
          /\ pc' \in {"idle", "crashed"} /\ node' \in {node, NoNode}
          /\ ret' \in {"found", "missing", "unreadable"}
      BY <2>3, <2>5 DEF Return, Crash
    <3> QED BY <1>5, <1>6, <2>1, <2>3, <2>5, <3>1
  <2> QED BY <2>2, <2>4, <2>5
<1>8. CASE Across
  <2>1. node \in Nodes /\ ~Leaf(node) /\ pc = "across" /\ pidx \in Entries(node)
    BY <1>8 DEF Across, ControlInv
  <2>2. pidx \in Nat /\ ret \in {"found", "missing", "unreadable"}
    BY DEF CacheInv, TypeOK
  <2>3. ASSUME NEW child \in Nodes,
               GetNode(Kid[node][pidx], node, pidx, child),
               node' = child, pidx' = 0,
               UNCHANGED <<rootNode, pc, req, entry, ret, it>>
        PROVE  CacheInv'
    BY <1>5, <1>6, <2>1, <2>2, <2>3
  <2>4. CASE GetNode(Kid[node][pidx], node, pidx, NoNode) /\ Crash
    <3>1. /\ UNCHANGED <<rootNode, entry, it, req, pidx, ret, node>>
          /\ pc' = "crashed"
      BY <2>4 DEF Crash
    <3> QED BY <1>5, <1>6, <2>1, <2>2, <2>4, <3>1
  <2> QED BY <1>8, <2>3, <2>4 DEF Across
<1>9. CASE DescendBefore
  BY <1>0, <1>9 DEF DescendBefore, Return, CacheInv, TypeOK, Cached, Pinned,
     PinnedStays, ParentsCached
<1>10. ASSUME NEW p \in Places, p.node \in {node, it.node, NoNode},
              node' \in {node, NoNode}, entry' \in {entry, p}, it' \in {it, p},
              pc' \in {"idle", "up"}, pidx' \in Nat,
              ret' \in {"found", "missing", "unreadable"},
              UNCHANGED <<nodes, rootNode, req>>
       PROVE  CacheInv'
  <2>1. TypeOK'
    BY <1>10 DEF CacheInv, TypeOK, Cached
  <2>2. Pinned' \subseteq Pinned \cup {NoNode}
    BY <1>10 DEF Pinned
  <2> QED
    BY <1>10, <2>1, <2>2 DEF CacheInv, PinnedStays, ParentsCached, Cached
<1>11. /\ pidx \in Nat /\ ret \in {"found", "missing", "unreadable"}
       /\ it \in Places /\ entry \in Places
       /\ \A n \in Nodes : Cnt[n] \in Nat /\ Cnt[n] < IndexMod - 1
  BY TreeTyped DEF CacheInv, TypeOK
<1>12. CASE LeafLookup
  <2>1. node \in Nodes
    BY <1>12 DEF LeafLookup, ControlInv
  <2>2. PICK i \in -1..(Cnt[node] - 1) :
          /\ ret' = IF i < 0 THEN "missing" ELSE "found"
          /\ entry' = IF i < 0 THEN entry ELSE [node |-> node, index |-> i]
    BY <1>12 DEF LeafLookup
  <2>3. CASE i < 0
    BY <1>10, <1>11, <1>12, <2>2, <2>3 DEF LeafLookup, Return
  <2>4. CASE ~(i < 0)
    <3>1. [node |-> node, index |-> i] \in Places
      BY <1>11, <2>1, <2>4, TreeTyped DEF Places
    <3> QED
      BY <1>10, <1>11, <1>12, <2>2, <2>4, <3>1 DEF LeafLookup, Return
  <2> QED BY <2>3, <2>4
<1>13. CASE LeafIterator
  <2>1. node \in Nodes
    BY <1>13 DEF LeafIterator, ControlInv
  <2>2. PICK i \in 0..Cnt[node] : it' = [node |-> node, index |-> i]
    BY <1>13 DEF LeafIterator
  <2>3. [node |-> node, index |-> i] \in Places
    BY <1>11, <2>1, TreeTyped DEF Places
  <2> QED BY <1>10, <1>11, <1>13, <2>2, <2>3 DEF LeafIterator, Return
<1>14. CASE LeafIteratorPast
  <2>1. node \in Nodes
    BY <1>14 DEF LeafIteratorPast, ControlInv
  <2>2. [node |-> node, index |-> Inc(LastIndex(node))] \in Places
    BY <1>11, <2>1, TreeTyped DEF Places, Inc, LastIndex
  <2> QED BY <1>10, <1>11, <1>14, <2>2 DEF LeafIteratorPast
<1>15. CASE NextInLeaf \/ NextLeavesLeaf
  <2>1. [it EXCEPT !.index = Inc(@)] \in Places
    BY <1>11, TreeTyped DEF Places, Inc
  <2>2. [it EXCEPT !.index = Inc(@)].node = it.node
    BY <1>11 DEF Places
  <2>3. CASE NextInLeaf
    BY <1>10, <1>11, <2>1, <2>2, <2>3 DEF NextInLeaf, Return
  <2>4. CASE NextLeavesLeaf
    <3>1. it'.node = it.node /\ it' \in Places /\ node' = it.node
      BY <2>1, <2>2, <2>4 DEF NextLeavesLeaf
    <3>2. TypeOK' /\ Pinned' \subseteq Pinned
      BY <2>4, <3>1 DEF CacheInv, TypeOK, Cached, Pinned, NextLeavesLeaf, Places
    <3> QED BY <1>0, <2>4, <3>2 DEF NextLeavesLeaf
  <2> QED BY <1>15, <2>3, <2>4
<1>16. CASE Climb
  <2>1. node \in Nodes /\ node \in Cached
    <3>1. node \in Nodes
      BY <1>16 DEF Climb, ControlInv
    <3> QED BY <3>1, TreeTyped DEF CacheInv, PinnedStays, Pinned
  <2>2. /\ nodes[node] \in [parent : Nodes \cup {NoNode}, pidx : Nat]
        /\ nodes[node].parent \in Cached \cup {NoNode}
    BY <2>1 DEF CacheInv, TypeOK, ParentsCached
  <2>3. CASE nodes[node].parent = NoNode
    BY <1>0, <1>16, <2>3 DEF Climb, Return, CacheInv, TypeOK, Cached, Pinned,
       PinnedStays, ParentsCached
  <2>4. CASE nodes[node].parent # NoNode
    <3>1. /\ node' = nodes[node].parent /\ pidx' = nodes[node].pidx + 1
          /\ pc' \in {"up", "across"}
          /\ UNCHANGED <<nodes, rootNode, req, entry, ret, it>>
      BY <1>16, <2>4 DEF Climb
    <3>2. TypeOK'
      BY <2>2, <3>1 DEF CacheInv, TypeOK, Cached
    <3>3. PinnedStays'
      BY <2>2, <2>4, <3>1 DEF CacheInv, PinnedStays, Pinned, Cached
    <3> QED BY <3>1, <3>2, <3>3 DEF CacheInv, ParentsCached, Cached
  <2> QED BY <2>3, <2>4
<1>17. CASE EnterNextLeaf
  <2>1. node \in Nodes
    BY <1>17 DEF EnterNextLeaf, ControlInv
  <2>2. [node |-> node, index |-> 0] \in Places
    BY <1>11, <2>1, TreeTyped DEF Places
  <2> QED BY <1>10, <1>11, <1>17, <2>2 DEF EnterNextLeaf, Return
<1>18. CASE UNCHANGED vars
  BY <1>0, <1>18 DEF vars, CacheInv, TypeOK, Cached, Pinned
<1> QED
  BY <1>1, <1>2, <1>3, <1>4, <1>7, <1>8, <1>9, <1>12, <1>13, <1>14, <1>15,
     <1>16, <1>17, <1>18 DEF Next, Step
-----------------------------------------------------------------------------
(* The way down.                                                            *)

(* Every way down starts at the root.                                       *)
LEMMA RootOnPath ==
  ASSUME NEW k \in Int
  PROVE  Past(Root, k) /\ Short(Root, k)
BY TreeCovers, RecordsSorted DEF Past, Short

\* The records after a child come after its node or start a later entry.
LEMMA PastChild ==
  ASSUME NEW n \in Nodes, ~Leaf(n), NEW k \in Int, NEW i \in Entries(n),
         Past(n, k), i + 1 < Cnt[n] => EntryKey(n, i + 1) > k
  PROVE  Past(Kid[n][i], k)
<1> DEFINE c == Kid[n][i]
<1>1. /\ c \in Nodes /\ Hi[c] \in 1..N /\ Cnt[n] \in Nat
  BY IndexFacts
<1> SUFFICES ASSUME NEW q \in 1..N, q > Hi[c] PROVE RecKey[q] > k
  BY DEF Past
<1>2. CASE i + 1 < Cnt[n]
  <2> DEFINE d == Kid[n][i + 1]
  <2>1. i + 1 \in Entries(n)
    BY <1>1, <1>2 DEF Entries
  <2>2. Lo[d] = Hi[c] + 1 /\ Lo[d] \in 1..N
    BY <1>2, <2>1, TreeNested, IndexFacts
  <2>3. RecKey[Lo[d]] > k /\ RecKey[Lo[d]] \in Int
    BY <1>2, <2>1, IndexFacts
  <2>4. q = Lo[d] \/ Lo[d] < q
    BY <1>1, <2>2
  <2>5. RecKey[q] \in Int /\ (Lo[d] < q => RecKey[Lo[d]] < RecKey[q])
    BY <2>2, RecordsSorted
  <2> QED BY <2>3, <2>4, <2>5
<1>3. CASE ~(i + 1 < Cnt[n])
  <2>1. i = Cnt[n] - 1
    BY <1>1, <1>3 DEF Entries
  <2>2. Hi[c] = Hi[n]
    BY <2>1, TreeNested
  <2> QED BY <2>2 DEF Past
<1> QED BY <1>2, <1>3

(* An entry not after the key leads to a child that starts not after it.    *)
LEMMA ShortChild ==
  ASSUME NEW n \in Nodes, ~Leaf(n), NEW k \in Int, NEW i \in Entries(n),
         EntryKey(n, i) <= k
  PROVE  Short(Kid[n][i], k) /\ RecKey[Lo[Kid[n][i]]] <= k
<1> DEFINE c == Kid[n][i]
<1>1. Lo[c] \in 1..N /\ RecKey[Lo[c]] <= k /\ RecKey[Lo[c]] \in Int
  BY IndexFacts
<1>2. ASSUME NEW q \in 1..N, q < Lo[c] PROVE RecKey[q] < k
  <2>1. RecKey[q] < RecKey[Lo[c]] /\ RecKey[q] \in Int
    BY <1>1, <1>2, RecordsSorted
  <2> QED BY <1>1, <2>1
<1> QED BY <1>1, <1>2 DEF Short

(* The entry an operation goes down through leads to its answer.            *)
LEMMA DownOnPath ==
  ASSUME node \in Nodes, ~Leaf(node), req \in Requests, Keys \subseteq Int,
         Descending, OnPath(node), NEW i \in Entries(node), Route(i)
  PROVE  OnPath(Kid[node][i])
<1> DEFINE c == Kid[node][i]
<1>1. req.key \in Int
  <2>1. req.key \in Keys \cup {0}
    BY DEF Requests
  <2>2. \A x \in Keys \cup {0} : x \in Int
    OBVIOUS
  <2> QED BY <2>1, <2>2
<1>2. /\ Cnt[node] \in Nat /\ Cnt[node] > 0
      /\ \A k \in Entries(node) : EntryKey(node, k) \in Int
  BY IndexFacts
<1>3. ASSUME NEW f \in -1..(Cnt[node] - 1), Found("LE", node, req.key, f),
             i = IF f < 0 THEN 0 ELSE f
      PROVE  i + 1 < Cnt[node] => EntryKey(node, i + 1) > req.key
  <2> SUFFICES ASSUME i + 1 < Cnt[node], EntryKey(node, i + 1) <= req.key
               PROVE FALSE
    <3>1. i + 1 < Cnt[node] => EntryKey(node, i + 1) \in Int
      BY <1>2 DEF Entries
    <3> QED BY <1>1, <3>1
  <2>1. i + 1 \in Entries(node)
    BY <1>2 DEF Entries
  <2> DEFINE wanted == {j \in Entries(node) : EntryKey(node, j) <= req.key}
  <2>2. i + 1 \in wanted
    BY <2>1
  <2>3. (f = -1 /\ wanted = {}) \/ (\A j \in wanted : j <= f)
    BY <1>3 DEF Found
  <2>4. f < i + 1
    BY <1>3, <1>2 DEF Entries
  <2> QED BY <1>2, <2>1, <2>2, <2>3, <2>4 DEF Entries
<1>4. CASE req.op = "lookup"
  <2>1. Found("LE", node, req.key, i) /\ Past(node, req.key)
    BY <1>4 DEF Route, OnPath
  <2>2. EntryKey(node, i) <= req.key
    BY <2>1 DEF Found, Entries
  <2>3. i \in -1..(Cnt[node] - 1) /\ ~(i < 0)
    BY <1>2 DEF Entries
  <2>4. i + 1 < Cnt[node] => EntryKey(node, i + 1) > req.key
    BY <1>3, <2>1, <2>3
  <2>5. Past(c, req.key) /\ RecKey[Lo[c]] <= req.key
    BY <1>1, <2>1, <2>2, <2>4, PastChild, ShortChild
  <2> QED BY <1>4, <2>5 DEF OnPath
<1>5. CASE req.op = "seek"
  <2>1. PICK f \in -1..(Cnt[node] - 1) :
          Found("LE", node, req.key, f) /\ i = IF f < 0 THEN 0 ELSE f
    BY <1>5 DEF Route
  <2>2. Past(node, req.key) /\ Short(node, req.key)
    BY <1>5 DEF OnPath
  <2>3. Past(c, req.key)
    <3>1. i + 1 < Cnt[node] => EntryKey(node, i + 1) > req.key
      BY <1>3, <2>1
    <3> QED BY <1>1, <2>2, <3>1, PastChild
  <2>4. CASE f < 0
    <3>1. Lo[c] = Lo[node]
      BY <2>1, <2>4, TreeNested
    <3>2. Short(c, req.key)
      BY <2>2, <3>1 DEF Short
    <3> QED BY <1>5, <2>3, <3>2 DEF OnPath
  <2>5. CASE ~(f < 0)
    <3>1. EntryKey(node, i) <= req.key
      BY <1>2, <2>1, <2>5 DEF Found, Entries
    <3> QED BY <1>1, <1>5, <2>3, <3>1, ShortChild DEF OnPath
  <2> QED BY <2>4, <2>5
<1>6. CASE req.op = "first"
  <2>1. Lo[c] = Lo[node] /\ Lo[node] = 1
    BY <1>6, TreeNested DEF Route, OnPath
  <2> QED BY <1>6, <2>1 DEF OnPath
<1> QED BY <1>4, <1>5, <1>6 DEF Descending
-----------------------------------------------------------------------------
(* What a leaf answers.                                                     *)

(* What FindBin finds in the leaf at the end of the way is the map's answer. *)
LEMMA LookupAnswers ==
  ASSUME NEW n \in Nodes, Leaf(n), NEW k \in Int, NEW exact \in BOOLEAN,
         Past(n, k), n = Root \/ RecKey[Lo[n]] <= k,
         NEW i \in -1..(Cnt[n] - 1),
         Found(IF exact THEN "EQ" ELSE "LE", n, k, i)
  PROVE  Map!Right(k, exact, IF i < 0 THEN 0 ELSE Lo[n] + i)
<1>1. /\ Lo[n] \in Nat /\ Hi[n] \in Nat /\ Cnt[n] \in Nat
      /\ 1 <= Lo[n] /\ Hi[n] <= N /\ Hi[n] = Lo[n] + Cnt[n] - 1
  BY LeafFacts
<1>2. ASSUME NEW j \in Entries(n)
      PROVE  /\ EntryKey(n, j) = RecKey[Lo[n] + j] /\ Lo[n] + j \in 1..N
             /\ RecKey[Lo[n] + j] \in Int
  <2>1. EntryKey(n, j) = RecKey[Lo[n] + j] /\ Lo[n] + j \in 1..N
    BY LeafFacts
  <2> QED BY <2>1, RecordsSorted
<1>3. ASSUME NEW q \in 1..N, q <= Hi[n], q >= Lo[n]
      PROVE  q - Lo[n] \in Entries(n) /\ Lo[n] + (q - Lo[n]) = q
  BY <1>1, <1>3 DEF Entries
<1>4. \A q \in 1..N : RecKey[q] \in Int
  BY RecordsSorted
<1>5. CASE ~(i < 0)
  <2>1. i \in Entries(n)
    BY <1>1, <1>5 DEF Entries
  <2>2. Lo[n] + i \in 1..N /\ EntryKey(n, i) = RecKey[Lo[n] + i]
    BY <1>2, <2>1
  <2>3. CASE exact
    <3>1. EntryKey(n, i) = k
      BY <1>1, <1>5, <2>3 DEF Found
    <3> QED BY <1>5, <2>2, <2>3, <3>1 DEF Map!Right, Map!Positions
  <2>4. CASE ~exact
    <3>1. /\ EntryKey(n, i) <= k
          /\ \A j \in Entries(n) : EntryKey(n, j) <= k => j <= i
      BY <1>1, <1>5, <2>4 DEF Found
    <3>2. ASSUME NEW q \in 1..N, RecKey[q] <= k PROVE q <= Lo[n] + i
      <4>1. q <= Hi[n]
        BY <1>1, <1>4, <3>2 DEF Past
      <4>2. CASE q >= Lo[n]
        <5>1. q - Lo[n] \in Entries(n) /\ EntryKey(n, q - Lo[n]) = RecKey[q]
          BY <1>2, <1>3, <4>1, <4>2
        <5>2. q - Lo[n] <= i
          BY <3>1, <3>2, <5>1
        <5> QED BY <1>1, <5>2
      <4>3. CASE ~(q >= Lo[n])
        BY <1>1, <1>5, <4>3
      <4> QED BY <4>2, <4>3
    <3>3. Map!IsFloor(k, Lo[n] + i)
      BY <2>2, <3>1, <3>2 DEF Map!IsFloor, Map!Positions
    <3> QED BY <1>5, <2>2, <2>4, <3>3 DEF Map!Right, Map!Positions
  <2> QED BY <2>3, <2>4
<1>6. CASE i < 0
  <2>1. \A j \in Entries(n) :
          IF exact THEN EntryKey(n, j) # k ELSE EntryKey(n, j) > k
    <3>1. CASE exact
      BY <1>2, <1>6, <3>1 DEF Found, Entries
    <3>2. CASE ~exact
      <4>1. \A j \in Entries(n) : ~(EntryKey(n, j) <= k)
        BY <1>6, <3>2 DEF Found, Entries
      <4> QED BY <1>2, <3>2, <4>1
    <3> QED BY <3>1, <3>2
  <2>2. ASSUME NEW q \in 1..N
        PROVE  IF exact THEN RecKey[q] # k ELSE RecKey[q] > k
    <3>1. CASE q > Hi[n]
      <4>1. RecKey[q] > k
        BY <3>1 DEF Past
      <4> QED BY <1>4, <4>1
    <3>2. CASE q <= Hi[n] /\ q >= Lo[n]
      <4>1. q - Lo[n] \in Entries(n) /\ EntryKey(n, q - Lo[n]) = RecKey[q]
        BY <1>2, <1>3, <3>2
      <4> QED BY <2>1, <4>1
    <3>3. CASE q < Lo[n]
      <4>1. n # Root
        BY <1>1, <3>3, TreeCovers
      <4>2. 0 \in Entries(n) /\ RecKey[Lo[n]] <= k
        BY <1>1, <4>1, TreeCovers DEF Entries
      <4>3. EntryKey(n, 0) = RecKey[Lo[n]] /\ Lo[n] \in 1..N
        BY <1>1, <1>2, <4>2
      <4>4. exact
        BY <1>4, <2>1, <4>2, <4>3
      <4>5. RecKey[q] < RecKey[Lo[n]]
        BY <3>3, <4>3, RecordsSorted
      <4> QED BY <1>4, <4>2, <4>3, <4>4, <4>5
    <3> QED BY <1>1, <3>1, <3>2, <3>3
  <2> QED BY <1>6, <2>2 DEF Map!Right, Map!Positions, Map!Absent
<1> QED BY <1>5, <1>6

(* An iterator opened in that leaf is at the first record not before the    *)
(* key, in the leaf or just past its end.                                    *)
LEMMA SeekAnswers ==
  ASSUME NEW n \in Nodes, Leaf(n), NEW k \in Int, Past(n, k), Short(n, k)
  PROVE  /\ \A i \in 0..(Cnt[n] - 1) :
              Found("GE", n, k, i) => Map!IsCeiling(k, Lo[n] + i)
         /\ Found("GE", n, k, -1) => Map!IsCeiling(k, Hi[n] + 1)
<1>1. /\ Lo[n] \in Nat /\ Hi[n] \in Nat /\ Cnt[n] \in Nat
      /\ 1 <= Lo[n] /\ Hi[n] <= N /\ Hi[n] = Lo[n] + Cnt[n] - 1
  BY LeafFacts
<1>2. ASSUME NEW q \in 1..N, q <= Hi[n], q >= Lo[n]
      PROVE  q - Lo[n] \in Entries(n) /\ EntryKey(n, q - Lo[n]) = RecKey[q]
  <2>1. q - Lo[n] \in Entries(n) /\ Lo[n] + (q - Lo[n]) = q
    BY <1>1, <1>2 DEF Entries
  <2> QED BY <2>1, LeafFacts
<1>3. \A q \in 1..N : RecKey[q] \in Int
  BY RecordsSorted
<1>4. /\ \A q \in 1..N : q > Hi[n] => RecKey[q] > k
      /\ \A q \in 1..N : q < Lo[n] => RecKey[q] < k
  BY DEF Past, Short
<1>5. ASSUME NEW i \in 0..(Cnt[n] - 1), Found("GE", n, k, i)
      PROVE  Map!IsCeiling(k, Lo[n] + i)
  <2>1. /\ i \in Entries(n) /\ EntryKey(n, i) >= k
        /\ \A j \in Entries(n) : EntryKey(n, j) >= k => j >= i
    BY <1>1, <1>5 DEF Found, Entries
  <2>2. EntryKey(n, i) = RecKey[Lo[n] + i] /\ Lo[n] + i \in 1..N
    BY <2>1, LeafFacts
  <2>3. ASSUME NEW q \in 1..N, q >= Lo[n] + i PROVE RecKey[q] >= k
    <3>1. RecKey[Lo[n] + i] \in Int /\ RecKey[q] \in Int
      BY <1>3, <2>2
    <3>2. q = Lo[n] + i \/ RecKey[Lo[n] + i] < RecKey[q]
      BY <1>1, <2>2, <2>3, RecordsSorted
    <3> QED BY <2>1, <2>2, <3>1, <3>2
  <2>4. ASSUME NEW q \in 1..N, RecKey[q] >= k PROVE q >= Lo[n] + i
    <3>1. ~(q < Lo[n])
      BY <1>3, <1>4, <2>4
    <3>2. CASE q > Hi[n]
      BY <1>1, <3>2
    <3>3. CASE q <= Hi[n]
      <4>1. q - Lo[n] >= i
        BY <1>1, <1>2, <2>1, <2>4, <3>1, <3>3
      <4> QED BY <1>1, <4>1
    <3> QED BY <1>1, <3>2, <3>3
  <2> QED BY <2>3, <2>4 DEF Map!IsCeiling, Map!Positions
<1>6. ASSUME Found("GE", n, k, -1) PROVE Map!IsCeiling(k, Hi[n] + 1)
  <2>1. \A j \in Entries(n) : ~(EntryKey(n, j) >= k)
    BY <1>6 DEF Found, Entries
  <2>2. ASSUME NEW q \in 1..N, q >= Hi[n] + 1 PROVE RecKey[q] >= k
    BY <1>1, <1>3, <1>4, <2>2
  <2>3. ASSUME NEW q \in 1..N, RecKey[q] >= k PROVE q >= Hi[n] + 1
    BY <1>1, <1>2, <1>3, <1>4, <2>1, <2>3
  <2> QED BY <2>2, <2>3 DEF Map!IsCeiling, Map!Positions
<1> QED BY <1>5, <1>6
-----------------------------------------------------------------------------
(* Every step keeps the operations where they belong in the tree.           *)

IteratorOk(i) == i.node # NoNode => Leaf(i.node) /\ i.index <= Cnt[i.node]

EntryOk(r, e) ==
  r = "found" => e.node # NoNode /\ Leaf(e.node) /\ e.index < Cnt[e.node]

(* Every step keeps the way, the frames and the answers right.              *)
LEMMA ControlNext == IInv /\ [Next]_vars => ControlInv'
<1> SUFFICES ASSUME IInv, [Next]_vars PROVE ControlInv'
  OBVIOUS
<1> USE DEF IInv
<1>0. /\ IteratorOk(it) /\ EntryOk(ret, entry) /\ LookupSurvives
      /\ req \in Requests /\ (req.key \in Int) /\ req.exact \in BOOLEAN
      /\ node \in Nodes \cup {NoNode} /\ it \in Places /\ rootNode \in {Root, NoNode}
  <2>1. req \in Requests
    BY DEF CacheInv, TypeOK
  <2>2. req.key \in Keys \cup {0} /\ req.exact \in BOOLEAN
    BY <2>1 DEF Requests
  <2>3. \A x \in Keys \cup {0} : x \in Int
    BY RecordsSorted
  <2>4. req.key \in Int
    BY <2>2, <2>3
  <2>5. IteratorOk(it) /\ EntryOk(ret, entry) /\ LookupSurvives
    BY DEF ControlInv, IteratorOk, EntryOk
  <2> QED BY <2>1, <2>2, <2>4, <2>5 DEF CacheInv, TypeOK
<1>1. ASSUME pc' = "idle", IteratorOk(it'), EntryOk(ret', entry')
      PROVE  ControlInv'
  BY <1>1 DEF ControlInv, IteratorOk, EntryOk, LookupSurvives
<1>2. ASSUME Crash, req.op # "lookup"
      PROVE  ControlInv'
  BY <1>0, <1>2 DEF Crash, ControlInv, IteratorOk, EntryOk, LookupSurvives
<1>3. ASSUME NEW c \in Nodes, OnPath(c), Descending,
             node' = c, pc' = IF Leaf(c) THEN "leaf" ELSE "down",
             UNCHANGED <<req, entry, ret, it>>
      PROVE  ControlInv'
  <2>1. OnPath(node)' /\ Descending'
    BY <1>3 DEF OnPath, Descending
  <2>2. IteratorOk(it') /\ EntryOk(ret', entry')
    BY <1>0, <1>3
  <2> QED
    BY <1>3, <2>1, <2>2 DEF ControlInv, IteratorOk, EntryOk, LookupSurvives
<1>4. CASE Open
  BY <1>0, <1>1, <1>4 DEF Open
<1>5. CASE CallLookup \/ CallSeek \/ CallFirst \/ CallNext
  <2>1. PICK r \in Requests :
          /\ Call(r) /\ r.op # "none"
          /\ r.op = "next" => it.node # NoNode /\ it.index < Cnt[it.node]
    <3>1. CASE CallLookup \/ CallSeek \/ CallFirst
      <4>1. PICK r \in Requests : Call(r) /\ r.op \in {"lookup", "seek", "first"}
        <5>1. CASE CallLookup
          <6>1. PICK k \in Keys, x \in BOOLEAN : Call(Request("lookup", k, x))
            BY <5>1 DEF CallLookup
          <6>2. /\ Request("lookup", k, x) \in Requests
                /\ Request("lookup", k, x).op = "lookup"
            BY DEF Request, Requests
          <6> QED BY <6>1, <6>2
        <5>2. CASE CallSeek
          <6>1. PICK k \in Keys : Call(Request("seek", k, FALSE))
            BY <5>2 DEF CallSeek
          <6>2. /\ Request("seek", k, FALSE) \in Requests
                /\ Request("seek", k, FALSE).op = "seek"
            BY DEF Request, Requests
          <6> QED BY <6>1, <6>2
        <5>3. CASE CallFirst
          <6>1. /\ Request("first", 0, FALSE) \in Requests
                /\ Request("first", 0, FALSE).op = "first"
            BY DEF Request, Requests
          <6> QED BY <5>3, <6>1 DEF CallFirst
        <5> QED BY <3>1, <5>1, <5>2, <5>3
      <4> QED BY <4>1
    <3>2. CASE CallNext
      <4>1. Request("next", 0, FALSE) \in Requests
        BY DEF Request, Requests
      <4> QED BY <3>2, <4>1 DEF CallNext, Request
    <3> QED BY <1>5, <3>1, <3>2
  <2>2. pc' = "start" /\ req' = r /\ UNCHANGED <<it, entry, ret>>
    BY <2>1 DEF Call
  <2> QED
    BY <1>0, <2>1, <2>2 DEF ControlInv, IteratorOk, EntryOk, LookupSurvives
<1>6. CASE Start
  <2>1. rootNode = Root /\ Root \in Nodes /\ Descending
    BY <1>0, <1>6, TreeTyped DEF Start
  <2>2. OnPath(Root)
    BY <1>0, RootOnPath, TreeCovers DEF OnPath
  <2> QED BY <1>3, <1>6, <2>1, <2>2 DEF Start
<1>7. CASE StartWithoutRoot
  <2>1. CASE req.op = "lookup"
    BY <1>0, <1>1, <1>7, <2>1 DEF StartWithoutRoot, Return, EntryOk
  <2>2. CASE req.op # "lookup"
    BY <1>2, <1>7, <2>2 DEF StartWithoutRoot
  <2> QED BY <2>1, <2>2
<1>8. CASE Descend
  <2>1. node \in Nodes /\ ~Leaf(node) /\ OnPath(node) /\ Descending
    BY <1>8 DEF Descend, ControlInv
  <2>2. PICK i \in Entries(node) :
          /\ Route(i)
          /\ \/ \E child \in Nodes :
                  /\ GetNode(Kid[node][i], node, i, child)
                  /\ node' = child
                  /\ pc' = IF Leaf(child) THEN "leaf" ELSE "down"
                  /\ UNCHANGED <<rootNode, req, pidx, entry, ret, it>>
             \/ /\ GetNode(Kid[node][i], node, i, NoNode)
                /\ IF req.op = "lookup"
                     THEN Return /\ ret' = "unreadable" /\ UNCHANGED <<entry, it>>
                     ELSE Crash
    BY <1>8 DEF Descend
  <2>3. OnPath(Kid[node][i]) /\ Kid[node][i] \in Nodes
    BY <1>0, <2>1, <2>2, DownOnPath, IndexFacts, RecordsSorted
  <2>4. ASSUME NEW child \in Nodes,
               GetNode(Kid[node][i], node, i, child),
               node' = child,
               pc' = IF Leaf(child) THEN "leaf" ELSE "down",
               UNCHANGED <<rootNode, req, pidx, entry, ret, it>>
        PROVE  ControlInv'
    <3>1. child = Kid[node][i]
      BY <2>4, TreeTyped DEF GetNode
    <3> QED BY <1>3, <2>1, <2>3, <2>4, <3>1
  <2>5. ASSUME IF req.op = "lookup"
                 THEN Return /\ ret' = "unreadable" /\ UNCHANGED <<entry, it>>
                 ELSE Crash
        PROVE  ControlInv'
    <3>1. CASE req.op = "lookup"
      BY <1>0, <1>1, <2>5, <3>1 DEF Return, EntryOk
    <3> QED BY <1>2, <2>5, <3>1
  <2> QED BY <2>2, <2>4, <2>5
<1>9. CASE DescendBefore
  BY <1>0, <1>1, <1>9 DEF DescendBefore, Return, EntryOk
<1>10. CASE LeafLookup
  <2>1. node \in Nodes /\ Leaf(node) /\ Cnt[node] \in Nat
    BY <1>10, TreeTyped DEF LeafLookup, ControlInv
  <2>2. PICK i \in -1..(Cnt[node] - 1) :
          /\ ret' = IF i < 0 THEN "missing" ELSE "found"
          /\ entry' = IF i < 0 THEN entry ELSE [node |-> node, index |-> i]
    BY <1>10 DEF LeafLookup
  <2>3. EntryOk(ret', entry')
    BY <2>1, <2>2, TreeTyped DEF EntryOk
  <2> QED BY <1>0, <1>1, <1>10, <2>3 DEF LeafLookup, Return
<1>11. CASE LeafIterator
  <2>1. node \in Nodes /\ Leaf(node) /\ Cnt[node] \in Nat
    BY <1>11, TreeTyped DEF LeafIterator, ControlInv
  <2>2. PICK i \in 0..Cnt[node] : it' = [node |-> node, index |-> i]
    BY <1>11 DEF LeafIterator
  <2>3. IteratorOk(it')
    BY <2>1, <2>2 DEF IteratorOk
  <2> QED BY <1>0, <1>1, <1>11, <2>3 DEF LeafIterator, Return
<1>12. CASE LeafIteratorPast
  <2>1. /\ node \in Nodes /\ Leaf(node) /\ Cnt[node] \in Nat
        /\ Cnt[node] < IndexMod - 1 /\ Past(node, req.key) /\ Short(node, req.key)
    BY <1>12, TreeTyped DEF LeafIteratorPast, ControlInv, OnPath
  <2>2. Inc(LastIndex(node)) = Cnt[node]
    BY <2>1, TreeTyped DEF Inc, LastIndex
  <2>3. Map!IsCeiling(req.key, Hi[node] + 1)
    BY <1>0, <1>12, <2>1, SeekAnswers DEF LeafIteratorPast
  <2>4. /\ it' = [node |-> node, index |-> Cnt[node]] /\ req.op = "seek"
        /\ pc' = "up" /\ UNCHANGED <<req, node, entry, ret>>
    BY <1>12, <2>2 DEF LeafIteratorPast
  <2>5. it'.node = node /\ it'.index = Cnt[node] /\ node # NoNode /\ IteratorOk(it')
    BY <2>1, <2>4, TreeTyped DEF IteratorOk
  <2> QED
    BY <1>0, <2>1, <2>3, <2>4, <2>5
    DEF ControlInv, IteratorOk, EntryOk, LookupSurvives
<1>13. CASE NextInLeaf \/ NextLeavesLeaf
  <2>1. /\ it.node # NoNode /\ it.index < Cnt[it.node] /\ req.op = "next"
        /\ it.node \in Nodes /\ it.index \in Nat /\ Leaf(it.node)
    BY <1>0, <1>13 DEF NextInLeaf, NextLeavesLeaf, ControlInv, Places, IteratorOk
  <2>2. Inc(it.index) = it.index + 1 /\ it.index + 1 <= Cnt[it.node]
    <3>1. Cnt[it.node] \in Nat /\ Cnt[it.node] < IndexMod - 1 /\ IndexMod \in Nat
      BY <2>1, TreeTyped
    <3> QED BY <2>1, <3>1 DEF Inc
  <2>3. it' = [it EXCEPT !.index = it.index + 1]
    BY <1>13, <2>2 DEF NextInLeaf, NextLeavesLeaf
  <2>4. it'.node = it.node /\ it'.index = it.index + 1
    BY <1>0, <2>3 DEF Places
  <2>5. IteratorOk(it')
    BY <2>1, <2>2, <2>4 DEF IteratorOk
  <2>6. CASE NextInLeaf
    BY <1>0, <1>1, <2>5, <2>6 DEF NextInLeaf, Return
  <2>7. CASE NextLeavesLeaf
    <3>1. it.index + 1 = Cnt[it.node]
      BY <2>1, <2>2, <2>4, <2>7, TreeTyped DEF NextLeavesLeaf
    <3>2. /\ pc' = "up" /\ node' = it.node /\ UNCHANGED <<req, entry, ret>>
      BY <2>7 DEF NextLeavesLeaf
    <3> QED
      BY <1>0, <2>1, <2>4, <2>5, <3>1, <3>2
      DEF ControlInv, IteratorOk, EntryOk, LookupSurvives
  <2> QED BY <1>13, <2>6, <2>7
<1>14. CASE Climb
  <2>1. /\ pc = "up" /\ node \in Nodes /\ node \in Cached
        /\ Hi[node] = Hi[it.node]
    <3>1. pc = "up" /\ node \in Nodes /\ Hi[node] = Hi[it.node]
      BY <1>14 DEF Climb, ControlInv
    <3> QED BY <3>1, TreeTyped DEF CacheInv, PinnedStays, Pinned
  <2>2. CASE nodes[node].parent = NoNode
    BY <1>0, <1>1, <1>14, <2>2 DEF Climb, Return
  <2>3. CASE nodes[node].parent # NoNode
    <3> DEFINE p == nodes[node].parent
               j == nodes[node].pidx
    <3>1. /\ p \in Nodes /\ ~Leaf(p) /\ j \in Entries(p) /\ Kid[p][j] = node
          /\ Cnt[p] \in Nat
      BY <2>1, <2>3, TreeTyped DEF CacheInv, TypeOK, ParentsCached
    <3>2. /\ node' = p /\ pidx' = j + 1
          /\ pc' = IF j + 1 >= Cnt[p] THEN "up" ELSE "across"
          /\ UNCHANGED <<nodes, rootNode, req, entry, ret, it>>
      BY <1>14, <2>3 DEF Climb
    <3>3. CASE j + 1 >= Cnt[p]
      <4>1. j = Cnt[p] - 1
        BY <3>1, <3>3 DEF Entries
      <4>2. Hi[p] = Hi[it.node]
        BY <2>1, <3>1, <4>1, TreeNested
      <4> HIDE DEF p, j
      <4>3. p \in Nodes /\ node' = p /\ pc' = "up"
        BY <3>1, <3>2, <3>3
      <4> QED
        BY <1>0, <2>1, <3>2, <4>2, <4>3
        DEF ControlInv, IteratorOk, EntryOk, LookupSurvives
    <3>4. CASE ~(j + 1 >= Cnt[p])
      <4>1. j + 1 \in Entries(p) /\ j + 1 < Cnt[p]
        BY <3>1, <3>4 DEF Entries
      <4>2. Lo[Kid[p][j + 1]] = Hi[it.node] + 1
        BY <2>1, <3>1, <4>1, TreeNested
      <4> DEFINE m == j + 1
      <4>3. /\ p \in Nodes /\ ~Leaf(p) /\ m \in Entries(p)
            /\ Lo[Kid[p][m]] = Hi[it.node] + 1
            /\ node' = p /\ pc' = "across" /\ pidx' = m
        BY <3>1, <3>2, <3>4, <4>1, <4>2
      <4> HIDE DEF p, j, m
      <4> QED
        BY <1>0, <2>1, <3>2, <4>3
        DEF ControlInv, IteratorOk, EntryOk, LookupSurvives
    <3> QED BY <3>3, <3>4
  <2> QED BY <2>2, <2>3
<1>15. CASE Across
  <2>1. /\ pc = "across" /\ node \in Nodes /\ ~Leaf(node) /\ pidx \in Entries(node)
        /\ req.op \in {"seek", "next"}
        /\ Lo[Kid[node][pidx]] = Hi[it.node] + 1
    BY <1>15 DEF Across, ControlInv
  <2>2. ASSUME NEW child \in Nodes,
               GetNode(Kid[node][pidx], node, pidx, child),
               node' = child, pidx' = 0,
               UNCHANGED <<rootNode, pc, req, entry, ret, it>>
        PROVE  ControlInv'
    <3>1. child = Kid[node][pidx]
      BY <2>2, TreeTyped DEF GetNode
    <3>2. Lo[child] = Hi[it.node] + 1
      BY <2>1, <3>1
    <3>3. ~Leaf(child) => 0 \in Entries(child) /\ Lo[Kid[child][0]] = Hi[it.node] + 1
      BY <3>2, IndexFacts, TreeNested
    <3> QED
      BY <1>0, <2>1, <2>2, <3>2, <3>3
      DEF ControlInv, IteratorOk, EntryOk, LookupSurvives
  <2>3. CASE GetNode(Kid[node][pidx], node, pidx, NoNode) /\ Crash
    BY <1>2, <2>1, <2>3
  <2> QED BY <1>15, <2>2, <2>3 DEF Across
<1>16. CASE EnterNextLeaf
  <2>1. node \in Nodes /\ Leaf(node) /\ Cnt[node] \in Nat
    BY <1>16, TreeTyped DEF EnterNextLeaf, ControlInv
  <2>2. IteratorOk(it')
    BY <1>16, <2>1 DEF EnterNextLeaf, IteratorOk
  <2> QED BY <1>0, <1>1, <1>16, <2>2 DEF EnterNextLeaf, Return
<1>17. CASE UNCHANGED vars
  BY <1>17 DEF vars, ControlInv, LookupSurvives, OnPath, Descending
<1> QED
  BY <1>4, <1>5, <1>6, <1>7, <1>8, <1>9, <1>10, <1>11, <1>12, <1>13, <1>14,
     <1>15, <1>16, <1>17 DEF Next, Step
-----------------------------------------------------------------------------
(* Every step is a step of the ordered map, or changes nothing it shows.    *)

mapNext == [Map!MapNext]_(Map!mapVars)

LEMMA InitMap == Init => Map!MapInit
BY DEF Init, Map!MapInit, Request, Map!Question, Busy, Answer, Cursor, NoPlace,
   Map!Absent, Map!NoCursor

(* A lookup that finds no entry at or before its key in an index node is at *)
(* the root, and the key is before every record.                            *)
LEMMA LookupMisses ==
  ASSUME NEW n \in Nodes, ~Leaf(n), NEW k \in Int, NEW exact \in BOOLEAN,
         n = Root \/ RecKey[Lo[n]] <= k, Found("LE", n, k, -1)
  PROVE  Map!Right(k, exact, 0)
<1>1. /\ 0 \in Entries(n) /\ EntryKey(n, 0) = RecKey[Lo[n]]
      /\ EntryKey(n, 0) \in Int
  BY IndexFacts, TreeNested
<1>2. ~(EntryKey(n, 0) <= k)
  BY <1>1 DEF Found, Entries
<1>3. n = Root /\ RecKey[1] > k /\ RecKey[1] \in Int
  BY <1>1, <1>2, TreeCovers
<1>4. ASSUME NEW q \in 1..N PROVE RecKey[q] > k
  <2>1. RecKey[q] \in Int /\ 1 \in 1..N /\ (q = 1 \/ 1 < q)
    BY RecordsSorted
  <2>2. q = 1 \/ RecKey[1] < RecKey[q]
    BY <2>1, RecordsSorted
  <2> QED BY <1>3, <2>1, <2>2
<1>5. ASSUME NEW q \in 1..N PROVE RecKey[q] # k /\ RecKey[q] > k
  <2>1. RecKey[q] \in Int
    BY RecordsSorted
  <2> QED BY <1>4, <2>1
<1> QED BY <1>5 DEF Map!Right, Map!Positions, Map!Absent

(* Every step of the B-tree is a step of the ordered map, or none.           *)
LEMMA MapStep == IInv /\ [Next]_vars => mapNext
<1> SUFFICES ASSUME IInv, [Next]_vars PROVE mapNext
  OBVIOUS
<1> USE DEF IInv, mapNext
<1>0. /\ req \in Requests /\ req.key \in Int /\ req.exact \in BOOLEAN
      /\ it \in Places /\ entry \in Places /\ rootNode \in {Root, NoNode}
      /\ it.node \in Nodes \cup {NoNode} /\ it.index \in Nat
      /\ N \in Nat
  <2>1. req \in Requests
    BY DEF CacheInv, TypeOK
  <2>2. req.key \in Keys \cup {0} /\ req.exact \in BOOLEAN
    BY <2>1 DEF Requests
  <2>3. \A x \in Keys \cup {0} : x \in Int
    BY RecordsSorted
  <2>4. req.key \in Int
    BY <2>2, <2>3
  <2> QED BY <2>1, <2>2, <2>4, RecordsSorted DEF CacheInv, TypeOK, Places
<1>1. ASSUME UNCHANGED <<req, Busy, Answer, Cursor>> PROVE mapNext
  BY <1>1 DEF Map!mapVars
<1>2. ASSUME UNCHANGED <<req, entry, ret, it>>, Busy, Busy',
             req.op = "next" => (pc \in {"up", "across"} <=> pc' \in {"up", "across", "crashed"}),
             pc # "crashed"
      PROVE  mapNext
  <2>1. Answer' = Answer
    BY <1>2 DEF Answer, Place
  <2>2. Cursor' = Cursor
    BY <1>2 DEF Cursor, Place
  <2>3. Busy' = Busy
    BY <1>2 DEF Busy
  <2> QED BY <1>1, <1>2, <2>1, <2>2, <2>3
<1>3. ASSUME UNCHANGED <<req, it>>, req.op = "lookup", Busy, pc' = "idle",
             Answer' = -1 \/ (/\ Map!Right(req.key, req.exact, Answer')
                              /\ Answer' \in 0..N)
      PROVE  mapNext
  <2>1. Cursor' = Cursor
    BY <1>3 DEF Cursor, Place
  <2>2. ~Busy'
    BY <1>3 DEF Busy
  <2>3. Map!AnswerLookup
    BY <1>0, <1>3, <2>1, <2>2
    DEF Map!AnswerLookup, Map!Positions, Map!Absent, Map!Failed, Busy
  <2> QED BY <2>3 DEF Map!MapNext
<1>4. ASSUME UNCHANGED <<req, entry, ret>>, Busy, pc' = "idle", req.op # "lookup",
             NEW p \in Places, it' = p, p.node # NoNode,
             req.op = "seek" => Place(p) \in 1..(N + 1) /\ Map!IsCeiling(req.key, Place(p)),
             req.op = "first" => Place(p) = 1,
             req.op = "next" => Cursor \in Int /\ Place(p) = Cursor + 1,
             req.op # "none"
      PROVE  mapNext
  <2>1. Answer' = Answer
    BY <1>4 DEF Answer, Place
  <2>2. Cursor' = Place(p)
    BY <1>4 DEF Cursor, Place, Busy
  <2>3. Busy /\ Busy' = FALSE
    BY <1>4 DEF Busy
  <2>4. CASE req.op = "seek"
    <3>1. Map!AnswerSeek
      BY <1>4, <2>1, <2>2, <2>3, <2>4 DEF Map!AnswerSeek
    <3> QED BY <3>1 DEF Map!MapNext
  <2>5. CASE req.op = "first"
    <3>1. Map!AnswerFirst
      BY <1>4, <2>1, <2>2, <2>3, <2>5 DEF Map!AnswerFirst
    <3> QED BY <3>1 DEF Map!MapNext
  <2>6. CASE req.op = "next"
    <3>1. Map!AnswerNext
      BY <1>4, <2>1, <2>2, <2>3, <2>6 DEF Map!AnswerNext
    <3> QED BY <3>1 DEF Map!MapNext
  <2> QED BY <1>0, <1>4, <2>4, <2>5, <2>6 DEF Requests
<1>5. ASSUME it.node # NoNode
      PROVE  /\ it.node \in Nodes /\ Leaf(it.node)
             /\ it.index <= Cnt[it.node]
             /\ Lo[it.node] \in Nat /\ Hi[it.node] \in Nat /\ Cnt[it.node] \in Nat
             /\ 1 <= Lo[it.node] /\ Hi[it.node] <= N
             /\ Hi[it.node] = Lo[it.node] + Cnt[it.node] - 1
             /\ Cnt[it.node] < IndexMod - 1
             /\ Place(it) = Lo[it.node] + it.index /\ Place(it) \in 1..(N + 1)
  <2>1. it.node \in Nodes /\ Leaf(it.node) /\ it.index <= Cnt[it.node]
    BY <1>0, <1>5 DEF ControlInv
  <2>2. /\ Lo[it.node] \in Nat /\ Hi[it.node] \in Nat /\ Cnt[it.node] \in Nat
        /\ 1 <= Lo[it.node] /\ Hi[it.node] <= N
        /\ Hi[it.node] = Lo[it.node] + Cnt[it.node] - 1
        /\ Cnt[it.node] < IndexMod - 1
    BY <2>1, LeafFacts
  <2>3. Place(it) = Lo[it.node] + it.index
    BY DEF Place
  <2> QED BY <1>0, <2>1, <2>2, <2>3
<1>6. CASE Open
  <2>1. UNCHANGED <<req, entry, ret, it>> /\ pc = "closed" /\ pc' = "idle"
    BY <1>6 DEF Open
  <2>2. Answer' = Answer /\ Cursor' = Cursor /\ Busy' = Busy
    BY <2>1 DEF Answer, Cursor, Place, Busy
  <2> QED BY <1>1, <2>1, <2>2
<1>7. ASSUME NEW r \in Requests, Call(r)
      PROVE  /\ req' = r /\ ~Busy /\ Busy' = TRUE /\ Answer' = Answer
             /\ Cursor' = IF r.op \in {"seek", "first"} THEN 0 ELSE Cursor
             /\ Cursor = IF it.node = NoNode THEN 0 ELSE Place(it)
  <2>1. UNCHANGED <<entry, ret, it>> /\ pc = "idle" /\ pc' = "start" /\ req' = r
    BY <1>7 DEF Call
  <2> QED BY <2>1 DEF Answer, Cursor, Place, Busy
<1>8. CASE CallLookup
  <2>1. PICK k \in Keys, x \in BOOLEAN : Call(Request("lookup", k, x))
    BY <1>8 DEF CallLookup
  <2>2. /\ Request("lookup", k, x) \in Requests
        /\ Request("lookup", k, x).op = "lookup"
        /\ Request("lookup", k, x) = Map!Question("lookup", k, x)
    BY DEF Request, Requests, Map!Question
  <2>3. Map!AskLookup(k, x)
    BY <1>7, <2>1, <2>2 DEF Map!AskLookup, Map!Ask, Map!NoCursor
  <2> QED BY <2>3 DEF Map!MapNext
<1>9. CASE CallSeek
  <2>1. PICK k \in Keys : Call(Request("seek", k, FALSE))
    BY <1>9 DEF CallSeek
  <2>2. /\ Request("seek", k, FALSE) \in Requests
        /\ Request("seek", k, FALSE).op = "seek"
        /\ Request("seek", k, FALSE) = Map!Question("seek", k, FALSE)
    BY DEF Request, Requests, Map!Question
  <2>3. Map!AskSeek(k)
    BY <1>7, <2>1, <2>2 DEF Map!AskSeek, Map!Ask, Map!NoCursor
  <2> QED BY <2>3 DEF Map!MapNext
<1>10. CASE CallFirst
  <2>1. /\ Request("first", 0, FALSE) \in Requests
        /\ Request("first", 0, FALSE).op = "first"
        /\ Request("first", 0, FALSE) = Map!Question("first", 0, FALSE)
    BY DEF Request, Requests, Map!Question
  <2>2. Map!AskFirst
    BY <1>7, <1>10, <2>1 DEF CallFirst, Map!AskFirst, Map!Ask, Map!NoCursor
  <2> QED BY <2>2 DEF Map!MapNext
<1>11. CASE CallNext
  <2>1. /\ Request("next", 0, FALSE) \in Requests
        /\ Request("next", 0, FALSE).op = "next"
        /\ Request("next", 0, FALSE) = Map!Question("next", 0, FALSE)
    BY DEF Request, Requests, Map!Question
  <2>2. it.node # NoNode /\ it.index < Cnt[it.node] /\ Call(Request("next", 0, FALSE))
    BY <1>11 DEF CallNext
  <2>3. Place(it) # 0 /\ Place(it) <= N
    BY <1>0, <1>5, <2>2
  <2>4. Map!AskNext
    BY <1>7, <2>1, <2>2, <2>3 DEF Map!AskNext, Map!Ask, Map!NoCursor
  <2> QED BY <2>4 DEF Map!MapNext
<1>12. CASE Start
  BY <1>2, <1>12 DEF Start, Busy, Descending
<1>13. ASSUME Crash, Busy, pc # "crashed", req.op # "lookup",
              req.op = "next" => pc \in {"up", "across"}
       PROVE  mapNext
  BY <1>2, <1>13 DEF Crash, Busy
<1>14. ASSUME Return, req.op = "lookup", Busy, ret' = "unreadable", UNCHANGED it
       PROVE  mapNext
  BY <1>3, <1>14 DEF Return, Answer
<1>15. CASE StartWithoutRoot
  <2>1. CASE req.op = "lookup"
    BY <1>14, <1>15, <2>1 DEF StartWithoutRoot, Busy
  <2>2. CASE req.op # "lookup"
    BY <1>13, <1>15, <2>2 DEF StartWithoutRoot, Busy, Descending
  <2> QED BY <2>1, <2>2
<1>16. CASE Descend
  <2>1. pc = "down" /\ Descending /\ Busy
    BY <1>16 DEF Descend, ControlInv, Busy
  <2>2. \/ \E child \in Nodes :
              /\ pc' = IF Leaf(child) THEN "leaf" ELSE "down"
              /\ UNCHANGED <<rootNode, req, pidx, entry, ret, it>>
        \/ IF req.op = "lookup"
             THEN Return /\ ret' = "unreadable" /\ UNCHANGED <<entry, it>>
             ELSE Crash
    BY <1>16 DEF Descend
  <2>3. CASE \E child \in Nodes :
              /\ pc' = IF Leaf(child) THEN "leaf" ELSE "down"
              /\ UNCHANGED <<rootNode, req, pidx, entry, ret, it>>
    BY <1>2, <2>1, <2>3 DEF Busy, Descending
  <2>4. CASE IF req.op = "lookup"
             THEN Return /\ ret' = "unreadable" /\ UNCHANGED <<entry, it>>
             ELSE Crash
    BY <1>13, <1>14, <2>1, <2>4 DEF Descending
  <2> QED BY <2>2, <2>3, <2>4
<1>17. CASE DescendBefore
  <2>1. /\ node \in Nodes /\ ~Leaf(node) /\ OnPath(node) /\ req.op = "lookup"
        /\ Found("LE", node, req.key, -1) /\ pc = "down"
    BY <1>17 DEF DescendBefore, ControlInv
  <2>2. Map!Right(req.key, req.exact, 0)
    BY <1>0, <2>1, LookupMisses DEF OnPath
  <2>3. Answer' = 0
    BY <1>17 DEF DescendBefore, Answer
  <2> QED
    BY <1>0, <1>3, <1>17, <2>1, <2>2, <2>3 DEF DescendBefore, Return, Busy
<1>18. CASE LeafLookup
  <2>1. /\ node \in Nodes /\ Leaf(node) /\ OnPath(node) /\ req.op = "lookup"
        /\ pc = "leaf"
    BY <1>18 DEF LeafLookup, ControlInv
  <2>2. PICK i \in -1..(Cnt[node] - 1) :
          /\ Found(IF req.exact THEN "EQ" ELSE "LE", node, req.key, i)
          /\ ret' = IF i < 0 THEN "missing" ELSE "found"
          /\ entry' = IF i < 0 THEN entry ELSE [node |-> node, index |-> i]
    BY <1>18 DEF LeafLookup
  <2> DEFINE a == IF i < 0 THEN 0 ELSE Lo[node] + i
  <2>3. Map!Right(req.key, req.exact, a)
    BY <1>0, <2>1, <2>2, LookupAnswers DEF OnPath
  <2>4. Answer' = a
    BY <2>2 DEF Answer, Place
  <2>5. a \in 0..N
    <3>1. Lo[node] \in Nat /\ Cnt[node] \in Nat /\ Lo[node] + Cnt[node] - 1 <= N
      BY <2>1, LeafFacts
    <3> QED BY <1>0, <3>1
  <2> HIDE DEF a
  <2>6. Map!Right(req.key, req.exact, Answer') /\ Answer' \in 0..N
    BY <2>3, <2>4, <2>5
  <2> QED BY <1>3, <1>18, <2>1, <2>6 DEF LeafLookup, Return, Busy
<1>19. CASE LeafIterator
  <2>1. /\ node \in Nodes /\ Leaf(node) /\ OnPath(node) /\ pc = "leaf" /\ node # NoNode
        /\ req.op \in {"seek", "first"}
    BY <1>19, TreeTyped DEF LeafIterator, ControlInv
  <2>2. PICK i \in 0..Cnt[node] :
          /\ IF req.op = "first"
               THEN i = 0
               ELSE i < Cnt[node] /\ Found("GE", node, req.key, i)
          /\ it' = [node |-> node, index |-> i]
    BY <1>19 DEF LeafIterator
  <2> DEFINE p == [node |-> node, index |-> i]
  <2>3. /\ Lo[node] \in Nat /\ Cnt[node] \in Nat /\ 1 <= Lo[node]
        /\ Lo[node] + Cnt[node] - 1 <= N /\ Cnt[node] < IndexMod - 1
    BY <2>1, LeafFacts
  <2>4. p \in Places /\ p.node = node /\ Place(p) = Lo[node] + i
    BY <2>1, <2>3, TreeTyped DEF Places, Place
  <2>5. req.op = "seek" => Place(p) \in 1..(N + 1) /\ Map!IsCeiling(req.key, Place(p))
    <3> SUFFICES ASSUME req.op = "seek"
                 PROVE Place(p) \in 1..(N + 1) /\ Map!IsCeiling(req.key, Place(p))
      OBVIOUS
    <3>1. Found("GE", node, req.key, i) /\ i \in 0..(Cnt[node] - 1)
      BY <2>2, <2>3
    <3>2. Map!IsCeiling(req.key, Lo[node] + i)
      BY <1>0, <2>1, <3>1, SeekAnswers DEF OnPath
    <3>3. Lo[node] + i \in 1..(N + 1)
      BY <1>0, <2>3
    <3> QED BY <2>4, <3>2, <3>3
  <2>6. req.op = "first" => Place(p) = 1
    BY <2>1, <2>2, <2>4 DEF OnPath
  <2>7. UNCHANGED <<req, entry, ret>> /\ pc' = "idle" /\ it' = p
    BY <1>19, <2>2 DEF LeafIterator, Return
  <2> HIDE DEF p
  <2> QED BY <1>4, <2>1, <2>4, <2>5, <2>6, <2>7 DEF Busy
<1>20. CASE LeafIteratorPast
  <2>1. /\ UNCHANGED <<req, entry, ret>> /\ pc = "leaf" /\ pc' = "up"
        /\ req.op = "seek"
    BY <1>20 DEF LeafIteratorPast
  <2>2. Answer' = Answer /\ Cursor' = Cursor /\ Busy' = Busy
    BY <2>1 DEF Answer, Cursor, Place, Busy
  <2> QED BY <1>1, <2>1, <2>2
<1>21. CASE NextInLeaf \/ NextLeavesLeaf
  <2>1. /\ it.node # NoNode /\ it.index < Cnt[it.node] /\ req.op = "next"
        /\ pc = "start"
    BY <1>21 DEF NextInLeaf, NextLeavesLeaf, ControlInv
  <2>2. Inc(it.index) = it.index + 1 /\ it.index + 1 <= Cnt[it.node]
    BY <1>0, <1>5, <2>1, TreeTyped DEF Inc
  <2> DEFINE p == [it EXCEPT !.index = it.index + 1]
  <2>3. it' = p
    BY <1>21, <2>2 DEF NextInLeaf, NextLeavesLeaf
  <2>4. p \in Places /\ p.node = it.node /\ p.index = it.index + 1
    BY <1>0, <1>5, <2>1, <2>2, TreeTyped DEF Places
  <2>5. Cursor = Place(it) /\ Place(p) = Cursor + 1 /\ Cursor \in Int
    BY <1>0, <1>5, <2>1, <2>4 DEF Cursor, Place
  <2> HIDE DEF p
  <2>6. CASE NextInLeaf
    BY <1>4, <2>1, <2>3, <2>4, <2>5, <2>6 DEF NextInLeaf, Return, Busy
  <2>7. CASE NextLeavesLeaf
    <3>1. /\ UNCHANGED <<req, entry, ret>> /\ pc' = "up"
      BY <2>7 DEF NextLeavesLeaf
    <3>2. Cursor' = Place(p) - 1
      BY <2>1, <2>3, <2>4, <3>1 DEF Cursor, Place
    <3>3. Place(p) - 1 = Cursor
      BY <2>5
    <3>4. Answer' = Answer /\ Busy' = Busy
      BY <2>1, <3>1 DEF Answer, Place, Busy
    <3> QED BY <1>1, <3>1, <3>2, <3>3, <3>4
  <2> QED BY <1>21, <2>6, <2>7
<1>22. ASSUME pc \in {"up", "across"}
       PROVE  /\ it.node # NoNode /\ req.op \in {"seek", "next"}
              /\ Place(it) = Hi[it.node] + 1
              /\ req.op = "seek" => Map!IsCeiling(req.key, Hi[it.node] + 1)
              /\ req.op = "next" => Cursor = Hi[it.node]
              /\ Hi[it.node] \in Nat /\ Hi[it.node] <= N
  <2>1. /\ it.node # NoNode /\ req.op \in {"seek", "next"}
        /\ it.index = Cnt[it.node]
        /\ req.op = "seek" => Map!IsCeiling(req.key, Hi[it.node] + 1)
    BY <1>22 DEF ControlInv
  <2>2. Place(it) = Hi[it.node] + 1
    BY <1>5, <2>1
  <2>3. req.op = "next" => Cursor = Hi[it.node]
    BY <1>5, <1>22, <2>1, <2>2 DEF Cursor
  <2> QED BY <1>5, <2>1, <2>2, <2>3
<1>23. CASE Climb
  <2>1. /\ pc = "up" /\ node \in Nodes /\ node \in Cached
        /\ Hi[node] = Hi[it.node]
    <3>1. pc = "up" /\ node \in Nodes /\ Hi[node] = Hi[it.node]
      BY <1>23 DEF Climb, ControlInv
    <3> QED BY <3>1, TreeTyped DEF CacheInv, PinnedStays, Pinned
  <2>2. CASE nodes[node].parent = NoNode
    <3>1. node = Root
      BY <2>1, <2>2, TreeTyped DEF CacheInv, TypeOK, ParentsCached
    <3>2. Hi[it.node] = N
      BY <2>1, <3>1, TreeCovers
    <3>3. Place(it) = N + 1 /\ it.node # NoNode /\ req.op \in {"seek", "next"}
          /\ (req.op = "seek" => Map!IsCeiling(req.key, N + 1))
          /\ (req.op = "next" => Cursor = N)
      BY <1>22, <2>1, <3>2
    <3>4. UNCHANGED <<req, entry, ret, it>> /\ pc' = "idle"
      BY <1>23, <2>2 DEF Climb, Return
    <3> QED BY <1>0, <1>4, <2>1, <3>3, <3>4 DEF Busy
  <2>3. CASE nodes[node].parent # NoNode
    <3>1. UNCHANGED <<req, entry, ret, it>> /\ pc' \in {"up", "across"}
      BY <1>23, <2>3 DEF Climb
    <3> QED BY <1>2, <2>1, <3>1 DEF Busy
  <2> QED BY <2>2, <2>3
<1>24. CASE Across
  <2>1. pc = "across" /\ (UNCHANGED <<pc, req, entry, ret, it>> \/ Crash)
    BY <1>24 DEF Across
  <2>2. CASE UNCHANGED <<pc, req, entry, ret, it>>
    BY <1>2, <2>1, <2>2 DEF Busy
  <2>3. CASE Crash
    BY <1>13, <1>22, <2>1, <2>3 DEF Busy
  <2> QED BY <2>1, <2>2, <2>3
<1>25. CASE EnterNextLeaf
  <2>1. /\ pc = "across" /\ node \in Nodes /\ Leaf(node) /\ node # NoNode
        /\ Lo[node] = Hi[it.node] + 1
    BY <1>25, TreeTyped DEF EnterNextLeaf, ControlInv
  <2> DEFINE p == [node |-> node, index |-> 0]
  <2>2. p \in Places /\ p.node = node /\ Place(p) = Hi[it.node] + 1
    BY <2>1, LeafFacts, TreeTyped DEF Places, Place
  <2>3. it' = p /\ UNCHANGED <<req, entry, ret>> /\ pc' = "idle"
    BY <1>25 DEF EnterNextLeaf, Return
  <2>4. /\ req.op \in {"seek", "next"}
        /\ req.op = "seek" => Place(p) \in 1..(N + 1) /\ Map!IsCeiling(req.key, Place(p))
        /\ req.op = "next" => Cursor \in Int /\ Place(p) = Cursor + 1
    BY <1>0, <1>22, <2>1, <2>2
  <2> HIDE DEF p
  <2> QED BY <1>4, <2>1, <2>2, <2>3, <2>4 DEF Busy
<1>26. CASE UNCHANGED vars
  <2>1. Answer' = Answer /\ Cursor' = Cursor /\ Busy' = Busy /\ req' = req
    BY <1>26 DEF vars, Answer, Cursor, Place, Busy
  <2> QED BY <1>1, <2>1
<1> QED
  BY <1>6, <1>8, <1>9, <1>10, <1>11, <1>12, <1>15, <1>16, <1>17, <1>18, <1>19,
     <1>20, <1>21, <1>23, <1>24, <1>25, <1>26 DEF Next, Step

-----------------------------------------------------------------------------
LEMMA Invariance == Spec => []IInv
<1>1. IInv /\ [Next]_vars => IInv'
  BY CacheNext, ControlNext DEF IInv
<1> QED BY InitInv, <1>1, PTL DEF Spec

(* Nothing that is in use is ever evicted, every cached node can climb to   *)
(* the root through cached nodes, and a lookup survives unreadable blocks   *)
(* (BTree::GetNode, BTree::Lookup, BTreeIterator::next_node).               *)
THEOREM CacheCorrect ==
  Spec => [](TypeOK /\ ParentsCached /\ PinnedStays /\ LookupSurvives)
<1>1. IInv => TypeOK /\ ParentsCached /\ PinnedStays /\ LookupSurvives
  BY DEF IInv, CacheInv, ControlInv
<1> QED BY Invariance, <1>1, PTL

(* The nodes, indices and places an operation holds are of the tree, and     *)
(* the cache holds nodes of the tree (BTree, BTreeEntry, BTreeIterator).    *)
THEOREM TypeCorrect == Spec => []TypeOK
<1> QED BY CacheCorrect, PTL

(* The sweep of a full cache evicts nothing an operation or a caller's       *)
(* iterator holds, nor a parent it may climb to (BTree::GetNode).           *)
THEOREM PinnedNeverEvicted == Spec => []PinnedStays
<1> QED BY CacheCorrect, PTL

(* A lookup returns that it found nothing when nodes, the root among them,   *)
(* cannot be read; it does not go on with a node it does not have           *)
(* (BTree::Lookup).                                                         *)
THEOREM LookupsNeverCrash == Spec => []LookupSurvives
<1> QED BY CacheCorrect, PTL

(* Lookups and walks return what the ordered set of records says, whatever  *)
(* was evicted or could not be read in between (BTree::Lookup,              *)
(* BTree::GetIterator, BTree::GetIteratorBegin, BTreeIterator::next).       *)
THEOREM Implementation == Spec => ImplementsMap
<1>1. IInv /\ [Next]_vars => [Map!MapNext]_(Map!mapVars)
  BY MapStep DEF mapNext
<1>2. Init => Map!MapInit
  BY InitMap
<1> QED BY Invariance, <1>1, <1>2, PTL DEF Spec, ImplementsMap, Map!MapSpec

-----------------------------------------------------------------------------
(***************************************************************************)
(* The bound of the cache.  Until an operation inserts a node, what         *)
(* pointers hold is the root, the ways to the leaves of the client's entry  *)
(* and iterator and the way to the index node above the new one.  Whatever  *)
(* else is cached the sweep may evict, and it evicts at least one node of   *)
(* it.                                                                     *)
(***************************************************************************)

\* Node t is n, or below it.
Over(n, t) == Level[t] <= Level[n] /\ Lo[n] <= Lo[t] /\ Hi[t] <= Hi[n]

\* The cached nodes of one level share no record.
Apart == \A m, n \in Cached :
           m # n /\ Level[m] = Level[n] => Hi[m] < Lo[n] \/ Hi[n] < Lo[m]

SizeInv ==
  /\ IsFiniteSet(Cached)
  /\ \A n \in Cached : Level[n] <= Level[Root]
  /\ Apart
  /\ pc = "closed" => Cached = {}
  /\ CacheBounded

(* A set of nodes has one of lowest level.                                  *)
LEMMA Lowest ==
  ASSUME NEW W \in SUBSET Nodes, W # {}
  PROVE  \E n \in W : \A m \in W : Level[n] <= Level[m]
<1> DEFINE L == {Level[n] : n \in W}
           R == OpToRel(<, Nat)
<1>1. L \subseteq Nat /\ L # {}
  <2>1. \A n \in W : Level[n] \in Nat
    BY TreeTyped
  <2>2. PICK n \in W : TRUE
    OBVIOUS
  <2>3. Level[n] \in L
    OBVIOUS
  <2> QED BY <2>1, <2>3
<1>2. PICK l \in L : \A k \in L : ~(<<k, l>> \in R)
  <2>1. IsWellFoundedOn(R, Nat)
    BY NatLessThanWellFounded
  <2> HIDE DEF L, R
  <2> QED BY <1>1, <2>1, WFMin
<1>3. \A k \in L : ~(k < l)
  BY <1>1, <1>2 DEF OpToRel
<1>4. PICK n \in W : l = Level[n]
  OBVIOUS
<1>5. \A m \in W : Level[m] \in L
  OBVIOUS
<1>6. \A m \in W : Level[n] <= Level[m]
  <2> SUFFICES ASSUME NEW m \in W PROVE Level[n] <= Level[m]
    OBVIOUS
  <2>1. ~(Level[m] < Level[n]) /\ Level[m] \in Nat /\ Level[n] \in Nat
    BY <1>3, <1>4, <1>5, TreeTyped
  <2> QED BY <2>1
<1> QED BY <1>6

(* A child is below its parent, and children of one parent share no record. *)
LEMMA ChildFacts ==
  ASSUME NEW p \in Nodes, ~Leaf(p), NEW k \in Entries(p)
  PROVE  /\ Kid[p][k] \in Nodes \ {Root}
         /\ Level[Kid[p][k]] = Level[p] - 1
         /\ Over(p, Kid[p][k])
         /\ Lo[Kid[p][k]] <= Hi[Kid[p][k]]
         /\ \A j \in Entries(p) :
              j # k => Hi[Kid[p][j]] < Lo[Kid[p][k]] \/ Hi[Kid[p][k]] < Lo[Kid[p][j]]
<1> DEFINE last == Cnt[p] - 1
<1>1. /\ Kid[p][k] \in Nodes \ {Root} /\ Kid[p][0] \in Nodes \ {Root}
      /\ Kid[p][last] \in Nodes \ {Root} /\ 0 \in Entries(p) /\ last \in Entries(p)
      /\ k \in 0..last /\ last \in Nat
  BY IndexFacts, TreeNested DEF Entries
<1>2. \A n \in {Kid[p][k], Kid[p][0], Kid[p][last]} :
        Lo[n] \in Nat /\ Hi[n] \in Nat /\ Lo[n] <= Hi[n]
  BY <1>1, TreeTyped, TreeCovers
<1>3. Level[Kid[p][k]] = Level[p] - 1 /\ Level[p] \in Nat
  BY TreeNested, TreeTyped
<1>4. Lo[p] = Lo[Kid[p][0]] /\ Hi[p] = Hi[Kid[p][last]]
  BY TreeNested
<1>5. \A i, j \in Entries(p) : i < j => Hi[Kid[p][i]] < Lo[Kid[p][j]]
  BY TreeNested
<1>6. Lo[p] <= Lo[Kid[p][k]]
  <2>1. CASE k = 0
    BY <1>2, <1>4, <2>1
  <2>2. CASE k # 0
    <3>1. Hi[Kid[p][0]] < Lo[Kid[p][k]]
      BY <1>1, <1>5, <2>2
    <3> HIDE DEF last
    <3> QED BY <1>2, <1>4, <3>1
  <2> QED BY <2>1, <2>2
<1>7. Hi[Kid[p][k]] <= Hi[p]
  <2>1. CASE k = last
    BY <1>2, <1>4, <2>1
  <2>2. CASE k # last
    <3>1. Hi[Kid[p][k]] < Lo[Kid[p][last]]
      BY <1>1, <1>5, <2>2
    <3> HIDE DEF last
    <3> QED BY <1>2, <1>4, <3>1
  <2> QED BY <2>1, <2>2
<1>8. \A j \in Entries(p) :
        j # k => Hi[Kid[p][j]] < Lo[Kid[p][k]] \/ Hi[Kid[p][k]] < Lo[Kid[p][j]]
  BY <1>5 DEF Entries
<1> HIDE DEF last
<1> QED BY <1>1, <1>2, <1>3, <1>6, <1>7, <1>8 DEF Over

(* Every node of the cache but the root is below a cached parent, so of a    *)
(* lower level than the root.                                               *)
LEMMA BelowParent ==
  ASSUME CacheInv, SizeInv, NEW n \in Cached
  PROVE  /\ n \in Nodes /\ Level[n] \in Nat /\ Lo[n] \in Nat /\ Hi[n] \in Nat
         /\ n # Root =>
              LET p == nodes[n].parent IN
              /\ p \in Cached /\ p \in Nodes /\ ~Leaf(p)
              /\ nodes[n].pidx \in Entries(p) /\ Kid[p][nodes[n].pidx] = n
              /\ Level[n] = Level[p] - 1 /\ Over(p, n)
              /\ Level[n] < Level[Root]
              /\ Lo[n] <= Hi[n]
<1>1. n \in Nodes /\ Level[n] \in Nat /\ Lo[n] \in Nat /\ Hi[n] \in Nat
  BY TreeTyped DEF CacheInv, TypeOK
<1>2. ASSUME n # Root
      PROVE  LET p == nodes[n].parent IN
             /\ p \in Cached /\ p \in Nodes /\ ~Leaf(p)
             /\ nodes[n].pidx \in Entries(p) /\ Kid[p][nodes[n].pidx] = n
  BY <1>2 DEF CacheInv, TypeOK, ParentsCached
<1>3. ASSUME n # Root
      PROVE  LET p == nodes[n].parent IN
             /\ Level[n] = Level[p] - 1 /\ Over(p, n)
             /\ Level[n] < Level[Root] /\ Lo[n] <= Hi[n]
  <2> DEFINE p == nodes[n].parent
  <2>1. /\ p \in Cached /\ p \in Nodes /\ ~Leaf(p)
        /\ nodes[n].pidx \in Entries(p) /\ Kid[p][nodes[n].pidx] = n
    BY <1>2, <1>3
  <2>2. Level[n] = Level[p] - 1 /\ Over(p, n) /\ Lo[n] <= Hi[n]
    <3> HIDE DEF p
    <3> QED BY <2>1, ChildFacts
  <2>3. Level[p] <= Level[Root] /\ Level[p] \in Nat /\ Level[Root] \in Nat
    BY <2>1, TreeTyped DEF SizeInv
  <2> HIDE DEF p
  <2>4. Level[n] < Level[Root]
    BY <1>1, <2>2, <2>3
  <2> QED BY <2>2, <2>4 DEF p
<1> QED BY <1>1, <1>2, <1>3

(* When every cached node is held, each is above one that a pointer holds.   *)
LEMMA AboveTip ==
  ASSUME CacheInv, SizeInv, Swept(Cached), NEW n \in Cached
  PROVE  \E t \in Pinned \cap Cached : Over(n, t)
<1> DEFINE Tipped(m) == \E t \in Pinned \cap Cached : Over(m, t)
           W == {m \in Cached : ~Tipped(m)}
<1>1. \A m \in Cached : Level[m] \in Nat /\ Lo[m] \in Nat /\ Hi[m] \in Nat /\ m \in Nodes
  BY BelowParent
<1>2. SUFFICES ASSUME W # {} PROVE FALSE
  OBVIOUS
<1>3. PICK w \in W : \A m \in W : Level[w] <= Level[m]
  <2>1. W \in SUBSET Nodes
    BY <1>1
  <2> HIDE DEF W
  <2> QED BY <1>2, <2>1, Lowest
<1>4. w \in Cached /\ ~Tipped(w) /\ Over(w, w)
  BY <1>1 DEF Over
<1>5. w \notin Pinned
  BY <1>4
<1>6. PICK c \in Cached : nodes[c].parent = w
  BY <1>4, <1>5 DEF Swept
<1>7. c # Root
  <2>1. w # NoNode
    BY <1>1, <1>4, TreeTyped
  <2> QED BY <1>6, <2>1 DEF CacheInv, ParentsCached
<1>8. Level[c] = Level[w] - 1 /\ Over(w, c)
  BY <1>6, <1>7, BelowParent
<1>9. c \notin W
  <2> HIDE DEF W
  <2> QED BY <1>1, <1>3, <1>4, <1>6, <1>8
<1>10. PICK t \in Pinned \cap Cached : Over(c, t)
  BY <1>6, <1>9
<1>11. Over(w, t)
  BY <1>1, <1>4, <1>6, <1>8, <1>10 DEF Over
<1> QED BY <1>4, <1>10, <1>11

(* Two cached nodes of one level above the same node, which is not the root, *)
(* are the same node.                                                       *)
LEMMA OnePerLevel ==
  ASSUME CacheInv, SizeInv, NEW m \in Cached, NEW n \in Cached, NEW t \in Cached,
         t # Root, Level[m] = Level[n], Over(m, t), Over(n, t)
  PROVE  m = n
<1>1. Lo[t] <= Hi[t] /\ Lo[t] \in Nat /\ Hi[t] \in Nat
  BY BelowParent
<1>2. Lo[m] \in Nat /\ Hi[m] \in Nat /\ Lo[n] \in Nat /\ Hi[n] \in Nat
  BY BelowParent
<1>3. ~(Hi[m] < Lo[n]) /\ ~(Hi[n] < Lo[m])
  BY <1>1, <1>2 DEF Over
<1> QED BY <1>3 DEF SizeInv, Apart

Under(n, t) == t \in Cached /\ Over(n, t)

\* A number below 3 * Level[Root] for every node that is held, by the pointer
\* that holds it and its level.
Number(n) ==
  CASE n = Root -> 2
    [] n # Root /\ Under(n, entry.node) -> 3 * Level[n]
    [] n # Root /\ ~Under(n, entry.node) /\ Under(n, it.node) -> 3 * Level[n] + 1
    [] OTHER -> 3 * Level[n] + 2

(* The number of a node tells its level and the pointer.                    *)
LEMMA NumberFacts ==
  ASSUME CacheInv, SizeInv, Swept(Cached), node \in Nodes, ~Leaf(node),
         rootNode \in {Root, NoNode}, NEW n \in Cached
  PROVE  /\ Level[n] \in Nat /\ Level[Root] \in Nat
         /\ Number(n) \in 0..(3 * Level[Root] - 1)
         /\ n = Root => Number(n) = 2
         /\ n # Root =>
              \/ Number(n) = 3 * Level[n] /\ Under(n, entry.node) /\ entry.node # Root
              \/ Number(n) = 3 * Level[n] + 1 /\ Under(n, it.node) /\ it.node # Root
              \/ /\ Number(n) = 3 * Level[n] + 2 /\ Under(n, node) /\ node # Root
                 /\ Level[n] > 0
<1>1. Level[n] \in Nat /\ Level[Root] \in Nat /\ Level[node] \in Nat /\ Level[node] > 0
  BY BelowParent, TreeTyped DEF Leaf
<1>2. node \in Cached
  BY TreeTyped DEF CacheInv, PinnedStays, Pinned
<1>3. Level[Root] > 0
  BY <1>1, <1>2 DEF SizeInv
<1>4. CASE n = Root
  <2>1. Number(n) = 2
    BY <1>4 DEF Number
  <2> QED BY <1>1, <1>3, <1>4, <2>1
<1>5. CASE n # Root
  <2>1. Level[n] < Level[Root]
    BY <1>5, BelowParent
  <2>2. ~Over(n, Root)
    BY <1>1, <2>1 DEF Over
  <2>3. PICK t \in Pinned \cap Cached : Over(n, t)
    BY AboveTip
  <2>4. t # Root /\ t # NoNode
    BY <2>2, <2>3, TreeTyped DEF CacheInv, TypeOK
  <2>5. t \in {node, entry.node, it.node}
    BY <2>3, <2>4 DEF Pinned
  <2>6. CASE Under(n, entry.node)
    <3>1. Number(n) = 3 * Level[n] /\ entry.node # Root
      BY <1>5, <2>2, <2>6 DEF Number, Under
    <3> QED BY <1>1, <1>5, <2>1, <2>6, <3>1
  <2>7. CASE ~Under(n, entry.node) /\ Under(n, it.node)
    <3>1. Number(n) = 3 * Level[n] + 1 /\ it.node # Root
      BY <1>5, <2>2, <2>7 DEF Number, Under
    <3> QED BY <1>1, <1>5, <2>1, <2>7, <3>1
  <2>8. CASE ~Under(n, entry.node) /\ ~Under(n, it.node)
    <3>1. Number(n) = 3 * Level[n] + 2
      BY <1>5, <2>8 DEF Number
    <3>2. Under(n, node) /\ node # Root
      BY <2>3, <2>4, <2>5, <2>8 DEF Under
    <3>3. Level[n] > 0
      BY <1>1, <3>2 DEF Under, Over
    <3> QED BY <1>1, <1>5, <2>1, <3>1, <3>2, <3>3
  <2> QED BY <2>6, <2>7, <2>8
<1> QED BY <1>4, <1>5

(* There is room for what pointers hold when a node is inserted.            *)
LEMMA RoomForHeld ==
  ASSUME CacheInv, SizeInv, Swept(Cached), node \in Nodes, ~Leaf(node),
         MaxNodes >= 3 * Level[Root]
  PROVE  Cardinality(Cached) <= MaxNodes
<1> DEFINE T == 0..(3 * Level[Root] - 1)
           f == [n \in Cached |-> Number(n)]
<1>1. rootNode \in {Root, NoNode}
  BY DEF CacheInv, TypeOK
<1>2. f \in [Cached -> T]
  BY <1>1, NumberFacts
<1>3. ASSUME NEW m \in Cached, NEW n \in Cached, Number(m) = Number(n)
      PROVE  m = n
  <2>1. CASE m = Root \/ n = Root
    BY <1>1, <1>3, <2>1, NumberFacts
  <2>2. CASE m # Root /\ n # Root
    <3>1. Level[m] = Level[n] /\ \E t \in Cached : t # Root /\ Over(m, t) /\ Over(n, t)
      BY <1>1, <1>3, <2>2, NumberFacts DEF Under
    <3> QED BY <3>1, OnePerLevel
  <2> QED BY <2>1, <2>2
<1>4. f \in Injection(Cached, T)
  BY <1>2, <1>3 DEF Injection, IsInjective
<1>5. IsFiniteSet(T) /\ Cardinality(T) = 3 * Level[Root]
  <2> DEFINE b == 3 * Level[Root] - 1
  <2>1. Level[Root] \in Nat /\ b \in Int /\ 0 \in Int
    BY TreeTyped
  <2>2. IsFiniteSet(0..b) /\ Cardinality(0..b) = IF 0 > b THEN 0 ELSE b - 0 + 1
    <3> HIDE DEF b
    <3> QED BY <2>1, FS_Interval
  <2> QED BY <2>1, <2>2
<1>6. Cardinality(Cached) <= Cardinality(T) /\ Cardinality(Cached) \in Nat
  <2> HIDE DEF T, f
  <2> QED BY <1>4, <1>5, FS_Injection, FS_CardinalityType
<1>7. Cardinality(Cached) <= 3 * Level[Root]
  BY <1>5, <1>6
<1>8. 3 * Level[Root] \in Nat /\ MaxNodes \in Nat
  BY TreeTyped
<1> HIDE DEF T, f
<1> QED BY <1>6, <1>7, <1>8
-----------------------------------------------------------------------------
(* Inserting a node below an index node that is held, or the root into an    *)
(* empty cache, keeps the cache within its bound.                           *)
LEMMA GetNodeKeepsSize ==
  ASSUME CacheInv, SizeInv, MaxNodes >= 3 * Level[Root],
         NEW oid \in Nodes, NEW par, NEW i \in Nat,
         NEW result \in Nodes \cup {NoNode},
         \/ oid = Root /\ Cached = {}
         \/ /\ par = node /\ node \in Nodes /\ ~Leaf(node)
            /\ i \in Entries(node) /\ Kid[node][i] = oid,
         GetNode(oid, par, i, result)
  PROVE  /\ IsFiniteSet(Cached')
         /\ \A n \in Cached' : Level[n] <= Level[Root]
         /\ Apart'
         /\ CacheBounded'
<1>1. CASE UNCHANGED nodes
  BY <1>1 DEF SizeInv, Cached, Apart, CacheBounded
<1>2. CASE oid \notin Cached /\ Insert(oid, par, i)
  <2>1. PICK kept \in SUBSET Cached :
          /\ IF Cardinality(Cached) > MaxNodes THEN Swept(kept) ELSE kept = Cached
          /\ nodes' = [n \in kept \cup {oid} |->
                 IF n = oid THEN [parent |-> par, pidx |-> i] ELSE nodes[n]]
    BY <1>2 DEF Insert
  <2>2. Cached' = kept \cup {oid}
    BY <2>1 DEF Cached
  <2>3. IsFiniteSet(Cached) /\ Cardinality(Cached) \in Nat /\ MaxNodes \in Nat
        /\ Cardinality(Cached) <= MaxNodes + 1
    BY TreeTyped, FS_CardinalityType DEF SizeInv, CacheBounded
  <2>4. IsFiniteSet(kept) /\ Cardinality(kept) \in Nat
        /\ Cardinality(kept) <= Cardinality(Cached)
        /\ (Cardinality(kept) = Cardinality(Cached) => kept = Cached)
    BY <2>1, <2>3, FS_Subset, FS_CardinalityType
  <2>5. Cardinality(kept) <= MaxNodes
    <3>1. CASE Cardinality(Cached) > MaxNodes
      <4>1. Swept(kept) /\ Cached # {}
        BY <2>1, <2>3, <3>1, FS_EmptySet
      <4>2. node \in Nodes /\ ~Leaf(node)
        BY <4>1
      <4>3. kept # Cached
        BY <2>3, <3>1, <4>1, <4>2, RoomForHeld
      <4> QED BY <2>3, <2>4, <4>3
    <3>2. CASE ~(Cardinality(Cached) > MaxNodes)
      BY <2>3, <2>4, <3>2
    <3> QED BY <3>1, <3>2
  <2>6. IsFiniteSet(Cached') /\ Cardinality(Cached') <= MaxNodes + 1
    <3>1. /\ IsFiniteSet(kept \cup {oid})
          /\ Cardinality(kept \cup {oid}) =
               IF oid \in kept THEN Cardinality(kept) ELSE Cardinality(kept) + 1
      BY <2>4, FS_AddElement
    <3>2. Cardinality(kept \cup {oid}) <= MaxNodes + 1
      BY <2>3, <2>4, <2>5, <3>1
    <3> QED BY <2>2, <3>1, <3>2
  <2>7. /\ Level[oid] \in Nat /\ Level[oid] <= Level[Root]
        /\ \A n \in kept : n # oid /\ Level[n] = Level[oid] =>
                              Hi[n] < Lo[oid] \/ Hi[oid] < Lo[n]
    <3>1. CASE oid = Root /\ Cached = {}
      BY <2>1, <3>1, TreeTyped
    <3>2. CASE node \in Nodes /\ ~Leaf(node) /\ i \in Entries(node) /\ Kid[node][i] = oid
      <4>1. node \in Cached
        BY <3>2, TreeTyped DEF CacheInv, PinnedStays, Pinned
      <4>2. /\ oid # Root /\ Level[oid] = Level[node] - 1 /\ Over(node, oid)
            /\ Level[oid] \in Nat /\ Level[node] \in Nat
            /\ Lo[oid] \in Nat /\ Hi[oid] \in Nat /\ Lo[node] \in Nat /\ Hi[node] \in Nat
        BY <3>2, ChildFacts, TreeTyped
      <4>3. Level[node] <= Level[Root] /\ Level[Root] \in Nat
        BY <4>1, TreeTyped DEF SizeInv
      <4>4. ASSUME NEW n \in Cached, n # oid, Level[n] = Level[oid]
            PROVE  Hi[n] < Lo[oid] \/ Hi[oid] < Lo[n]
        <5> DEFINE p == nodes[n].parent
        <5>1. n # Root
          BY <4>2, <4>3, <4>4
        <5>2. /\ p \in Cached /\ p \in Nodes /\ ~Leaf(p)
              /\ nodes[n].pidx \in Entries(p) /\ Kid[p][nodes[n].pidx] = n
              /\ Level[n] = Level[p] - 1 /\ Over(p, n)
              /\ Level[n] \in Nat /\ Lo[n] \in Nat /\ Hi[n] \in Nat
          BY <5>1, BelowParent
        <5>3. Level[p] \in Nat /\ Lo[p] \in Nat /\ Hi[p] \in Nat
          BY <5>2, BelowParent
        <5> HIDE DEF p
        <5>4. CASE p = node
          BY <3>2, <4>4, <5>2, <5>4, ChildFacts
        <5>5. CASE p # node
          <6>1. Level[p] = Level[node]
            BY <4>2, <4>4, <5>2, <5>3
          <6>2. Hi[p] < Lo[node] \/ Hi[node] < Lo[p]
            BY <4>1, <5>2, <5>5, <6>1 DEF SizeInv, Apart
          <6> QED BY <4>2, <5>2, <5>3, <6>2 DEF Over
        <5> QED BY <5>4, <5>5
      <4> QED BY <2>1, <4>2, <4>3, <4>4
    <3> QED BY <3>1, <3>2
  <2>8. \A n \in Cached' : Level[n] <= Level[Root]
    BY <2>1, <2>2, <2>7 DEF SizeInv
  <2>9. Apart'
    <3> SUFFICES ASSUME NEW m \in Cached', NEW n \in Cached', m # n, Level[m] = Level[n]
                 PROVE  Hi[m] < Lo[n] \/ Hi[n] < Lo[m]
      BY DEF Apart
    <3>1. CASE m = oid \/ n = oid
      BY <2>2, <2>7, <3>1
    <3>2. CASE m # oid /\ n # oid
      BY <2>1, <2>2, <3>2 DEF SizeInv, Apart
    <3> QED BY <3>1, <3>2
  <2> QED BY <2>6, <2>8, <2>9 DEF CacheBounded
<1> QED BY <1>1, <1>2 DEF GetNode

(* Only three steps get nodes, and each of them holds the node above.       *)
LEMMA SizeNext ==
  ASSUME MaxNodes >= 3 * Level[Root], IInv, SizeInv, [Next]_vars
  PROVE  SizeInv'
<1>1. CASE UNCHANGED nodes /\ (pc' = "closed" => pc = "closed")
  BY <1>1 DEF SizeInv, Cached, Apart, CacheBounded
<1>2. ASSUME pc' # "closed",
             NEW oid \in Nodes, NEW par, NEW i \in Nat, NEW result \in Nodes \cup {NoNode},
             \/ oid = Root /\ Cached = {}
             \/ /\ par = node /\ node \in Nodes /\ ~Leaf(node)
                /\ i \in Entries(node) /\ Kid[node][i] = oid,
             GetNode(oid, par, i, result)
      PROVE  SizeInv'
  BY <1>2, GetNodeKeepsSize DEF SizeInv, IInv
<1>3. CASE Open
  <2>1. PICK r \in {Root, NoNode} : GetNode(Root, NoNode, 0, r)
    BY <1>3 DEF Open
  <2>2. Cached = {} /\ pc' # "closed"
    BY <1>3 DEF Open, SizeInv
  <2> QED BY <1>2, <2>1, <2>2, TreeTyped
<1>4. CASE Descend
  <2>1. node \in Nodes /\ ~Leaf(node)
    BY <1>4 DEF Descend, ControlInv, IInv
  <2>2. /\ pc' # "closed"
        /\ \E i \in Entries(node) : \E r \in Nodes \cup {NoNode} :
             GetNode(Kid[node][i], node, i, r)
    BY <1>4 DEF Descend, Return, Crash
  <2>3. \A i \in Entries(node) : i \in Nat /\ Kid[node][i] \in Nodes
    BY <2>1, ChildFacts DEF Entries
  <2> QED BY <1>2, <2>1, <2>2, <2>3
<1>5. CASE Across
  <2>1. node \in Nodes /\ ~Leaf(node) /\ pidx \in Entries(node)
    BY <1>5 DEF Across, ControlInv, IInv
  <2>2. /\ pc' # "closed"
        /\ \E r \in Nodes \cup {NoNode} : GetNode(Kid[node][pidx], node, pidx, r)
    BY <1>5 DEF Across, Crash
  <2>3. pidx \in Nat /\ Kid[node][pidx] \in Nodes
    BY <2>1, ChildFacts DEF Entries
  <2> QED BY <1>2, <2>1, <2>2, <2>3
<1>6. CASE \/ CallLookup \/ CallSeek \/ CallFirst \/ CallNext
           \/ Start \/ StartWithoutRoot \/ DescendBefore
  BY <1>1, <1>6 DEF CallLookup, CallSeek, CallFirst, CallNext, Call, Start,
     StartWithoutRoot, Return, Crash, DescendBefore
<1>7. CASE \/ LeafLookup \/ LeafIterator \/ LeafIteratorPast
           \/ NextInLeaf \/ NextLeavesLeaf \/ EnterNextLeaf
  BY <1>1, <1>7 DEF LeafLookup, LeafIterator, LeafIteratorPast, NextInLeaf,
     NextLeavesLeaf, EnterNextLeaf, Return
<1>8. CASE Climb
  BY <1>1, <1>8 DEF Climb, Return
<1>9. CASE UNCHANGED vars
  BY <1>1, <1>9 DEF vars
<1> QED BY <1>3, <1>4, <1>5, <1>6, <1>7, <1>8, <1>9 DEF Next, Step

(* The map of nodes holds at most one node more than its limit, when the     *)
(* limit is three times the height of the tree or more, as 8192 is for any   *)
(* tree on a disk (BTree::GetNode).                                         *)
THEOREM CacheStaysBounded ==
  ASSUME MaxNodes >= 3 * Level[Root]
  PROVE  Spec => []CacheBounded
<1>1. Init => SizeInv
  <2> SUFFICES ASSUME Init PROVE SizeInv
    OBVIOUS
  <2>1. Cached = {}
    BY DEF Init, Cached
  <2>2. IsFiniteSet(Cached) /\ Cardinality(Cached) = 0
    BY <2>1, FS_EmptySet
  <2> QED BY <2>1, <2>2, TreeTyped DEF SizeInv, Apart, CacheBounded
<1>2. IInv /\ SizeInv /\ [Next]_vars => SizeInv'
  BY SizeNext
<1>3. SizeInv => CacheBounded
  BY DEF SizeInv
<1> QED BY Invariance, <1>1, <1>2, <1>3, PTL DEF Spec

-----------------------------------------------------------------------------
(* The search in a node, for nodes of any size.                             *)

LEMMA ViewAscends ==
  ASSUME NEW n \in Nat, NEW c \in NodeViews(n)
  PROVE  /\ c \in [0..(n - 1) -> {-1, 0, 1}]
         /\ \A i, j \in 0..(n - 1) :
              i < j => /\ c[j] <= 0 => c[i] = -1
                       /\ c[i] >= 0 => c[j] = 1
BY DEF NodeViews

(* The state of the loop: everything left of beg is smaller than the key,   *)
(* everything right of end is larger, and the last probe is the entry that  *)
(* moved one of them.                                                       *)
LoopInv ==
  /\ cnt > 0
  /\ beg <= end + 1
  /\ \A k \in 0..(cnt - 1) : k < beg => cmp[k] = -1
  /\ \A k \in 0..(cnt - 1) : k > end => cmp[k] = 1
  /\ \/ mid = -1 /\ beg = 0 /\ end = cnt - 1
     \/ mid = beg - 1 /\ beg > 0 /\ rc = -1
     \/ mid = end + 1 /\ end < cnt - 1 /\ rc = 1

(* After the loop: mid is an entry, rc its comparison, and the key's place  *)
(* is next to it.                                                           *)
SelectInv ==
  /\ mid \in 0..(cnt - 1)
  /\ rc = cmp[mid]
  /\ rc = -1 => \A k \in 0..(cnt - 1) : k > mid => cmp[k] = 1
  /\ rc = 1 => \A k \in 0..(cnt - 1) : k < mid => cmp[k] = -1

SearchInv ==
  /\ LocalsOK
  /\ stage = "enter" => mid = -1
  /\ stage = "loop" => LoopInv
  /\ stage = "select" => SelectInv
  /\ ResultCorrect

LEMMA SearchInitInv == SearchInit => SearchInv
<1> SUFFICES ASSUME SearchInit PROVE SearchInv
  OBVIOUS
<1> USE DEF SearchInit
<1>1. cmp \in NodeViews(cnt)
  <2>1. cnt = 0 /\ DOMAIN cmp = {} /\ 0..(cnt - 1) = {} /\ cmp = [k \in {} |-> 0]
    OBVIOUS
  <2> QED BY <2>1 DEF NodeViews
<1>2. LocalsOK
  BY <1>1, MaxCntAssumption DEF LocalsOK, FindMode
<1>3. Answers(mode, res)
  BY DEF Answers, Wanted
<1> QED
  BY <1>2, <1>3 DEF SearchInv, ResultCorrect

LEMMA CallInv ==
  ASSUME SearchInv, NEW n \in 0..MaxCnt, NEW m \in FindMode,
         NEW c \in NodeViews(n), CallFindBin(n, c, m)
  PROVE  SearchInv'
<1>1. LocalsOK'
  <2>1. n \in Nat
    BY MaxCntAssumption
  <2> QED BY <2>1, MaxCntAssumption DEF CallFindBin, LocalsOK
<1> QED
  BY <1>1 DEF CallFindBin, SearchInv, ResultCorrect

LEMMA EnterInv == SearchInv /\ Enter => SearchInv'
<1> SUFFICES ASSUME SearchInv, Enter PROVE SearchInv'
  OBVIOUS
<1>1. cnt \in Nat
  BY MaxCntAssumption DEF SearchInv, LocalsOK
<1>2. CASE cnt <= 0
  <2>1. LocalsOK'
    BY <1>1, <1>2 DEF SearchInv, LocalsOK, Enter
  <2>2. cnt' = 0 /\ res' = -1
    BY <1>1, <1>2 DEF Enter
  <2>3. Wanted(mode)' = {}
    BY <2>2 DEF Wanted
  <2>4. ResultCorrect'
    BY <2>2, <2>3 DEF ResultCorrect, Answers
  <2> QED BY <1>2, <2>1, <2>4 DEF SearchInv, Enter
<1>3. CASE ~(cnt <= 0)
  <2>1. LocalsOK'
    BY <1>1, <1>3 DEF SearchInv, LocalsOK, Enter
  <2>2. LoopInv'
    BY <1>1, <1>3 DEF SearchInv, LocalsOK, Enter, LoopInv
  <2> QED
    BY <1>3, <2>1, <2>2 DEF SearchInv, Enter, ResultCorrect
<1> QED BY <1>2, <1>3

(* The probe: the entries on the discarded side compare like mid.           *)
LEMMA ProbeInv == SearchInv /\ Probe => SearchInv'
<1> SUFFICES ASSUME SearchInv, Probe PROVE SearchInv'
  OBVIOUS
<1>1. /\ cnt \in Nat
      /\ cmp \in [0..(cnt - 1) -> {-1, 0, 1}]
      /\ \A i, j \in 0..(cnt - 1) :
           i < j => /\ cmp[j] <= 0 => cmp[i] = -1
                    /\ cmp[i] >= 0 => cmp[j] = 1
  <2>1. cnt \in Nat /\ cmp \in NodeViews(cnt)
    BY MaxCntAssumption DEF SearchInv, LocalsOK
  <2> QED BY <2>1, ViewAscends
<1>2. LoopInv /\ beg <= end /\ beg \in 0..cnt /\ end \in -1..(cnt - 1)
  BY DEF SearchInv, LocalsOK, Probe
<1> DEFINE m == (beg + end) \div 2
<1>3. /\ cnt \in Int /\ beg \in Int /\ end \in Int /\ m \in Int
      /\ 0 <= beg /\ beg <= m /\ m <= end /\ end < cnt
  BY <1>1, <1>2
<1>4. mid' = m /\ rc' = cmp[m] /\ cnt' = cnt /\ cmp' = cmp
  BY DEF Probe
<1> HIDE DEF m
<1>5. m \in 0..(cnt - 1) /\ cmp[m] \in {-1, 0, 1}
  BY <1>1, <1>3
<1>6. CASE cmp[m] = 0
  <2>1. stage' = "select" /\ beg' = beg /\ end' = end
    BY <1>4, <1>6 DEF Probe
  <2>2. LocalsOK'
    BY <1>2, <1>4, <1>5, <1>6, <2>1 DEF SearchInv, LocalsOK, Probe
  <2>3. SelectInv'
    BY <1>4, <1>5, <1>6 DEF SelectInv
  <2> QED BY <2>1, <2>2, <2>3 DEF SearchInv, ResultCorrect
<1>7. CASE cmp[m] = -1
  <2>1. stage' = "loop" /\ beg' = m + 1 /\ end' = end
    BY <1>4, <1>7 DEF Probe
  <2>2. LocalsOK'
    BY <1>2, <1>3, <1>4, <1>5, <1>7, <2>1 DEF SearchInv, LocalsOK, Probe
  <2>3. ASSUME NEW k \in 0..(cnt - 1), k < m + 1 PROVE cmp[k] = -1
    <3>1. k = m \/ k < m
      BY <1>3, <2>3
    <3> QED BY <1>1, <1>5, <1>7, <3>1
  <2>4. LoopInv'
    BY <1>2, <1>3, <1>4, <1>7, <2>1, <2>3 DEF LoopInv
  <2> QED BY <2>1, <2>2, <2>4 DEF SearchInv, ResultCorrect
<1>8. CASE cmp[m] = 1
  <2>1. stage' = "loop" /\ beg' = beg /\ end' = m - 1
    BY <1>4, <1>8 DEF Probe
  <2>2. LocalsOK'
    BY <1>2, <1>3, <1>4, <1>5, <1>8, <2>1 DEF SearchInv, LocalsOK, Probe
  <2>3. ASSUME NEW k \in 0..(cnt - 1), k > m - 1 PROVE cmp[k] = 1
    <3>1. k = m \/ m < k
      BY <1>3, <2>3
    <3> QED BY <1>1, <1>5, <1>8, <3>1
  <2>4. LoopInv'
    BY <1>2, <1>3, <1>4, <1>8, <2>1, <2>3 DEF LoopInv
  <2> QED BY <2>1, <2>2, <2>4 DEF SearchInv, ResultCorrect
<1> QED BY <1>5, <1>6, <1>7, <1>8

LEMMA ExhaustedInv == SearchInv /\ Exhausted => SearchInv'
<1> SUFFICES ASSUME SearchInv, Exhausted PROVE SearchInv'
  OBVIOUS
<1>1. cnt \in Nat /\ LoopInv /\ beg > end
  BY MaxCntAssumption DEF SearchInv, LocalsOK, Exhausted
<1>2. LocalsOK'
  BY DEF SearchInv, LocalsOK, Exhausted
<1>3. SelectInv
  BY <1>1 DEF SearchInv, LocalsOK, LoopInv, SelectInv
<1> QED
  BY <1>2, <1>3 DEF SearchInv, Exhausted, SelectInv, ResultCorrect

(* The result is read off the last probe.                                   *)
LEMMA SelectStepInv == SearchInv /\ Select => SearchInv'
<1> SUFFICES ASSUME SearchInv, Select PROVE SearchInv'
  OBVIOUS
<1>1. /\ cnt \in Nat
      /\ cmp \in [0..(cnt - 1) -> {-1, 0, 1}]
      /\ \A i, j \in 0..(cnt - 1) :
           i < j => /\ cmp[j] <= 0 => cmp[i] = -1
                    /\ cmp[i] >= 0 => cmp[j] = 1
  <2>1. cnt \in Nat /\ cmp \in NodeViews(cnt)
    BY MaxCntAssumption DEF SearchInv, LocalsOK
  <2> QED BY <2>1, ViewAscends
<1>2. SelectInv /\ rc \in {-1, 0, 1} /\ mode \in FindMode
  BY DEF SearchInv, LocalsOK, Select
<1>3. Pick \in -1..cnt
  BY <1>1, <1>2 DEF Pick, SelectInv, FindMode
<1>4. LocalsOK'
  BY <1>1, <1>3 DEF SearchInv, LocalsOK, Select
<1>5. Answers(mode, IF Pick = cnt THEN -1 ELSE Pick)
  <2>1. CASE mode = "EQ"
    BY <1>1, <1>2, <2>1 DEF Answers, Wanted, Pick, SelectInv
  <2>2. CASE mode = "LE"
    BY <1>1, <1>2, <2>2 DEF Answers, Wanted, Pick, SelectInv
  <2>3. CASE mode = "LT"
    BY <1>1, <1>2, <2>3 DEF Answers, Wanted, Pick, SelectInv
  <2>4. CASE mode = "GE"
    BY <1>1, <1>2, <2>4 DEF Answers, Wanted, Pick, SelectInv
  <2>5. CASE mode = "GT"
    BY <1>1, <1>2, <2>5 DEF Answers, Wanted, Pick, SelectInv
  <2> QED BY <1>2, <2>1, <2>2, <2>3, <2>4, <2>5 DEF FindMode
<1>6. ResultCorrect'
  BY <1>5 DEF Select, ResultCorrect, Answers, Wanted
<1> QED
  BY <1>4, <1>6 DEF SearchInv, Select

LEMMA SearchNextInv == SearchInv /\ [SearchNext]_searchVars => SearchInv'
<1> SUFFICES ASSUME SearchInv, [SearchNext]_searchVars PROVE SearchInv'
  OBVIOUS
<1>1. CASE SearchStep
  BY <1>1, EnterInv, ProbeInv, ExhaustedInv, SelectStepInv DEF SearchStep
<1>2. ASSUME NEW n \in 0..MaxCnt, NEW m \in FindMode,
             NEW c \in NodeViews(n), CallFindBin(n, c, m)
      PROVE  SearchInv'
  BY <1>2, CallInv
<1>3. CASE UNCHANGED searchVars
  BY <1>3 DEF SearchInv, LocalsOK, LoopInv, SelectInv, ResultCorrect, Answers,
     Wanted, searchVars
<1> QED BY <1>1, <1>2, <1>3 DEF SearchNext

(* The locals of the search stay in their ranges.                           *)
THEOREM LocalsCorrect == SearchSpec => []LocalsOK
<1>1. SearchInv => LocalsOK
  BY DEF SearchInv
<1> QED BY <1>1, SearchInitInv, SearchNextInv, PTL DEF SearchSpec

(* Whatever the size of the node, FindBin returns the entry its mode asks   *)
(* for, or -1 when there is none.                                           *)
THEOREM SearchCorrect == SearchSpec => []ResultCorrect
<1>1. SearchInv => ResultCorrect
  BY DEF SearchInv
<1> QED BY <1>1, SearchInitInv, SearchNextInv, PTL DEF SearchSpec

(* Whatever the size of the node, the interval still to be searched at      *)
(* least halves each round: the loop ends after log2(n) + 1 comparisons.    *)
THEOREM SearchLogarithmic == SearchSpec => IntervalHalves
<1>1. SearchInv /\ [SearchNext]_searchVars =>
        [stage = "loop" /\ stage' = "loop" =>
           2 * (end' - beg' + 1) <= end - beg + 1]_searchVars
  <2> SUFFICES ASSUME SearchInv, [SearchNext]_searchVars, stage = "loop", stage' = "loop",
                      searchVars' # searchVars
               PROVE  2 * (end' - beg' + 1) <= end - beg + 1
    OBVIOUS
  <2>1. Probe
    BY DEF SearchNext, SearchStep, CallFindBin, Enter, Exhausted, Select
  <2>2. beg \in Int /\ end \in Int /\ beg <= end /\ cnt \in Nat
    BY <2>1, MaxCntAssumption DEF SearchInv, LocalsOK, Probe
  <2>3. cmp \in [0..(cnt - 1) -> {-1, 0, 1}]
    BY <2>2, ViewAscends DEF SearchInv, LocalsOK
  <2>4. mid' = (beg + end) \div 2 /\ rc' # 0
    BY <2>1 DEF Probe
  <2>5. mid' \in 0..(cnt - 1) /\ rc' \in {-1, 0, 1}
    BY <2>1, <2>2, <2>3, <2>4 DEF SearchInv, LocalsOK, LoopInv, Probe
  <2>6. CASE rc' = -1
    <3>1. beg' = mid' + 1 /\ end' = end
      BY <2>1, <2>6 DEF Probe
    <3> QED BY <2>2, <2>4, <3>1
  <2>7. CASE rc' = 1
    <3>1. end' = mid' - 1 /\ beg' = beg
      BY <2>1, <2>7 DEF Probe
    <3> QED BY <2>2, <2>4, <3>1
  <2> QED BY <2>4, <2>5, <2>6, <2>7
<1> QED BY <1>1, SearchInitInv, SearchNextInv, PTL DEF SearchSpec, IntervalHalves

-----------------------------------------------------------------------------
(* What the search is to the tree.                                          *)

\* What the search sees of node n when it looks for key k.
ViewOf(n, k) ==
  [j \in 0..(Cnt[n] - 1) |->
     IF EntryKey(n, j) < k THEN -1 ELSE IF EntryKey(n, j) = k THEN 0 ELSE 1]

(* The keys of a node ascend.                                               *)
LEMMA EntriesAscend ==
  ASSUME NEW n \in Nodes
  PROVE  /\ Cnt[n] \in Nat
         /\ \A j \in Entries(n) : EntryKey(n, j) \in Int
         /\ \A i, j \in Entries(n) : i < j => EntryKey(n, i) < EntryKey(n, j)
<1>1. CASE Leaf(n)
  <2>1. /\ Lo[n] \in Nat /\ Cnt[n] \in Nat
        /\ \A k \in Entries(n) : /\ EntryKey(n, k) = RecKey[Lo[n] + k]
                                 /\ Lo[n] + k \in 1..N
                                 /\ EntryKey(n, k) \in Int
    BY <1>1, LeafFacts
  <2>2. \A i, j \in Entries(n) : i < j => Lo[n] + i < Lo[n] + j
    BY <2>1 DEF Entries
  <2> QED BY <2>1, <2>2, RecordsSorted
<1>2. CASE ~Leaf(n)
  <2>1. Cnt[n] \in Nat
    BY TreeTyped
  <2>2. \A k \in Entries(n) :
          /\ Kid[n][k] \in Nodes
          /\ Lo[Kid[n][k]] \in 1..N /\ Hi[Kid[n][k]] \in 1..N
          /\ Lo[Kid[n][k]] <= Hi[Kid[n][k]]
    <3> SUFFICES ASSUME NEW k \in Entries(n)
                 PROVE  /\ Kid[n][k] \in Nodes
                        /\ Lo[Kid[n][k]] \in 1..N /\ Hi[Kid[n][k]] \in 1..N
                        /\ Lo[Kid[n][k]] <= Hi[Kid[n][k]]
      OBVIOUS
    <3>1. Kid[n][k] \in Nodes \ {Root}
      BY <1>2, TreeNested
    <3>2. /\ 1 <= Lo[Kid[n][k]] /\ Hi[Kid[n][k]] <= N
          /\ Lo[Kid[n][k]] <= Hi[Kid[n][k]]
      BY <3>1, TreeCovers
    <3>3. Lo[Kid[n][k]] \in Nat /\ Hi[Kid[n][k]] \in Nat /\ N \in Nat
      BY <3>1, TreeTyped, RecordsSorted
    <3> QED BY <3>1, <3>2, <3>3
  <2>3. \A i, j \in Entries(n) : i < j => Hi[Kid[n][i]] < Lo[Kid[n][j]]
    BY <1>2, TreeNested
  <2>4. \A k \in Entries(n) : EntryKey(n, k) = RecKey[Lo[Kid[n][k]]]
    BY <1>2 DEF EntryKey, First
  <2>5. \A i, j \in Entries(n) : i < j => Lo[Kid[n][i]] < Lo[Kid[n][j]]
    BY <2>2, <2>3
  <2> QED BY <2>1, <2>2, <2>4, <2>5, RecordsSorted
<1> QED BY <1>1, <1>2

LEMMA ViewFacts ==
  ASSUME NEW n \in Nodes, NEW k \in Int
  PROVE  /\ ViewOf(n, k) \in NodeViews(Cnt[n])
         /\ \A j \in Entries(n) : /\ ViewOf(n, k)[j] = 0 <=> EntryKey(n, j) = k
                                  /\ ViewOf(n, k)[j] <= 0 <=> EntryKey(n, j) <= k
                                  /\ ViewOf(n, k)[j] >= 0 <=> EntryKey(n, j) >= k
<1> DEFINE c == ViewOf(n, k)
<1>1. /\ Cnt[n] \in Nat /\ Entries(n) = 0..(Cnt[n] - 1)
      /\ c \in [Entries(n) -> {-1, 0, 1}]
      /\ \A j \in Entries(n) :
           c[j] = IF EntryKey(n, j) < k THEN -1 ELSE IF EntryKey(n, j) = k THEN 0 ELSE 1
  BY EntriesAscend DEF ViewOf, Entries
<1>2. \A j \in Entries(n) : EntryKey(n, j) \in Int
  BY EntriesAscend
<1>3. \A i, j \in Entries(n) : i < j => EntryKey(n, i) < EntryKey(n, j)
  BY EntriesAscend
<1> HIDE DEF c
<1>4. \A j \in Entries(n) : /\ c[j] = 0 <=> EntryKey(n, j) = k
                            /\ c[j] <= 0 <=> EntryKey(n, j) <= k
                            /\ c[j] >= 0 <=> EntryKey(n, j) >= k
  BY <1>1, <1>2
<1>5. \A i, j \in Entries(n) :
        i < j => (c[j] <= 0 => c[i] = -1) /\ (c[i] >= 0 => c[j] = 1)
  BY <1>1, <1>2, <1>3
<1>6. c \in NodeViews(Cnt[n])
  BY <1>1, <1>5 DEF NodeViews
<1> QED BY <1>4, <1>6 DEF c

(* BTree::Lookup and BTree::GetIterator call FindBin for a node of the tree  *)
(* and a key, in modes EQ, LE and GE.  A node of the tree is one the search  *)
(* is right about, and its answer is exactly the one that module BTree goes  *)
(* on with.                                                                  *)
THEOREM SearchFinds ==
  ASSUME NEW n \in Nodes, NEW k \in Int
  PROVE  /\ ViewOf(n, k) \in NodeViews(Cnt[n])
         /\ SearchSpec =>
              [](/\ stage = "idle" /\ cnt = Cnt[n] /\ cmp = ViewOf(n, k)
                 /\ mode \in {"EQ", "LE", "GE"}
                 => Found(mode, n, k, res))
<1>1. ASSUME ResultCorrect, stage = "idle", cnt = Cnt[n], cmp = ViewOf(n, k),
             mode \in {"EQ", "LE", "GE"}
      PROVE  Found(mode, n, k, res)
  <2>1. Answers(mode, res)
    BY <1>1 DEF ResultCorrect
  <2>2. \A j \in Entries(n) : /\ cmp[j] = 0 <=> EntryKey(n, j) = k
                              /\ cmp[j] <= 0 <=> EntryKey(n, j) <= k
                              /\ cmp[j] >= 0 <=> EntryKey(n, j) >= k
    BY <1>1, ViewFacts
  <2>3. 0..(cnt - 1) = Entries(n)
    BY <1>1 DEF Entries
  <2>4. CASE mode = "EQ"
    BY <2>1, <2>2, <2>3, <2>4 DEF Answers, Wanted, Found
  <2>5. CASE mode = "LE"
    BY <2>1, <2>2, <2>3, <2>5 DEF Answers, Wanted, Found
  <2>6. CASE mode = "GE"
    BY <2>1, <2>2, <2>3, <2>6 DEF Answers, Wanted, Found
  <2> QED BY <1>1, <2>4, <2>5, <2>6
<1>2. ResultCorrect => (/\ stage = "idle" /\ cnt = Cnt[n] /\ cmp = ViewOf(n, k)
                        /\ mode \in {"EQ", "LE", "GE"}
                        => Found(mode, n, k, res))
  BY <1>1
<1>3. SearchSpec => [](/\ stage = "idle" /\ cnt = Cnt[n] /\ cmp = ViewOf(n, k)
                       /\ mode \in {"EQ", "LE", "GE"}
                       => Found(mode, n, k, res))
  BY <1>2, SearchCorrect, PTL
<1> QED BY <1>3, ViewFacts
=============================================================================
