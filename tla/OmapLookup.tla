----------------------------- MODULE OmapLookup -----------------------------
(***************************************************************************)
(* Resolving a virtual object (crates/apfs-core/src/omap.rs, lookup and    *)
(* load_virtual, over search_node and descend_to_leaf of btree.rs): a      *)
(* descent from the root of the object map's B-tree, one binary search per *)
(* node, to the mapping of `oid` with the greatest transaction <= `xid`.   *)
(*                                                                         *)
(* The tree is what the disk holds: it need not be well formed, nodes may  *)
(* refer to each other in a circle or to blocks that are no nodes, and any *)
(* block can fail to load.                                                 *)
(***************************************************************************)
EXTENDS Integers, Sequences

CONSTANTS
    Nodes,      \* the blocks that hold B-tree nodes, and other blocks
    Trees,      \* the trees to look up in
    Wanted,     \* the keys to look up
    MaxDepth    \* non-leaf levels allowed (16 in btree.rs:265)

\* An omap key is ordered by object, then by transaction (omap.rs:47-52).
Key == [oid : Nat, xid : Nat]

Less(k, m) == k.oid < m.oid \/ (k.oid = m.oid /\ k.xid < m.xid)
LessEq(k, m) == k = m \/ Less(k, m)

(***************************************************************************)
(* A tree: `node` gives, for every block that parses as a node, whether it *)
(* is a leaf, its keys, and for each key its child (a block) or the kind   *)
(* of its value.  `under` is the set of leaf entries <<leaf, index>> below *)
(* a node; the code does not use it, the properties do.                    *)
(***************************************************************************)
Kinds == {"live", "encrypted", "deleted", "ghost"}

NodeType ==
    [leaf : BOOLEAN, keys : Seq(Key), refs : Seq(Nodes), vals : Seq(Kinds)]

IsTree(t) ==
    /\ t.blocks \subseteq Nodes /\ t.root \in t.blocks
    /\ t.node \in [t.blocks -> NodeType]
    /\ t.under \in [t.blocks -> SUBSET (t.blocks \X Nat)]
    /\ \A b \in t.blocks :
          /\ Len(t.node[b].refs) = Len(t.node[b].keys)
          /\ Len(t.node[b].vals) = Len(t.node[b].keys)

ASSUME TreesAssumption == \A t \in Trees : IsTree(t)
ASSUME WantedAssumption == Wanted \subseteq Key
ASSUME DepthAssumption == MaxDepth \in Nat

VARIABLES
    tree,     \* the tree on disk
    want,     \* the key looked up: (oid, xid)
    cur,      \* the node being searched
    depth,    \* non-leaf nodes entered so far
    lo, hi,   \* the bounds of the binary search
    pos,      \* the position it found, -1 for Before(None)
    pc        \* "enter", "search", "found", or the result

vars == <<tree, want, cur, depth, lo, hi, pos, pc>>

\* Keys are numbered from 0, as in the code.
NKeys(b)   == Len(tree.node[b].keys)
KeyAt(b, k) == tree.node[b].keys[k + 1]
ValAt(b, k) == tree.node[b].vals[k + 1]
Child(b, k) == tree.node[b].refs[k + 1]
IsLeaf(b)  == tree.node[b].leaf

Results == {"hit", "miss", "corrupt", "unreadable", "encrypted", "loaded"}

Init ==
    /\ tree \in Trees /\ want \in Wanted
    /\ cur = tree.root /\ depth = 0
    /\ lo = 0 /\ hi = 0 /\ pos = -1
    /\ pc = "enter"

----------------------------------------------------------------------------
(* descend_to_leaf: the head of its loop.                                  *)
TooDeep ==
    /\ pc = "enter" /\ ~ IsLeaf(cur) /\ depth + 1 > MaxDepth
    /\ pc' = "corrupt" /\ depth' = depth + 1
    /\ UNCHANGED <<tree, want, cur, lo, hi, pos>>

\* Mutated: one level too many is entered.
EnterDeeper ==
    /\ pc = "enter"
    /\ IF IsLeaf(cur) THEN depth' = depth
                      ELSE depth + 1 <= MaxDepth + 1 /\ depth' = depth + 1
    /\ lo' = 0 /\ hi' = NKeys(cur)
    /\ pc' = "search"
    /\ UNCHANGED <<tree, want, cur, pos>>

\* Mutated: levels are not counted.
EnterUncounted ==
    /\ pc = "enter"
    /\ lo' = 0 /\ hi' = NKeys(cur)
    /\ pc' = "search"
    /\ UNCHANGED <<tree, want, cur, depth, pos>>

EnterNode ==
    /\ pc = "enter"
    /\ IF IsLeaf(cur) THEN depth' = depth
                      ELSE depth + 1 <= MaxDepth /\ depth' = depth + 1
    /\ lo' = 0 /\ hi' = NKeys(cur)
    /\ pc' = "search"
    /\ UNCHANGED <<tree, want, cur, pos>>

(* search_node: one comparison per step.                                   *)
Mid == (lo + hi) \div 2

GoRight ==
    /\ pc = "search" /\ lo < hi /\ Less(KeyAt(cur, Mid), want)
    /\ lo' = Mid + 1
    /\ UNCHANGED <<tree, want, cur, depth, hi, pos, pc>>

GoLeft ==
    /\ pc = "search" /\ lo < hi /\ Less(want, KeyAt(cur, Mid))
    /\ hi' = Mid
    /\ UNCHANGED <<tree, want, cur, depth, lo, pos, pc>>

\* SearchPos::Found(mid)
FoundExact ==
    /\ pc = "search" /\ lo < hi /\ KeyAt(cur, Mid) = want
    /\ pos' = Mid /\ pc' = "found"
    /\ UNCHANGED <<tree, want, cur, depth, lo, hi>>

\* Mutated: the position after the greatest smaller key.
FoundAfter ==
    /\ pc = "search" /\ lo = hi
    /\ pos' = lo /\ pc' = "found"
    /\ UNCHANGED <<tree, want, cur, depth, lo, hi>>

\* SearchPos::Before(None) is -1, Before(Some(p)) is p.
FoundBefore ==
    /\ pc = "search" /\ lo = hi
    /\ pos' = lo - 1 /\ pc' = "found"
    /\ UNCHANGED <<tree, want, cur, depth, lo, hi>>

\* Mutated: the child before the position, as a range scan takes it.
ChildBefore == IF pos <= 0 THEN 0 ELSE pos - 1

(* The rest of the loop: the child at the position, the first child if the *)
(* target sorts before every key.                                          *)
ChildIndex == IF pos = -1 THEN 0 ELSE pos

\* A node without keys has no child 0; a child value may be a ghost.
NoChild ==
    /\ pc = "found" /\ ~ IsLeaf(cur)
    /\ \/ ChildIndex >= NKeys(cur)
       \/ ChildIndex < NKeys(cur) /\ ValAt(cur, ChildIndex) = "ghost"
    /\ pc' = "corrupt"
    /\ UNCHANGED <<tree, want, cur, depth, lo, hi, pos>>

LoadChild ==
    /\ pc = "found" /\ ~ IsLeaf(cur)
    /\ ChildIndex < NKeys(cur) /\ ValAt(cur, ChildIndex) # "ghost"
    /\ Child(cur, ChildIndex) \in tree.blocks
    /\ cur' = Child(cur, ChildIndex)
    /\ pc' = "enter"
    /\ UNCHANGED <<tree, want, depth, lo, hi, pos>>

\* The child's block does not read, fails its checksum or is no node.
ChildUnreadable ==
    /\ pc = "found" /\ ~ IsLeaf(cur)
    /\ ChildIndex < NKeys(cur) /\ ValAt(cur, ChildIndex) # "ghost"
    /\ pc' = "unreadable"
    /\ UNCHANGED <<tree, want, cur, depth, lo, hi, pos>>

\* Node::toc_entry, key, value and slice: the table of contents, a key or a
\* value lies outside the block.
OutOfBlock ==
    /\ \/ pc = "search" /\ lo < hi
       \/ pc = "found" /\ ChildIndex < NKeys(cur) /\ (IsLeaf(cur) => pos # -1)
    /\ pc' = "corrupt"
    /\ UNCHANGED <<tree, want, cur, depth, lo, hi, pos>>

\* Mutated: the entry found may belong to another object.
MappedAny == pos # -1 /\ ValAt(cur, pos) \in {"live", "encrypted"}

(* lookup, on the leaf.                                                    *)
Mapped ==
    /\ pos # -1
    /\ KeyAt(cur, pos).oid = want.oid
    /\ ValAt(cur, pos) \in {"live", "encrypted"}

Hit ==
    /\ pc = "found" /\ IsLeaf(cur) /\ Mapped
    /\ pc' = "hit"
    /\ UNCHANGED <<tree, want, cur, depth, lo, hi, pos>>

Miss ==
    /\ pc = "found" /\ IsLeaf(cur) /\ ~ Mapped
    /\ pc' = "miss"
    /\ UNCHANGED <<tree, want, cur, depth, lo, hi, pos>>

\* load_virtual: the object the mapping names.
LoadVirtual ==
    /\ pc = "hit"
    /\ IF ValAt(cur, pos) = "encrypted"
         THEN pc' = "encrypted"
         ELSE pc' \in {"loaded", "unreadable"}
    /\ UNCHANGED <<tree, want, cur, depth, lo, hi, pos>>

SearchNode == GoRight \/ GoLeft \/ FoundExact \/ FoundBefore
Descend == TooDeep \/ EnterNode \/ NoChild \/ LoadChild \/ ChildUnreadable \/ OutOfBlock
Lookup == Hit \/ Miss \/ LoadVirtual

Next == SearchNode \/ Descend \/ Lookup

\* A lookup runs on the caller's thread until it returns.
Spec == Init /\ [][Next]_vars /\ WF_vars(Next)

----------------------------------------------------------------------------
(* What the container guarantees of the trees it wrote, and what a lookup  *)
(* then returns.                                                           *)

EntryKey(t, e) == t.node[e[1]].keys[e[2] + 1]

(* Keys ascend in every node; the entries below child k lie between key k  *)
(* and key k+1, and key k is the smallest of them: "APFS non-leaf nodes    *)
(* always include their subtree's smallest key" (btree.rs:271).            *)
WellFormed(t) ==
    \A b \in t.blocks :
        LET n == t.node[b] IN
        /\ \A k, m \in 1 .. Len(n.keys) : k < m => Less(n.keys[k], n.keys[m])
        /\ \A e \in t.under[b] : e[2] < Len(t.node[e[1]].keys)
        /\ n.leaf => t.under[b] = {<<b, k>> : k \in 0 .. Len(n.keys) - 1}
        /\ ~ n.leaf =>
             /\ Len(n.keys) > 0
             /\ \A k \in 1 .. Len(n.keys) :
                  /\ n.refs[k] \in t.blocks /\ n.vals[k] # "ghost"
                  /\ t.under[n.refs[k]] \subseteq t.under[b]
                  /\ \E e \in t.under[n.refs[k]] : EntryKey(t, e) = n.keys[k]
                  /\ \A e \in t.under[n.refs[k]] : LessEq(n.keys[k], EntryKey(t, e))
             /\ \A e \in t.under[b] : \E k \in 1 .. Len(n.keys) :
                  /\ e \in t.under[n.refs[k]]
                  /\ k < Len(n.keys) => Less(EntryKey(t, e), n.keys[k + 1])

Entries == tree.under[tree.root]
Versions == {e \in Entries : EntryKey(tree, e).oid = want.oid
                             /\ EntryKey(tree, e).xid <= want.xid}

(* Type invariant of the lookup.                                           *)
TypeOK ==
    /\ IsTree(tree) /\ want \in Key
    /\ cur \in tree.blocks
    /\ depth \in 0 .. MaxDepth + 1
    /\ lo \in Nat /\ hi \in Nat /\ pos \in Int
    /\ pc \in {"enter", "search", "found"} \cup Results

(* "Find the mapping for oid valid at xid (greatest entry with the same    *)
(* oid and entry.xid <= xid)" (omap.rs:40-41): what a hit returns is in    *)
(* the tree, belongs to the object and is its newest version at xid.       *)
HitIsNewestVersion ==
    WellFormed(tree) /\ pc \in {"hit", "encrypted", "loaded"} =>
        /\ <<cur, pos>> \in Versions
        /\ \A e \in Versions : EntryKey(tree, e).xid <= KeyAt(cur, pos).xid

(* A miss is reported only if the object has no version at xid, or its     *)
(* newest one is deleted or has no value (omap.rs:55-76).                  *)
MissIsAbsent ==
    WellFormed(tree) /\ pc = "miss" =>
        \/ Versions = {}
        \/ \E e \in Versions :
              /\ tree.node[e[1]].vals[e[2] + 1] \in {"deleted", "ghost"}
              /\ \A f \in Versions : EntryKey(tree, f).xid <= EntryKey(tree, e).xid

(* Every lookup returns, in whatever tree: the depth bound cuts circles of *)
(* nodes (btree.rs:264-267; docs/ARCHITECTURE.md:75-79).                   *)
LookupReturns == <>(pc \in Results \ {"hit"})

(* The search never reads a key outside the node, also when the keys are   *)
(* not in order, so a corrupt node is never reported as an index error and *)
(* never misses its last key (btree.rs:227-243).                           *)
SearchInBounds ==
    pc \in {"search", "found"} =>
        /\ 0 <= lo /\ lo <= hi /\ hi <= NKeys(cur)
        /\ pc = "found" => pos \in -1 .. NKeys(cur) - 1
=============================================================================
