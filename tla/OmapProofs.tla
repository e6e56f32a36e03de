----------------------------- MODULE OmapProofs -----------------------------
(***************************************************************************)
(* Proofs about OmapLookup, for trees of any size, shape and number: the   *)
(* binary search stays in its node whatever the node holds, and on a       *)
(* well-formed tree a lookup finds the newest version of the object.       *)
(***************************************************************************)
EXTENDS OmapLookup, TLAPS

(* Omap keys are totally ordered.                                          *)
LEMMA LessOrder ==
    /\ \A k, m \in Key : Less(k, m) \/ Less(m, k) \/ k = m
    /\ \A k, m \in Key : Less(k, m) => ~ Less(m, k) /\ k # m
    /\ \A k, m, q \in Key : Less(k, m) /\ Less(m, q) => Less(k, q)
BY DEF Less, Key

(* Two keys of one object are ordered as their transactions are.           *)
LEMMA LessVersions ==
    ASSUME NEW k \in Key, NEW m \in Key
    PROVE  /\ LessEq(k, m) /\ k.oid = m.oid => k.xid <= m.xid
           /\ LessEq(k, m) => k.oid <= m.oid
           /\ k.oid = m.oid /\ k.xid <= m.xid => LessEq(k, m)
BY DEF Less, LessEq, Key

(* The parts of a node the lookup reads have the types it relies on.       *)
LEMMA NodeTyped ==
    ASSUME IsTree(tree), NEW b \in tree.blocks
    PROVE  /\ NKeys(b) \in Nat
           /\ \A k \in 0 .. NKeys(b) - 1 : KeyAt(b, k) \in Key /\ ValAt(b, k) \in Kinds
           /\ IsLeaf(b) \in BOOLEAN
           /\ tree.under[b] \subseteq tree.blocks \X Nat
<1>1. tree.node[b] \in NodeType /\ Len(tree.node[b].vals) = Len(tree.node[b].keys)
  BY DEF IsTree
<1>2. tree.node[b].keys \in Seq(Key) /\ tree.node[b].vals \in Seq(Kinds)
  BY <1>1 DEF NodeType
<1> QED
  BY <1>1, <1>2 DEF NKeys, KeyAt, ValAt, IsLeaf, NodeType, IsTree

----------------------------------------------------------------------------
(* The search stays in bounds, in any tree.                                *)

BoundsInv ==
    /\ TypeOK /\ SearchInBounds
    /\ pc \in {"enter", "search", "found"} => depth <= MaxDepth

LEMMA MidBetween ==
    ASSUME NEW l \in Nat, NEW h \in Nat, l < h
    PROVE  /\ (l + h) \div 2 \in Nat /\ l <= (l + h) \div 2 /\ (l + h) \div 2 < h
OBVIOUS

LEMMA BoundsInit == Init => BoundsInv
BY TreesAssumption, WantedAssumption, DepthAssumption
   DEF Init, BoundsInv, TypeOK, SearchInBounds, IsTree

LEMMA BoundsNext == BoundsInv /\ [Next]_vars => BoundsInv'
<1> SUFFICES ASSUME BoundsInv, [Next]_vars PROVE BoundsInv'
    OBVIOUS
<1>n. cur \in tree.blocks /\ NKeys(cur) \in Nat /\ MaxDepth \in Nat
  BY NodeTyped, DepthAssumption DEF BoundsInv, TypeOK
<1> USE <1>n DEF BoundsInv, TypeOK, SearchInBounds, Results, NKeys
<1>1. CASE TooDeep       BY <1>1 DEF TooDeep
<1>2. CASE EnterNode     BY <1>2 DEF EnterNode
<1>3. CASE GoRight       BY <1>3, MidBetween DEF GoRight, Mid
<1>4. CASE GoLeft        BY <1>4, MidBetween DEF GoLeft, Mid
<1>5. CASE FoundExact    BY <1>5, MidBetween DEF FoundExact, Mid
<1>6. CASE FoundBefore   BY <1>6 DEF FoundBefore
<1>7. CASE NoChild       BY <1>7 DEF NoChild
<1>8. CASE LoadChild     BY <1>8 DEF LoadChild
<1>9. CASE ChildUnreadable  BY <1>9 DEF ChildUnreadable
<1>10. CASE Hit          BY <1>10 DEF Hit
<1>11. CASE Miss         BY <1>11 DEF Miss
<1>12. CASE LoadVirtual  BY <1>12 DEF LoadVirtual
<1>13. CASE OutOfBlock   BY <1>13 DEF OutOfBlock
<1>14. CASE UNCHANGED vars  BY <1>14 DEF vars
<1> QED
  BY <1>1, <1>2, <1>3, <1>4, <1>5, <1>6, <1>7, <1>8, <1>9, <1>10, <1>11, <1>12, <1>13, <1>14
     DEF Next, SearchNode, Descend, Lookup

(* btree.rs:227-243, in nodes of any content: no index outside the node.   *)
THEOREM SearchStaysInNode == Spec => []SearchInBounds
<1>1. BoundsInv => SearchInBounds
  BY DEF BoundsInv
<1> QED
  BY <1>1, BoundsInit, BoundsNext, PTL DEF Spec

(* Type correctness of the lookup.                                         *)
THEOREM TypeCorrect == Spec => []TypeOK
<1>1. BoundsInv => TypeOK
  BY DEF BoundsInv
<1> QED
  BY <1>1, BoundsInit, BoundsNext, PTL DEF Spec

----------------------------------------------------------------------------
(* The lookup is right, in a well-formed tree.                             *)

LeafKey(e) == EntryKey(tree, e)

(* What the binary search has excluded: keys below lo are below the wanted *)
(* key, keys from hi on are above it; the position it found splits the     *)
(* node in the same way.                                                   *)
SearchInv ==
    /\ pc = "search" =>
         /\ \A k \in 0 .. lo - 1 : Less(KeyAt(cur, k), want)
         /\ \A k \in hi .. NKeys(cur) - 1 : Less(want, KeyAt(cur, k))
    /\ pc \in {"found", "hit", "miss", "encrypted", "loaded"} =>
         /\ pos \in -1 .. NKeys(cur) - 1
         /\ pos # -1 => LessEq(KeyAt(cur, pos), want)
         /\ \A k \in pos + 1 .. NKeys(cur) - 1 : Less(want, KeyAt(cur, k))

(* No entry at or below the wanted key is lost on the way down: the        *)
(* current node has one that is at least as great.                         *)
CoverInv ==
    /\ tree.under[cur] \subseteq Entries
    /\ \A e \in Entries : LessEq(LeafKey(e), want) =>
          \E f \in tree.under[cur] : LessEq(LeafKey(e), LeafKey(f)) /\ LessEq(LeafKey(f), want)

(* Which results the leaf allows.                                          *)
ResultInv ==
    /\ pc \in {"hit", "encrypted", "loaded"} => IsLeaf(cur) /\ Mapped
    /\ pc = "miss" => IsLeaf(cur) /\ ~ Mapped

LookupInv == WellFormed(tree) => SearchInv /\ CoverInv /\ ResultInv

(* A well-formed node: ascending keys, and what is below it.               *)
LEMMA NodeFacts ==
    ASSUME IsTree(tree), WellFormed(tree), NEW b \in tree.blocks
    PROVE  /\ \A k, m \in 0 .. NKeys(b) - 1 : k < m => Less(KeyAt(b, k), KeyAt(b, m))
           /\ IsLeaf(b) => tree.under[b] = {<<b, k>> : k \in 0 .. NKeys(b) - 1}
           /\ ~ IsLeaf(b) =>
                /\ \A k \in 0 .. NKeys(b) - 1 :
                     /\ Child(b, k) \in tree.blocks
                     /\ tree.under[Child(b, k)] \subseteq tree.under[b]
                     /\ \E e \in tree.under[Child(b, k)] : LeafKey(e) = KeyAt(b, k)
                     /\ \A e \in tree.under[Child(b, k)] : LessEq(KeyAt(b, k), LeafKey(e))
                /\ \A e \in tree.under[b] : \E k \in 0 .. NKeys(b) - 1 :
                     /\ e \in tree.under[Child(b, k)]
                     /\ k < NKeys(b) - 1 => Less(LeafKey(e), KeyAt(b, k + 1))
<1>0. /\ NKeys(b) \in Nat
      /\ \A k \in 0 .. NKeys(b) - 1 : k + 1 \in 1 .. Len(tree.node[b].keys)
      /\ \A k \in 1 .. Len(tree.node[b].keys) : k - 1 \in 0 .. NKeys(b) - 1 /\ (k - 1) + 1 = k
  BY NodeTyped DEF NKeys
<1>1. \A k, m \in 0 .. NKeys(b) - 1 : k < m => Less(KeyAt(b, k), KeyAt(b, m))
  <2> SUFFICES ASSUME NEW k \in 0 .. NKeys(b) - 1, NEW m \in 0 .. NKeys(b) - 1, k < m
               PROVE  Less(KeyAt(b, k), KeyAt(b, m))
    OBVIOUS
  <2>1. k + 1 < m + 1
    OBVIOUS
  <2> QED  BY <1>0, <2>1 DEF WellFormed, KeyAt
<1>2. IsLeaf(b) => tree.under[b] = {<<b, k>> : k \in 0 .. NKeys(b) - 1}
  BY DEF WellFormed, IsLeaf, NKeys
<1>3. ASSUME ~ IsLeaf(b), NEW k \in 0 .. NKeys(b) - 1
      PROVE  /\ Child(b, k) \in tree.blocks
             /\ tree.under[Child(b, k)] \subseteq tree.under[b]
             /\ \E e \in tree.under[Child(b, k)] : LeafKey(e) = KeyAt(b, k)
             /\ \A e \in tree.under[Child(b, k)] : LessEq(KeyAt(b, k), LeafKey(e))
  BY <1>0, <1>3 DEF WellFormed, IsLeaf, Child, KeyAt, LeafKey
<1>4. ASSUME ~ IsLeaf(b), NEW e \in tree.under[b]
      PROVE  \E k \in 0 .. NKeys(b) - 1 :
               /\ e \in tree.under[Child(b, k)]
               /\ k < NKeys(b) - 1 => Less(LeafKey(e), KeyAt(b, k + 1))
  <2>1. PICK k \in 1 .. Len(tree.node[b].keys) :
           /\ e \in tree.under[tree.node[b].refs[k]]
           /\ k < Len(tree.node[b].keys) => Less(LeafKey(e), tree.node[b].keys[k + 1])
    BY <1>4 DEF WellFormed, IsLeaf, LeafKey
  <2>2. /\ Child(b, k - 1) = tree.node[b].refs[k]
        /\ k < Len(tree.node[b].keys) => KeyAt(b, (k - 1) + 1) = tree.node[b].keys[k + 1]
    BY <1>0 DEF Child, KeyAt
  <2>3. k - 1 < NKeys(b) - 1 => k < Len(tree.node[b].keys)
    BY <1>0 DEF NKeys
  <2> QED  BY <1>0, <2>1, <2>2, <2>3
<1> QED
  BY <1>1, <1>2, <1>3, <1>4

(* Entries have keys; those of a leaf are the leaf's.                      *)
LEMMA EntryKeys ==
    ASSUME IsTree(tree), WellFormed(tree), NEW b \in tree.blocks
    PROVE  /\ \A e \in tree.under[b] : LeafKey(e) \in Key
           /\ IsLeaf(b) => \A e \in tree.under[b] :
                 \E k \in 0 .. NKeys(b) - 1 : e = <<b, k>> /\ LeafKey(e) = KeyAt(b, k)
<1>1. ASSUME NEW e \in tree.under[b] PROVE LeafKey(e) \in Key
  <2>1. e[1] \in tree.blocks /\ e[2] \in Nat /\ e[2] < NKeys(e[1])
    BY NodeTyped DEF WellFormed, NKeys
  <2>2. KeyAt(e[1], e[2]) \in Key
    BY <2>1, NodeTyped
  <2> QED  BY <2>2 DEF LeafKey, EntryKey, KeyAt
<1>2. \A k \in 0 .. NKeys(b) - 1 : LeafKey(<<b, k>>) = KeyAt(b, k)
  BY DEF LeafKey, EntryKey, KeyAt
<1> QED
  BY <1>1, <1>2, NodeFacts

LEMMA LessEqOrder ==
    ASSUME NEW k \in Key, NEW m \in Key
    PROVE  /\ LessEq(k, m) \/ Less(m, k)
           /\ Less(m, k) => ~ LessEq(k, m)
           /\ Less(k, m) => LessEq(k, m)
           /\ \A q \in Key : LessEq(k, m) /\ LessEq(m, q) => LessEq(k, q)
           /\ \A q \in Key : Less(k, m) /\ LessEq(m, q) => Less(k, q)
BY LessOrder DEF LessEq

(* One comparison of the search excludes what it should.                   *)
LEMMA SearchStep ==
    ASSUME BoundsInv, WellFormed(tree), SearchInv, SearchNode
    PROVE  SearchInv'
<1>0. /\ cur \in tree.blocks /\ IsTree(tree) /\ want \in Key /\ NKeys(cur) \in Nat
      /\ \A k \in 0 .. NKeys(cur) - 1 : KeyAt(cur, k) \in Key
      /\ \A k, m \in 0 .. NKeys(cur) - 1 : k < m => Less(KeyAt(cur, k), KeyAt(cur, m))
  BY NodeTyped, NodeFacts DEF BoundsInv, TypeOK
<1>1. /\ UNCHANGED <<tree, want, cur>> /\ NKeys(cur)' = NKeys(cur)
      /\ \A k \in Int : KeyAt(cur, k)' = KeyAt(cur, k)
  BY DEF SearchNode, GoRight, GoLeft, FoundExact, FoundBefore, NKeys, KeyAt
<1>2. pc = "search" /\ lo \in Nat /\ hi \in Nat /\ lo <= hi /\ hi <= NKeys(cur)
  BY DEF BoundsInv, TypeOK, SearchInBounds, SearchNode, GoRight, GoLeft, FoundExact, FoundBefore
<1>3. lo < hi => Mid \in 0 .. NKeys(cur) - 1 /\ lo <= Mid /\ Mid < hi
  BY <1>0, <1>2, MidBetween DEF Mid
<1>4. CASE GoRight
  <2>1. \A k \in 0 .. Mid : Less(KeyAt(cur, k), want)
    BY <1>0, <1>3, <1>4, LessOrder DEF GoRight
  <2>2. lo' = Mid + 1 /\ hi' = hi /\ pc' = "search"
    BY <1>2, <1>4 DEF GoRight
  <2>3. \A k \in 0 .. lo' - 1 : k \in 0 .. Mid
    BY <1>3, <1>4, <2>2 DEF GoRight
  <2> QED  BY <1>1, <1>2, <2>1, <2>2, <2>3 DEF SearchInv
<1>5. CASE GoLeft
  <2>1. \A k \in Mid .. NKeys(cur) - 1 : Less(want, KeyAt(cur, k))
    BY <1>0, <1>3, <1>5, LessOrder DEF GoLeft
  <2>2. hi' = Mid /\ lo' = lo /\ pc' = "search"
    BY <1>2, <1>5 DEF GoLeft
  <2> QED  BY <1>1, <1>2, <2>1, <2>2 DEF SearchInv
<1>6. CASE FoundExact
  <2>1. \A k \in Mid + 1 .. NKeys(cur) - 1 : Less(want, KeyAt(cur, k))
    BY <1>0, <1>3, <1>6 DEF FoundExact
  <2>2. pos' = Mid /\ pc' = "found" /\ KeyAt(cur, Mid) = want /\ Mid \in 0 .. NKeys(cur) - 1
    BY <1>3, <1>6 DEF FoundExact
  <2> QED  BY <1>0, <1>1, <2>1, <2>2 DEF SearchInv, LessEq
<1>7. CASE FoundBefore
  <2>1. pos' = lo - 1 /\ pc' = "found" /\ lo = hi
    BY <1>7 DEF FoundBefore
  <2>2. lo # 0 => Less(KeyAt(cur, lo - 1), want)
    BY <1>2 DEF SearchInv
  <2>3. lo # 0 => LessEq(KeyAt(cur, lo - 1), want)
    BY <2>2 DEF LessEq
  <2>4. \A k \in lo .. NKeys(cur) - 1 : Less(want, KeyAt(cur, k))
    BY <1>2, <2>1 DEF SearchInv
  <2> QED  BY <1>0, <1>1, <1>2, <2>1, <2>3, <2>4 DEF SearchInv
<1> QED
  BY <1>4, <1>5, <1>6, <1>7 DEF SearchNode

(* Going to the child at the position loses no entry at or below `want`.   *)
LEMMA DescendStep ==
    ASSUME BoundsInv, WellFormed(tree), SearchInv, CoverInv, LoadChild
    PROVE  CoverInv'
<1>0. /\ cur \in tree.blocks /\ IsTree(tree) /\ want \in Key /\ NKeys(cur) \in Nat
      /\ \A k \in 0 .. NKeys(cur) - 1 : KeyAt(cur, k) \in Key
      /\ pc = "found" /\ ~ IsLeaf(cur) /\ ChildIndex \in 0 .. NKeys(cur) - 1
  BY NodeTyped DEF BoundsInv, TypeOK, SearchInBounds, LoadChild, ChildIndex
<1> DEFINE c == Child(cur, ChildIndex)
<1>1. /\ UNCHANGED <<tree, want>> /\ cur' = c /\ Entries' = Entries
      /\ \A e : LeafKey(e)' = LeafKey(e)
  BY DEF LoadChild, Entries, LeafKey, EntryKey
<1>2. c \in tree.blocks /\ tree.under[c] \subseteq tree.under[cur]
  BY <1>0, NodeFacts
<1>3. ASSUME NEW e \in tree.under[cur], LessEq(LeafKey(e), want)
      PROVE  \E f \in tree.under[c] : LessEq(LeafKey(e), LeafKey(f)) /\ LessEq(LeafKey(f), want)
  <2>1. PICK k \in 0 .. NKeys(cur) - 1 :
           /\ e \in tree.under[Child(cur, k)]
           /\ k < NKeys(cur) - 1 => Less(LeafKey(e), KeyAt(cur, k + 1))
    BY <1>0, NodeFacts
  <2>2. LeafKey(e) \in Key /\ LessEq(KeyAt(cur, k), LeafKey(e))
    BY <1>0, <2>1, NodeFacts, EntryKeys
  <2>3. LessEq(KeyAt(cur, k), want)
    BY <1>0, <1>3, <2>2, LessEqOrder
  <2>4. k <= pos /\ pos # -1 /\ ChildIndex = pos
    BY <1>0, <2>3, LessEqOrder DEF SearchInv, ChildIndex
  <2>5. CASE k = pos
    BY <1>3, <2>1, <2>4, <2>5 DEF LessEq
  <2>6. CASE k < pos
    <3>1. PICK f \in tree.under[c] : LeafKey(f) = KeyAt(cur, pos)
      BY <1>0, <2>4, NodeFacts
    <3>2. LessEq(KeyAt(cur, pos), want)
      BY <1>0, <2>4 DEF SearchInv
    <3>3. k + 1 \in 0 .. NKeys(cur) - 1 /\ pos \in 0 .. NKeys(cur) - 1 /\ k < NKeys(cur) - 1
      BY <1>0, <2>4, <2>6
    <3>4. k + 1 = pos \/ Less(KeyAt(cur, k + 1), KeyAt(cur, pos))
      BY <1>0, <2>4, <2>6, <3>3, NodeFacts
    <3>5. Less(LeafKey(e), KeyAt(cur, pos))
      BY <1>0, <2>1, <2>2, <3>3, <3>4, LessOrder
    <3> QED  BY <3>1, <3>2, <3>5 DEF LessEq
  <2> QED  BY <1>0, <2>4, <2>5, <2>6
<1>4. ASSUME NEW e \in Entries, LessEq(LeafKey(e), want)
      PROVE  \E f \in tree.under[c] : LessEq(LeafKey(e), LeafKey(f)) /\ LessEq(LeafKey(f), want)
  <2>1. PICK g \in tree.under[cur] : LessEq(LeafKey(e), LeafKey(g)) /\ LessEq(LeafKey(g), want)
    BY <1>4 DEF CoverInv
  <2>2. PICK f \in tree.under[c] : LessEq(LeafKey(g), LeafKey(f)) /\ LessEq(LeafKey(f), want)
    BY <1>3, <2>1
  <2>3. LeafKey(e) \in Key /\ LeafKey(g) \in Key /\ LeafKey(f) \in Key
    BY <1>0, <1>2, EntryKeys DEF Entries, IsTree
  <2> QED  BY <2>1, <2>2, <2>3, LessEqOrder
<1> QED
  BY <1>1, <1>2, <1>4 DEF CoverInv

LEMMA LookupInit == Init => LookupInv
<1> SUFFICES ASSUME Init, WellFormed(tree) PROVE SearchInv /\ CoverInv /\ ResultInv
    BY DEF LookupInv
<1>1. cur = tree.root /\ pc = "enter"
  BY DEF Init
<1>2. CoverInv
  BY <1>1 DEF CoverInv, Entries, LessEq
<1> QED  BY <1>1, <1>2 DEF SearchInv, ResultInv

(* Every step but a comparison and a descent keeps what the search and the *)
(* descent established.                                                    *)
LEMMA LookupNext == BoundsInv /\ LookupInv /\ [Next]_vars => LookupInv'
<1> SUFFICES ASSUME BoundsInv, LookupInv, [Next]_vars, WellFormed(tree)'
             PROVE  SearchInv' /\ CoverInv' /\ ResultInv'
    BY DEF LookupInv
<1>t. tree' = tree /\ want' = want
  BY DEF Next, vars, SearchNode, Descend, Lookup, TooDeep, EnterNode, GoRight, GoLeft, FoundExact,
         FoundBefore, NoChild, LoadChild, ChildUnreadable, OutOfBlock, Hit, Miss, LoadVirtual
<1>w. WellFormed(tree)
  BY <1>t DEF WellFormed, EntryKey
<1>i. SearchInv /\ CoverInv /\ ResultInv
  BY <1>w DEF LookupInv
<1>c. cur' = cur => CoverInv'
  BY <1>i, <1>t DEF CoverInv, Entries, LeafKey
<1>1. CASE SearchNode
  <2>1. cur' = cur /\ pc' \in {"search", "found"}
    BY <1>1 DEF SearchNode, GoRight, GoLeft, FoundExact, FoundBefore
  <2> QED  BY <1>1, <1>w, <1>i, <1>c, <2>1, SearchStep DEF ResultInv
<1>2. CASE LoadChild
  <2>1. pc' = "enter"
    BY <1>2 DEF LoadChild
  <2> QED  BY <1>2, <1>w, <1>i, <2>1, DescendStep DEF SearchInv, ResultInv
<1>3. CASE TooDeep \/ NoChild \/ ChildUnreadable \/ OutOfBlock
  <2>1. cur' = cur /\ pc' \in {"corrupt", "unreadable"}
    BY <1>3 DEF TooDeep, NoChild, ChildUnreadable, OutOfBlock
  <2> QED  BY <1>c, <2>1 DEF SearchInv, ResultInv
<1>4. CASE EnterNode
  <2>1. cur' = cur /\ pc' = "search" /\ lo' = 0 /\ hi' = NKeys(cur)
    BY <1>4 DEF EnterNode
  <2>2. NKeys(cur) \in Nat
    BY NodeTyped DEF BoundsInv, TypeOK
  <2>3. NKeys(cur)' = NKeys(cur)
    BY <1>t, <2>1 DEF NKeys
  <2>4. \A k \in 0 .. lo' - 1 : FALSE
    BY <2>1
  <2>5. \A k \in hi' .. NKeys(cur)' - 1 : FALSE
    BY <2>1, <2>2, <2>3
  <2> QED  BY <1>c, <2>1, <2>4, <2>5 DEF SearchInv, ResultInv
<1>5. CASE Hit \/ Miss \/ LoadVirtual \/ UNCHANGED vars
  <2>1. cur' = cur /\ pos' = pos /\ lo' = lo /\ hi' = hi
    BY <1>5 DEF Hit, Miss, LoadVirtual, vars
  <2>2. /\ NKeys(cur)' = NKeys(cur) /\ IsLeaf(cur)' = IsLeaf(cur) /\ Mapped' = Mapped
        /\ \A k \in Int : KeyAt(cur, k)' = KeyAt(cur, k)
    BY <1>t, <2>1 DEF NKeys, IsLeaf, Mapped, KeyAt, ValAt
  <2>3. \/ pc' = pc
        \/ pc = "found" /\ IsLeaf(cur) /\ ((pc' = "hit" /\ Mapped) \/ (pc' = "miss" /\ ~ Mapped))
        \/ pc = "hit" /\ pc' \in {"encrypted", "loaded", "unreadable"}
    BY <1>5 DEF Hit, Miss, LoadVirtual, vars
  <2>4. ResultInv'
    BY <1>i, <2>2, <2>3 DEF ResultInv
  <2>5. pos \in Int /\ NKeys(cur) \in Nat /\ lo \in Nat /\ hi \in Nat
    BY NodeTyped DEF BoundsInv, TypeOK
  <2>6. SearchInv'
    BY <1>i, <1>t, <2>1, <2>2, <2>3, <2>5 DEF SearchInv
  <2> QED  BY <1>c, <2>1, <2>4, <2>6
<1> QED
  BY <1>1, <1>2, <1>3, <1>4, <1>5 DEF Next, Descend, Lookup

(* At the leaf, every version of the object is at or below the entry found *)
(* and nothing lies between that entry and the wanted key.                 *)
LEMMA AtLeaf ==
    ASSUME BoundsInv, LookupInv, WellFormed(tree), IsLeaf(cur),
           pc \in {"hit", "miss", "encrypted", "loaded"}
    PROVE  /\ \A e \in Versions : pos # -1 /\ LessEq(LeafKey(e), KeyAt(cur, pos))
           /\ pos # -1 => /\ pos \in 0 .. NKeys(cur) - 1
                          /\ KeyAt(cur, pos) \in Key /\ LessEq(KeyAt(cur, pos), want)
                          /\ <<cur, pos>> \in Entries /\ LeafKey(<<cur, pos>>) = KeyAt(cur, pos)
           /\ \A e \in Entries : LeafKey(e) \in Key
           /\ want \in Key
<1>0. /\ cur \in tree.blocks /\ tree.root \in tree.blocks /\ IsTree(tree) /\ want \in Key
      /\ SearchInv /\ CoverInv /\ NKeys(cur) \in Nat
      /\ \A k \in 0 .. NKeys(cur) - 1 : KeyAt(cur, k) \in Key
  BY NodeTyped DEF BoundsInv, TypeOK, LookupInv, IsTree
<1>1. pos \in -1 .. NKeys(cur) - 1
  BY <1>0 DEF SearchInv
<1>2. \A e \in Entries : LeafKey(e) \in Key
  BY <1>0, EntryKeys DEF Entries
<1>3. ASSUME NEW e \in Versions
      PROVE  pos # -1 /\ LessEq(LeafKey(e), KeyAt(cur, pos))
  <2>1. e \in Entries /\ LeafKey(e) \in Key /\ LessEq(LeafKey(e), want)
    BY <1>0, <1>2, LessVersions DEF Versions, LeafKey
  <2>2. PICK f \in tree.under[cur] : LessEq(LeafKey(e), LeafKey(f)) /\ LessEq(LeafKey(f), want)
    BY <1>0, <2>1 DEF CoverInv
  <2>3. PICK k \in 0 .. NKeys(cur) - 1 : f = <<cur, k>> /\ LeafKey(f) = KeyAt(cur, k)
    BY <1>0, EntryKeys
  <2>4. LessEq(KeyAt(cur, k), want) /\ KeyAt(cur, k) \in Key
    BY <1>0, <2>2, <2>3
  <2>5. ~ Less(want, KeyAt(cur, k))
    BY <1>0, <2>4, LessEqOrder
  <2>6. k <= pos
    BY <1>0, <1>1, <2>5 DEF SearchInv
  <2>7. pos \in 0 .. NKeys(cur) - 1
    BY <1>0, <1>1, <2>6
  <2>8. LessEq(KeyAt(cur, k), KeyAt(cur, pos))
    BY <1>0, <2>6, <2>7, NodeFacts DEF LessEq
  <2> QED  BY <1>0, <2>1, <2>2, <2>3, <2>7, <2>8, LessEqOrder
<1>4. ASSUME pos # -1
      PROVE  /\ pos \in 0 .. NKeys(cur) - 1
             /\ KeyAt(cur, pos) \in Key /\ LessEq(KeyAt(cur, pos), want)
             /\ <<cur, pos>> \in Entries /\ LeafKey(<<cur, pos>>) = KeyAt(cur, pos)
  <2>1. pos \in 0 .. NKeys(cur) - 1
    BY <1>0, <1>1, <1>4
  <2>2. <<cur, pos>> \in tree.under[cur]
    BY <1>0, <2>1, NodeFacts
  <2> QED  BY <1>0, <1>4, <2>1, <2>2 DEF SearchInv, CoverInv, LeafKey, EntryKey, KeyAt
<1> QED  BY <1>0, <1>2, <1>3, <1>4

LEMMA HitNewest == BoundsInv /\ LookupInv => HitIsNewestVersion
<1> SUFFICES ASSUME BoundsInv, LookupInv, WellFormed(tree), pc \in {"hit", "encrypted", "loaded"}
             PROVE  /\ <<cur, pos>> \in Versions
                    /\ \A e \in Versions : EntryKey(tree, e).xid <= KeyAt(cur, pos).xid
    BY DEF HitIsNewestVersion
<1>1. IsLeaf(cur) /\ pos # -1 /\ KeyAt(cur, pos).oid = want.oid
  BY DEF LookupInv, ResultInv, Mapped
<1>2. KeyAt(cur, pos) \in Key /\ want \in Key /\ KeyAt(cur, pos).xid <= want.xid
  BY <1>1, AtLeaf, LessVersions
<1>3. <<cur, pos>> \in Versions
  BY <1>1, <1>2, AtLeaf DEF Versions, LeafKey
<1>4. ASSUME NEW e \in Versions PROVE EntryKey(tree, e).xid <= KeyAt(cur, pos).xid
  <2>1. LeafKey(e) \in Key /\ LessEq(LeafKey(e), KeyAt(cur, pos)) /\ LeafKey(e).oid = want.oid
    BY <1>1, AtLeaf DEF Versions, LeafKey
  <2> QED  BY <1>1, <1>2, <2>1, LessVersions DEF LeafKey
<1> QED  BY <1>3, <1>4

LEMMA MissAbsent == BoundsInv /\ LookupInv => MissIsAbsent
<1> SUFFICES ASSUME BoundsInv, LookupInv, WellFormed(tree), pc = "miss", Versions # {}
             PROVE  \E e \in Versions :
                       /\ tree.node[e[1]].vals[e[2] + 1] \in {"deleted", "ghost"}
                       /\ \A f \in Versions : EntryKey(tree, f).xid <= EntryKey(tree, e).xid
    BY DEF MissIsAbsent
<1>1. IsLeaf(cur) /\ ~ Mapped
  BY DEF LookupInv, ResultInv
<1>2. PICK v \in Versions : TRUE
  OBVIOUS
<1>3. /\ pos # -1 /\ KeyAt(cur, pos) \in Key /\ want \in Key
      /\ LessEq(KeyAt(cur, pos), want) /\ LessEq(LeafKey(v), KeyAt(cur, pos))
      /\ LeafKey(v) \in Key /\ LeafKey(v).oid = want.oid
      /\ <<cur, pos>> \in Entries /\ LeafKey(<<cur, pos>>) = KeyAt(cur, pos)
      /\ pos \in 0 .. NKeys(cur) - 1
  BY <1>1, <1>2, AtLeaf DEF Versions, LeafKey
<1>4. KeyAt(cur, pos).oid = want.oid
  <2>1. LeafKey(v).oid <= KeyAt(cur, pos).oid /\ KeyAt(cur, pos).oid <= want.oid
    BY <1>3, LessVersions
  <2> QED  BY <1>3, <2>1 DEF Key
<1>5. KeyAt(cur, pos).xid <= want.xid
  BY <1>3, <1>4, LessVersions
<1>6. <<cur, pos>> \in Versions
  BY <1>3, <1>4, <1>5 DEF Versions, LeafKey
<1>7. ValAt(cur, pos) \in {"deleted", "ghost"}
  <2>1. ValAt(cur, pos) \in Kinds
    BY <1>3, NodeTyped DEF BoundsInv, TypeOK
  <2> QED  BY <1>1, <1>3, <1>4, <2>1 DEF Mapped, Kinds
<1>8. ASSUME NEW f \in Versions PROVE EntryKey(tree, f).xid <= EntryKey(tree, <<cur, pos>>).xid
  <2>1. LeafKey(f) \in Key /\ LessEq(LeafKey(f), KeyAt(cur, pos)) /\ LeafKey(f).oid = want.oid
    BY <1>1, AtLeaf DEF Versions, LeafKey
  <2> QED  BY <1>3, <1>4, <2>1, LessVersions DEF LeafKey
<1> QED
  BY <1>6, <1>7, <1>8 DEF ValAt

LEMMA LookupInvariant == Spec => [](BoundsInv /\ LookupInv)
BY BoundsInit, BoundsNext, LookupInit, LookupNext, PTL DEF Spec

(* omap.rs:40-41, for every well-formed tree: a hit is the newest version. *)
THEOREM NewestVersion == Spec => []HitIsNewestVersion
BY LookupInvariant, HitNewest, PTL

(* omap.rs:55-76, for every well-formed tree: a miss loses no version.     *)
THEOREM NothingMissed == Spec => []MissIsAbsent
BY LookupInvariant, MissAbsent, PTL
=============================================================================
