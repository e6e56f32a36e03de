--------------------------- MODULE InjectorProofs ---------------------------
(***************************************************************************)
(* Proofs about the injector, for an image of any size and layout: what    *)
(* its allocator takes, that a serialized node reads back, that the space  *)
(* of an image stays accounted, and that its trees stay sound, after any   *)
(* number of injections.                                                   *)
(***************************************************************************)
EXTENDS Fixture, SequenceTheorems, FiniteSetTheorems, WellFoundedInduction, TLAPS

AllBlocks == 0 .. Blocks - 1

\* An image whose counts are right; another file has none.
Counted(d) == d.kind = "container" =>
    /\ d = [f \in Fields |-> d[f]]
    /\ d.used \subseteq AllBlocks /\ d.devFree = d.chunkFree
    /\ d.chunkFree = Cardinality(AllBlocks \ d.used)

\* The blocks of the i-th allocation.
Blk(i) == Marked(blk[i], Wanted[i])

BlkOK == blk \in Seq(AllBlocks) /\ Len(blk) <= Len(Wanted)

(* Every allocation so far is of blocks that the image on disk has free,   *)
(* and no two of them share a block.                                       *)
NothingShared ==
    pc # "idle" =>
        /\ \A i \in 1 .. Len(blk) : Blk(i) \subseteq AllBlocks \ disk.used
        /\ \A i, j \in 1 .. Len(blk) : i < j => Blk(i) \cap Blk(j) = {}

\* The copy has the blocks in use that the disk has, and the allocations.
UsedGrows ==
    pc # "idle" =>
        /\ disk.used \subseteq img.used
        /\ \A i \in 1 .. Len(blk) : Blk(i) \subseteq img.used

IInv ==
    /\ Counted(disk) /\ Counted(img) /\ (pc # "idle" => img.kind = "container")
    /\ BlkOK /\ NothingShared /\ UsedGrows

\* What is asked for is a positive number of blocks.
LEMMA WantedPositive == Len(Wanted) = 6 /\ \A i \in 1 .. 6 : Wanted[i] \in Nat \ {0}
<1> DEFINE r == RsrcBlocks
           w == <<1, 1, 2, 1, 2, r>>
<1>1. r \in Nat \ {0}
  BY BlocksAssumption
<1> HIDE DEF r
<1>2. Len(w) = 6
  OBVIOUS
<1>3. w[1] = 1 /\ w[2] = 1 /\ w[3] = 2 /\ w[4] = 1 /\ w[5] = 2 /\ w[6] = r
  OBVIOUS
<1> HIDE DEF w
<1>4. \A i \in 1 .. 6 : w[i] \in Nat \ {0}
  BY <1>1, <1>3, SMT
<1> QED
  BY <1>2, <1>4 DEF Wanted, w, r

\* Taking a run of n free blocks leaves n fewer.
LEMMA RunCounted ==
    ASSUME NEW used \in SUBSET AllBlocks, NEW n \in Nat \ {0}, NEW s \in Runs(used, n)
    PROVE  /\ s \in AllBlocks /\ Marked(s, n) \subseteq AllBlocks \ used
           /\ Cardinality(AllBlocks \ (used \cup Marked(s, n)))
                = Cardinality(AllBlocks \ used) - n
<1>1. /\ Blocks \in Nat /\ s \in 0 .. Blocks - n /\ s .. s + n - 1 \cap used = {}
  BY BlocksAssumption DEF Runs
<1>2. s \in AllBlocks /\ Marked(s, n) \subseteq AllBlocks
  BY <1>1, SMT DEF AllBlocks, Marked
<1>3. Marked(s, n) \subseteq AllBlocks \ used
  BY <1>1, <1>2, Zenon DEF Marked
<1>4. IsFiniteSet(Marked(s, n)) /\ Cardinality(Marked(s, n)) = n
  <2>1. s \in Int /\ s + n - 1 \in Int /\ ~ (s > s + n - 1) /\ (s + n - 1) - s + 1 = n
    BY <1>1, SMT
  <2> QED
    BY <2>1, FS_Interval, Zenon DEF Marked
<1>5. IsFiniteSet(AllBlocks)
  BY <1>1, FS_Interval, SMT DEF AllBlocks
<1>6. IsFiniteSet(AllBlocks \ used)
  BY <1>5, FS_Difference
<1>7. AllBlocks \ (used \cup Marked(s, n)) = (AllBlocks \ used) \ Marked(s, n)
  OBVIOUS
<1>8. (AllBlocks \ used) \cap Marked(s, n) = Marked(s, n)
  BY <1>3
<1> QED
  BY <1>2, <1>3, <1>4, <1>6, <1>7, <1>8, FS_Difference

\* A run that ends leaves nothing behind.
LEMMA EndInvariant ==
    ASSUME NEW how, Ends(how), Counted(disk')
    PROVE  IInv'
<1>1. Counted(img')
  BY DEF Ends, NoImage, Counted
<1>2. pc' = "idle" /\ blk' = <<>>
  BY DEF Ends
<1>3. BlkOK'
  BY <1>2, WantedPositive, SMT DEF BlkOK
<1> QED
  BY <1>1, <1>2, <1>3 DEF IInv, NothingShared, UsedGrows

\* A step that changes neither the bitmap nor the counts keeps the invariant.
LEMMA QuietStep ==
    ASSUME IInv, pc # "idle", UNCHANGED <<disk, blk>>, Counted(img'),
           img'.kind = img.kind, img'.used = img.used
    PROVE  IInv'
BY DEF IInv, BlkOK, NothingShared, UsedGrows, Blk

\* Writing fields of an image.
LEMMA CountFields ==
    /\ {"used", "kind", "chunkFree", "devFree", "stale", "content", "tree", "refs"} \subseteq Fields
    /\ {"next", "files", "dirs", "links", "allocCount", "alloced"} \subseteq Fields
BY SMT DEF Fields

LEMMA TreeWritten ==
    ASSUME IInv, pc # "idle", UNCHANGED <<disk, blk>>, NEW t, NEW x,
           \/ img' = [img EXCEPT !.tree = t, !.stale = x]
           \/ img' = [img EXCEPT !.refs = t, !.stale = x]
    PROVE  IInv'
<1>1. Counted(img) /\ img.kind = "container" /\ img = [f \in Fields |-> img[f]]
  BY DEF IInv, Counted
<1>2. /\ img'.kind = img.kind /\ img'.used = img.used
      /\ img'.chunkFree = img.chunkFree /\ img'.devFree = img.devFree
      /\ img' = [f \in Fields |-> img'[f]]
  <2>1. CASE img' = [img EXCEPT !.tree = t, !.stale = x]
    BY <1>1, <2>1, CountFields
  <2>2. CASE img' = [img EXCEPT !.refs = t, !.stale = x]
    BY <1>1, <2>2, CountFields
  <2> QED
    BY <2>1, <2>2
<1> QED
  BY <1>1, <1>2, QuietStep DEF Counted

LEMMA InitInvariant == FixtureInit => IInv
<1> SUFFICES ASSUME FixtureInit PROVE IInv
  OBVIOUS
<1>1. Counted(disk)
  BY FormattedAssumption DEF FixtureInit, Counted, AllBlocks
<1>2. Counted(img) /\ pc = "idle" /\ blk = <<>>
  BY DEF FixtureInit, Counted, NoImage
<1>3. BlkOK
  BY <1>2, WantedPositive, SMT DEF BlkOK
<1> QED
  BY <1>1, <1>2, <1>3 DEF IInv, NothingShared, UsedGrows

\* alloc_blocks
LEMMA AllocInvariant ==
    ASSUME IInv, AllocBlocks
    PROVE  IInv'
<1> DEFINE n == Wanted[Len(blk) + 1]
           free == Runs(img.used, n)
<1>1. disk' = disk /\ pc = "alloc" /\ Counted(disk') /\ Len(blk) < Len(Wanted)
  BY DEF AllocBlocks, IInv
<1>2. CASE free = {}
  <2>1. Ends("panic")
    BY <1>2, Zenon DEF AllocBlocks
  <2> QED
    BY <1>1, <2>1, EndInvariant
<1>3. CASE free # {}
  <2>1. PICK s \in free :
        /\ img' = [img EXCEPT !.used = @ \cup Marked(s, n),
                              !.chunkFree = @ - n, !.devFree = @ - n,
                              !.stale = Fixed({"chunk", "spaceman"}, FixedByAlloc)]
        /\ blk' = Append(blk, s) /\ pc' = pc
    BY <1>3, Zenon DEF AllocBlocks
  <2>2. n \in Nat \ {0}
    <3>1. Len(blk) \in Nat
      BY SMT DEF IInv, BlkOK
    <3>2. Len(blk) + 1 \in 1 .. Len(Wanted)
      BY <1>1, <3>1, WantedPositive, SMT
    <3> HIDE DEF n
    <3> QED
      BY <3>2, WantedPositive DEF n
  <2>3. /\ img = [f \in Fields |-> img[f]] /\ img.used \subseteq AllBlocks
        /\ img.devFree = img.chunkFree /\ img.kind = "container"
        /\ img.chunkFree = Cardinality(AllBlocks \ img.used)
    BY <1>1 DEF IInv, Counted
  <2>4. /\ s \in AllBlocks /\ Marked(s, n) \subseteq AllBlocks \ img.used
        /\ Cardinality(AllBlocks \ (img.used \cup Marked(s, n)))
             = Cardinality(AllBlocks \ img.used) - n
    <3>1. s \in Runs(img.used, n) /\ img.used \in SUBSET AllBlocks
      BY <2>1, <2>3
    <3> HIDE DEF n
    <3> QED
      BY <2>2, <3>1, RunCounted
  <2> HIDE DEF n, free
  <2>5. /\ img'.used = img.used \cup Marked(s, n) /\ img'.kind = img.kind
        /\ img'.chunkFree = img.chunkFree - n /\ img'.devFree = img.devFree - n
        /\ img' = [f \in Fields |-> img'[f]]
    BY <2>1, <2>3, CountFields
  <2>6. Counted(img')
    BY <2>3, <2>4, <2>5 DEF Counted
  <2>7. /\ blk \in Seq(AllBlocks) /\ blk' \in Seq(AllBlocks) /\ Len(blk') = Len(blk) + 1
        /\ \A i \in 1 .. Len(blk) : blk'[i] = blk[i]
        /\ blk'[Len(blk')] = s /\ Len(blk') <= Len(Wanted)
    BY <1>1, <2>1, <2>4, WantedPositive, SMT DEF IInv, BlkOK
  <2>8. /\ \A i \in 1 .. Len(blk) : Blk(i)' = Blk(i)
        /\ \A i \in 1 .. Len(blk') : i \notin 1 .. Len(blk) => Blk(i)' = Marked(s, n)
    <3>1. \A i \in 1 .. Len(blk) : Blk(i)' = Blk(i)
      BY <2>7 DEF Blk
    <3>2. ASSUME NEW i \in 1 .. Len(blk'), i \notin 1 .. Len(blk)
          PROVE  Blk(i)' = Marked(s, n)
      <4>1. i = Len(blk) + 1 /\ i = Len(blk')
        BY <2>7, <3>2, SMT
      <4> QED
        BY <2>7, <4>1 DEF Blk, n
    <3> QED
      BY <3>1, <3>2
  <2>9. /\ disk.used \subseteq img.used
        /\ \A i \in 1 .. Len(blk) : Blk(i) \subseteq img.used /\ Blk(i) \subseteq AllBlocks \ disk.used
        /\ \A i, j \in 1 .. Len(blk) : i < j => Blk(i) \cap Blk(j) = {}
    BY <1>1 DEF IInv, UsedGrows, NothingShared
  <2>10. ASSUME NEW i \in 1 .. Len(blk')
         PROVE  Blk(i)' \subseteq img'.used /\ Blk(i)' \subseteq AllBlocks \ disk'.used
    <3>1. CASE i \in 1 .. Len(blk)
      BY <1>1, <2>5, <2>8, <2>9, <3>1, Zenon
    <3>2. CASE i \notin 1 .. Len(blk)
      BY <1>1, <2>4, <2>5, <2>8, <2>9, <3>2, Zenon
    <3> QED
      BY <3>1, <3>2
  <2>11. ASSUME NEW i \in 1 .. Len(blk'), NEW j \in 1 .. Len(blk'), i < j
         PROVE  Blk(i)' \cap Blk(j)' = {}
    <3>1. i \in 1 .. Len(blk)
      BY <2>7, <2>11, SMT
    <3>2. CASE j \in 1 .. Len(blk)
      BY <2>8, <2>9, <2>11, <3>1, <3>2, Zenon
    <3>3. CASE j \notin 1 .. Len(blk)
      <4>1. Blk(i)' = Blk(i) /\ Blk(j)' = Marked(s, n) /\ Blk(i) \subseteq img.used
        BY <2>8, <2>9, <3>1, <3>3, Zenon
      <4> QED
        BY <2>4, <4>1, Zenon
    <3> QED
      BY <3>2, <3>3
  <2>12. UsedGrows' /\ NothingShared'
    <3>1. disk'.used \subseteq img'.used
      BY <1>1, <2>5, <2>9, Zenon
    <3> QED
      BY <2>10, <2>11, <3>1, Zenon DEF UsedGrows, NothingShared
  <2> QED
    BY <1>1, <2>1, <2>3, <2>5, <2>6, <2>7, <2>12 DEF IInv, BlkOK
<1> QED
  BY <1>2, <1>3

LEMMA StepInvariant == IInv /\ [Inject]_fixVars => IInv'
<1> SUFFICES ASSUME IInv, [Inject]_fixVars PROVE IInv'
  OBVIOUS
<1>1. CASE Load
  <2>1. disk' = disk /\ Counted(disk)
    BY <1>1 DEF Load, IInv
  <2>2. CASE Discovered(disk)
    <3>1. img' = disk /\ blk' = <<>> /\ disk.kind = "container"
      BY <1>1, <2>2 DEF Load, Discovered
    <3>2. BlkOK'
      BY <3>1, WantedPositive, SMT DEF BlkOK
    <3>3. Len(blk') = 0
      BY <3>1, SMT
    <3> QED
      BY <2>1, <3>1, <3>2, <3>3 DEF IInv, NothingShared, UsedGrows
  <2>3. CASE ~ Discovered(disk)
    BY <1>1, <2>1, <2>3, EndInvariant DEF Load
  <2> QED
    BY <2>2, <2>3
<1>2. CASE LoadFails
  BY <1>2, EndInvariant DEF LoadFails, IInv
<1>3. CASE AllocBlocks
  BY <1>3, AllocInvariant
<1>4. CASE WriteData
  <2>1. /\ pc = "alloc" /\ UNCHANGED <<disk, blk>> /\ img.kind = "container"
        /\ img = [f \in Fields |-> img[f]] /\ Counted(img)
    BY <1>4 DEF WriteData, IInv, Counted
  <2>2. PICK c : img' = [img EXCEPT !.content = c]
    BY <1>4 DEF WriteData
  <2>3. /\ img'.kind = img.kind /\ img'.used = img.used
        /\ img'.chunkFree = img.chunkFree /\ img'.devFree = img.devFree
        /\ img' = [f \in Fields |-> img'[f]]
    BY <2>1, <2>2, CountFields
  <2> QED
    BY <2>1, <2>3, QuietStep DEF Counted
<1>5. CASE BuildTree
  <2>1. CASE disk' = disk /\ Ends("panic")
    BY <2>1, EndInvariant DEF IInv
  <2>2. CASE \E t, x : pc = "tree" /\ img' = [img EXCEPT !.tree = t, !.stale = x] /\ UNCHANGED <<disk, blk>>
    BY <2>2, TreeWritten DEF IInv
  <2> QED
    BY <1>5, <2>1, <2>2 DEF BuildTree
<1>6. CASE BuildReferences
  <2>1. CASE disk' = disk /\ Ends("panic")
    BY <2>1, EndInvariant DEF IInv
  <2>2. CASE \E t, x : pc = "refs" /\ img' = [img EXCEPT !.refs = t, !.stale = x] /\ UNCHANGED <<disk, blk>>
    BY <2>2, TreeWritten DEF IInv
  <2> QED
    BY <1>6, <2>1, <2>2 DEF BuildReferences
<1>7. CASE Count
  <2>1. /\ pc = "count" /\ UNCHANGED <<disk, blk>> /\ Counted(img) /\ img.kind = "container"
        /\ Counted(img') /\ img'.kind = img.kind /\ img'.used = img.used
    BY <1>7, CountFields DEF Count, IInv, Counted
  <2> QED
    BY <2>1, QuietStep
<1>8. CASE WriteImage
  BY <1>8, EndInvariant DEF WriteImage, IInv
<1>9. CASE WriteFails
  <2>1. Counted(disk')
    BY <1>9 DEF WriteFails, Torn, Counted
  <2> QED
    BY <1>9, <2>1, EndInvariant DEF WriteFails
<1>10. CASE UNCHANGED fixVars
  BY <1>10 DEF fixVars, IInv, BlkOK, NothingShared, UsedGrows, Blk
<1> QED
  BY <1>1, <1>2, <1>3, <1>4, <1>5, <1>6, <1>7, <1>8, <1>9, <1>10 DEF Inject

LEMMA Inductive == InjectSpec => []IInv
BY InitInvariant, StepInvariant, PTL DEF InjectSpec

(* The two free counts are the bitmap's at every step of the injector and  *)
(* in every image it writes, for images of any size and layout             *)
(* (alloc_blocks, and the rest of main, which leaves them alone).          *)
THEOREM CountsFollowBitmap == InjectSpec => []FreeCountsMatch
<1>1. IInv => FreeCountsMatch
  BY DEF IInv, Counted, AllBlocks, FreeCountsMatch
<1> QED
  BY <1>1, Inductive, PTL

(* The injector never allocates a block that the image has in use, nor one *)
(* block twice, for images of any size and layout (alloc_blocks).          *)
LEMMA AllocationsFree == InjectSpec => []NothingShared
<1>1. IInv => NothingShared
  BY DEF IInv
<1> QED
  BY <1>1, Inductive, PTL

----------------------------------------------------------------------------
\* A set of numbers has a least one.
LEMMA LeastNumber ==
    ASSUME NEW S \in SUBSET Nat, S # {}
    PROVE  First(S) \in S /\ \A m \in S : First(S) <= m
<1>1. PICK n \in S : \A m \in S : ~ (<<m, n>> \in OpToRel(<, Nat))
  BY NatLessThanWellFounded, WFMin, Zenon
<1>2. ASSUME NEW m \in S PROVE n <= m
  <2>1. ~ (m < n)
    BY <1>1, Zenon DEF OpToRel
  <2> QED
    BY <2>1
<1> QED
  BY <1>2, Zenon DEF First

\* Sums of lengths, from the left.
Summed(f, len) == f = [i \in 0 .. Len(len) |-> IF i = 0 THEN 0 ELSE f[i - 1] + len[i]]

LEMMA SumsExist ==
    ASSUME NEW n \in Nat, NEW len \in [1 .. n -> Nat], NEW m \in 0 .. n
    PROVE  \E g \in [0 .. m -> Nat] : \A i \in 0 .. m : g[i] = IF i = 0 THEN 0 ELSE g[i - 1] + len[i]
<1> DEFINE Sum(g, k) == /\ g \in [0 .. k -> Nat]
                        /\ \A i \in 0 .. k : g[i] = IF i = 0 THEN 0 ELSE g[i - 1] + len[i]
           Bad == {k \in 0 .. n : ~ \E g : Sum(g, k)}
<1>1. ASSUME Bad # {} PROVE FALSE
  <2>1. PICK k \in Bad : \A j \in Bad : k <= j
    <3>1. Bad \in SUBSET Nat
      OBVIOUS
    <3> HIDE DEF Bad
    <3> QED
      BY <1>1, <3>1, LeastNumber
  <2>2. k \in 0 .. n /\ ~ \E g : Sum(g, k)
    OBVIOUS
  <2>3. CASE k = 0
    <3> DEFINE g == [i \in 0 .. 0 |-> 0]
    <3>1. Sum(g, 0)
      OBVIOUS
    <3> QED
      BY <2>2, <2>3, <3>1, Zenon
  <2>4. CASE k # 0
    <3>1. k - 1 \in 0 .. n /\ ~ (k <= k - 1)
      BY <2>2, <2>4
    <3>2. k - 1 \notin Bad
      BY <2>1, <3>1, Zenon
    <3>3. PICK g : Sum(g, k - 1)
      BY <3>1, <3>2, Zenon
    <3> DEFINE h == [i \in 0 .. k |-> IF i = k THEN g[k - 1] + len[k] ELSE g[i]]
    <3>4. g[k - 1] \in Nat /\ len[k] \in Nat
      BY <2>2, <2>4, <3>3
    <3>5. h \in [0 .. k -> Nat]
      BY <2>2, <3>3, <3>4
    <3>6. ASSUME NEW i \in 0 .. k PROVE h[i] = IF i = 0 THEN 0 ELSE h[i - 1] + len[i]
      BY <2>2, <2>4, <3>3
    <3>7. Sum(h, k)
      BY <3>5, <3>6, Zenon
    <3> QED
      BY <2>2, <3>7, Zenon
  <2> QED
    BY <2>3, <2>4
<1>2. m \notin Bad
  BY <1>1
<1>3. PICK g : Sum(g, m)
  BY <1>2, Zenon
<1> QED
  BY <1>3

LEMMA SumsStep ==
    ASSUME NEW n \in Nat, NEW len \in [1 .. n -> Nat]
    PROVE  /\ Sums(len)[0] = 0
           /\ \A i \in 0 .. n : Sums(len)[i] \in Nat
           /\ \A i \in 1 .. n : Sums(len)[i] = Sums(len)[i - 1] + len[i]
<1>1. Len(len) = n
  OBVIOUS
<1>2. PICK g \in [0 .. n -> Nat] : \A i \in 0 .. n : g[i] = IF i = 0 THEN 0 ELSE g[i - 1] + len[i]
  <2>1. n \in 0 .. n
    OBVIOUS
  <2> QED
    BY <2>1, SumsExist, Zenon
<1>3. Summed(g, len)
  <2>1. g = [i \in 0 .. n |-> g[i]]
    OBVIOUS
  <2> QED
    BY <1>1, <1>2, <2>1 DEF Summed
<1> DEFINE f == CHOOSE f : Summed(f, len)
<1>4. Sums(len) = f
  BY Zenon DEF Sums, Summed
<1>5. Summed(f, len)
  BY <1>3, Zenon
<1> HIDE DEF f
<1>6. \A i \in 0 .. n : f[i] = IF i = 0 THEN 0 ELSE f[i - 1] + len[i]
  BY <1>1, <1>5 DEF Summed
<1> DEFINE Bad == {i \in 0 .. n : f[i] \notin Nat}
<1>7. ASSUME Bad # {} PROVE FALSE
  <2>1. PICK k \in Bad : \A j \in Bad : k <= j
    <3>1. Bad \in SUBSET Nat
      OBVIOUS
    <3> HIDE DEF Bad
    <3> QED
      BY <1>7, <3>1, LeastNumber
  <2>2. k # 0 /\ k \in 1 .. n /\ k - 1 \in 0 .. n /\ ~ (k <= k - 1)
    BY <1>6
  <2>3. f[k - 1] \in Nat /\ len[k] \in Nat
    BY <2>1, <2>2
  <2>4. f[k] = f[k - 1] + len[k]
    BY <1>6, <2>2
  <2> QED
    BY <2>1, <2>3, <2>4
<1>8. \A i \in 0 .. n : f[i] \in Nat
  BY <1>7
<1>9. \A i \in 1 .. n : i \in 0 .. n /\ i # 0
  OBVIOUS
<1> QED
  BY <1>4, <1>6, <1>8, <1>9

LEMMA SumsGrow ==
    ASSUME NEW n \in Nat, NEW len \in [1 .. n -> Nat], NEW i \in 0 .. n, NEW j \in 0 .. n, i <= j
    PROVE  Sums(len)[i] <= Sums(len)[j]
<1> DEFINE f == Sums(len)
<1>1. /\ \A k \in 0 .. n : f[k] \in Nat
      /\ \A k \in 1 .. n : f[k] = f[k - 1] + len[k]
  BY SumsStep
<1> HIDE DEF f
<1> DEFINE Bad == {k \in i .. n : ~ (f[i] <= f[k])}
<1>2. ASSUME Bad # {} PROVE FALSE
  <2>1. PICK k \in Bad : \A m \in Bad : k <= m
    <3>1. Bad \in SUBSET Nat
      OBVIOUS
    <3> HIDE DEF Bad
    <3> QED
      BY <1>2, <3>1, LeastNumber
  <2>2. k # i
    BY <1>1
  <2>3. k - 1 \in i .. n /\ k \in 1 .. n /\ ~ (k <= k - 1) /\ k - 1 \in 0 .. n /\ k \in 0 .. n
    BY <2>2
  <2>4. f[i] <= f[k - 1]
    BY <2>1, <2>3
  <2>5. f[k] = f[k - 1] + len[k] /\ len[k] \in Nat /\ f[k - 1] \in Nat /\ f[i] \in Nat
    BY <1>1, <2>3
  <2> QED
    BY <2>1, <2>4, <2>5
<1>3. j \in i .. n
  OBVIOUS
<1> QED
  BY <1>2, <1>3 DEF f

LEMMA TableHolds ==
    ASSUME NEW toc \in Nat, NEW n \in Nat
    PROVE  TableLen(toc, n) \in Nat /\ n * 8 <= TableLen(toc, n)
BY DEF TableLen, DivCeil

(* The entries lie below the keys, the keys one behind the other below the *)
(* values, and the values one before the other in the block.               *)
Apart(node) ==
    /\ \A i \in DOMAIN node.recs :
          /\ 56 + i * 8 <= KeyArea(node.toc)
          /\ KeyArea(node.toc) <= node.keyAt[i] /\ node.keyAt[i] + node.recs[i].klen <= node.vals
          /\ node.vals <= node.valAt[i] /\ node.valAt[i] + node.recs[i].vlen <= ValEnd
    /\ \A i, j \in DOMAIN node.recs : i < j =>
          /\ node.keyAt[i] + node.recs[i].klen <= node.keyAt[j]
          /\ node.valAt[j] + node.recs[j].vlen <= node.valAt[i]

(* Records whose lengths fit are laid out without an overlap, however the  *)
(* table of contents grew, and read back as what they were: parse_node,    *)
(* and Node::key and Node::value, of a node that serialize_node wrote      *)
(* after its assertion.                                                    *)
THEOREM NodeRoundTrip ==
    ASSUME NEW recs, Keyed(recs), NEW toc \in Nat, Fits(toc, recs)
    PROVE  Apart(SerializeNode(toc, recs)) /\ ReadNode(SerializeNode(toc, recs)) = recs
<1> DEFINE n == SerializeNode(toc, recs)
           size == Len(recs)
           len == TableLen(toc, size)
           kl == [i \in DOMAIN recs |-> recs[i].klen]
           vl == [i \in DOMAIN recs |-> recs[i].vlen]
           k == KeySums(recs)
           v == ValSums(recs)
<1>1. /\ n.nkeys = size /\ n.toc = len /\ n.recs = recs /\ n.vals = ValEnd - v[size]
      /\ n.entries = [i \in DOMAIN recs |-> Entry(k, v, recs[i], i)]
      /\ n.keyAt = [i \in DOMAIN recs |-> KeyArea(len) + k[i - 1]]
      /\ n.valAt = [i \in DOMAIN recs |-> ValEnd - v[i]]
  BY DEF SerializeNode
<1>2. /\ DOMAIN recs = 1 .. size /\ size \in Nat
      /\ \A i \in 1 .. size : recs[i].klen \in Nat /\ recs[i].vlen \in Nat
  BY DEF Keyed
<1>3. KeyArea(len) + k[size] <= ValEnd - v[size]
  BY Zenon DEF Fits
<1>4. len \in Nat /\ size * 8 <= len
  BY <1>2, TableHolds
<1>5. kl \in [1 .. size -> Nat] /\ vl \in [1 .. size -> Nat]
  BY <1>2
<1>6. k = Sums(kl) /\ v = Sums(vl)
  BY Zenon DEF KeySums, ValSums
<1>7. \A i \in 1 .. size : kl[i] = recs[i].klen /\ vl[i] = recs[i].vlen
  BY <1>2
<1> HIDE DEF n, size, len, kl, vl, k, v
<1>8. /\ k[0] = 0 /\ v[0] = 0
      /\ \A i \in 0 .. size : k[i] \in Nat /\ v[i] \in Nat
      /\ \A i \in 1 .. size : k[i] = k[i - 1] + recs[i].klen /\ v[i] = v[i - 1] + recs[i].vlen
  BY <1>2, <1>5, <1>6, <1>7, SumsStep
<1>9. \A i, j \in 0 .. size : i <= j => k[i] <= k[j] /\ v[i] <= v[j]
  BY <1>2, <1>5, <1>6, SumsGrow
<1>10. ValEnd \in Int /\ KeyArea(len) = 56 + len
  BY BlockBytesAssumption DEF ValEnd, KeyArea
<1>11. ASSUME NEW i \in 1 .. size
       PROVE  /\ n.keyAt[i] = KeyArea(len) + k[i - 1] /\ n.valAt[i] = ValEnd - v[i]
              /\ n.entries[i] = Entry(k, v, recs[i], i)
  BY <1>1, <1>2
<1>12. ASSUME NEW i \in 1 .. size
       PROVE  /\ i * 8 <= len /\ n.keyAt[i] + recs[i].klen = KeyArea(len) + k[i]
              /\ n.valAt[i] + recs[i].vlen = ValEnd - v[i - 1]
              /\ KeyArea(len) <= n.keyAt[i] /\ n.keyAt[i] + recs[i].klen <= n.vals
              /\ n.vals <= n.valAt[i] /\ n.valAt[i] + recs[i].vlen <= ValEnd
  <2>1. i \in 0 .. size /\ i - 1 \in 0 .. size /\ size \in 0 .. size /\ i <= size /\ i \in Nat
    BY <1>2
  <2>2. k[i] <= k[size] /\ v[i] <= v[size]
    BY <1>9, <2>1
  <2>3. /\ k[i - 1] \in Nat /\ v[i - 1] \in Nat /\ k[i] \in Nat /\ v[i] \in Nat
        /\ k[size] \in Nat /\ v[size] \in Nat /\ recs[i].klen \in Nat /\ recs[i].vlen \in Nat
        /\ k[i] = k[i - 1] + recs[i].klen /\ v[i] = v[i - 1] + recs[i].vlen
    BY <1>2, <1>8, <2>1
  <2>4. i * 8 <= len
    BY <1>2, <1>4, <2>1
  <2>5. KeyArea(len) \in Nat
    BY <1>4, <1>10
  <2>6. n.keyAt[i] = KeyArea(len) + k[i - 1] /\ n.valAt[i] = ValEnd - v[i] /\ n.vals = ValEnd - v[size]
    BY <1>1, <1>11
  <2> QED
    BY <1>3, <1>10, <2>2, <2>3, <2>4, <2>5, <2>6
<1>13. ASSUME NEW i \in 1 .. size, NEW j \in 1 .. size, i < j
       PROVE  /\ n.keyAt[i] + recs[i].klen <= n.keyAt[j]
              /\ n.valAt[j] + recs[j].vlen <= n.valAt[i]
  <2>1. i \in 0 .. size /\ j - 1 \in 0 .. size /\ i <= j - 1
    BY <1>2, <1>13
  <2>2. k[i] <= k[j - 1] /\ v[i] <= v[j - 1]
    BY <1>9, <2>1
  <2>3. k[i] \in Nat /\ k[j - 1] \in Nat /\ v[i] \in Nat /\ v[j - 1] \in Nat /\ KeyArea(len) \in Nat
    BY <1>4, <1>8, <1>10, <2>1
  <2>4. /\ n.keyAt[j] = KeyArea(len) + k[j - 1] /\ n.valAt[i] = ValEnd - v[i]
        /\ n.keyAt[i] + recs[i].klen = KeyArea(len) + k[i]
        /\ n.valAt[j] + recs[j].vlen = ValEnd - v[j - 1]
    BY <1>11, <1>12
  <2> QED
    BY <1>10, <2>2, <2>3, <2>4
<1>14. Apart(n)
  <2>1. ASSUME NEW i \in 1 .. size PROVE 56 + i * 8 <= KeyArea(len)
    BY <1>2, <1>4, <1>10, <1>12
  <2> QED
    BY <1>1, <1>2, <1>12, <1>13, <2>1 DEF Apart
<1>15. ASSUME NEW i \in 1 .. size PROVE RecordAt(n, i) = recs[i]
  <2>1. /\ n.entries[i].ko = k[i - 1] /\ n.entries[i].kl = recs[i].klen
        /\ n.entries[i].vo = v[i] /\ n.entries[i].vl = recs[i].vlen
    <3>1. n.entries[i] = Entry(k, v, recs[i], i)
      BY <1>11
    <3> QED
      BY <3>1 DEF Entry
  <2>2. n.keyAt[i] = KeyArea(n.toc) + n.entries[i].ko /\ n.valAt[i] = ValEnd - n.entries[i].vo
    BY <1>1, <1>11, <2>1
  <2>3. i * 8 <= n.toc /\ n.keyAt[i] + n.entries[i].kl <= n.vals
    BY <1>1, <1>12, <2>1
  <2> QED
    BY <1>1, <2>1, <2>2, <2>3 DEF RecordAt
<1> DEFINE s == [i \in DOMAIN n.entries |-> RecordAt(n, i)]
<1>16. s = [i \in DOMAIN recs |-> recs[i]]
  BY <1>1, <1>2, <1>15
<1>17. recs = [i \in DOMAIN recs |-> recs[i]] /\ SubSeq(recs, 1, Len(recs)) = recs
  BY SMT DEF Keyed
<1>18. s = recs
  BY <1>16, <1>17
<1> HIDE DEF s
<1> QED
  BY <1>1, <1>14, <1>17, <1>18 DEF ReadNode, s, n, size

----------------------------------------------------------------------------
(* A sort by a total order of n places is a permutation in that order, the *)
(* same one for all sequences of n elements.                               *)
LEMMA ArrangedFacts ==
    ASSUME NEW n \in Nat, NEW E,
           \A j, k \in 1 .. n : j # k => <<j, k>> \in E \/ <<k, j>> \in E,
           \A k \in 1 .. n : <<k, k>> \notin E,
           \A i, j, k \in 1 .. n : <<i, j>> \in E /\ <<j, k>> \in E => <<i, k>> \in E
    PROVE  \E p \in [1 .. n -> 1 .. n] :
              /\ \A s : DOMAIN s = 1 .. n => Arranged(s, E) = [i \in 1 .. n |-> s[p[i]]]
              /\ \A k \in 1 .. n : \E i \in 1 .. n : p[i] = k
              /\ \A i, j \in 1 .. n : i < j => <<p[i], p[j]>> \in E
<1> DEFINE D == 1 .. n
           B(k) == {j \in D : <<j, k>> \in E}
           rank == [k \in D |-> 1 + Cardinality(B(k))]
           p == [i \in D |-> CHOOSE k \in D : rank[k] = i]
<1>1. n \in Nat /\ D = 1 .. n
  OBVIOUS
<1>2. \A s : DOMAIN s = D => Arranged(s, E) = [i \in D |-> s[p[i]]]
  <2> TAKE s
  <2> HAVE DOMAIN s = D
  <2>1. \A i \in D : p[i] = CHOOSE k \in D : rank[k] = i
    OBVIOUS
  <2> HIDE DEF D
  <2>2. Arranged(s, E) = [i \in D |-> s[CHOOSE k \in D : rank[k] = i]]
    BY DEF Arranged
  <2> HIDE DEF p, rank
  <2> QED
    BY <2>1, <2>2
<1>3. IsFiniteSet(D) /\ Cardinality(D) = n
  <2>1. 1 \in Int /\ n \in Int
    BY <1>1
  <2>2. IsFiniteSet(1 .. n) /\ Cardinality(1 .. n) = IF 1 > n THEN 0 ELSE n - 1 + 1
    BY <2>1, FS_Interval, Zenon
  <2> QED
    BY <1>1, <2>2
<1>4. /\ \A j, k \in D : j # k => <<j, k>> \in E \/ <<k, j>> \in E
      /\ \A k \in D : <<k, k>> \notin E
      /\ \A i, j, k \in D : <<i, j>> \in E /\ <<j, k>> \in E => <<i, k>> \in E
  OBVIOUS
<1> HIDE DEF D
<1>5. ASSUME NEW k \in D PROVE IsFiniteSet(B(k)) /\ Cardinality(B(k)) \in Nat /\ Cardinality(B(k)) <= n - 1
  <2>1. B(k) \in SUBSET (D \ {k})
    BY <1>4
  <2>2. IsFiniteSet(D \ {k}) /\ Cardinality(D \ {k}) = n - 1
    BY <1>3, FS_RemoveElement
  <2> HIDE DEF B
  <2>3. IsFiniteSet(B(k)) /\ Cardinality(B(k)) <= Cardinality(D \ {k})
    BY <2>1, <2>2, FS_Subset
  <2>4. Cardinality(B(k)) \in Nat
    BY <2>3, FS_CardinalityType
  <2> QED
    BY <2>2, <2>3, <2>4
<1>6. ASSUME NEW j \in D, NEW k \in D, <<j, k>> \in E PROVE Cardinality(B(j)) < Cardinality(B(k))
  <2>1. j \notin B(j) /\ B(j) \cup {j} \in SUBSET B(k)
    BY <1>4, <1>6
  <2>2. /\ IsFiniteSet(B(j)) /\ IsFiniteSet(B(k)) /\ Cardinality(B(j)) \in Nat /\ Cardinality(B(k)) \in Nat
    BY <1>5
  <2> HIDE DEF B
  <2>3. Cardinality(B(j) \cup {j}) = Cardinality(B(j)) + 1
    BY <2>1, <2>2, FS_AddElement
  <2>4. Cardinality(B(j) \cup {j}) <= Cardinality(B(k))
    BY <2>1, <2>2, FS_Subset
  <2> QED
    BY <2>2, <2>3, <2>4
<1>7. \A k \in D : rank[k] = 1 + Cardinality(B(k)) /\ rank[k] \in D
  <2> TAKE k \in D
  <2>1. rank[k] = 1 + Cardinality(B(k))
    OBVIOUS
  <2> HIDE DEF rank, B
  <2> QED
    BY <1>1, <1>5, <2>1
<1> HIDE DEF B
<1>8. \A j, k \in D : <<j, k>> \in E => rank[j] < rank[k]
  <2> HIDE DEF rank
  <2> QED
    BY <1>5, <1>6, <1>7
<1>9. rank \in Injection(D, D)
  <2>1. rank \in [D -> D]
    BY <1>7
  <2> HIDE DEF rank
  <2>2. \A j, k \in D : j # k => rank[j] # rank[k]
    <3> TAKE j, k \in D
    <3>1. rank[j] \in Int /\ rank[k] \in Int
      BY <1>1, <1>7
    <3>2. CASE <<j, k>> \in E
      BY <1>8, <3>1, <3>2
    <3>3. CASE <<k, j>> \in E
      BY <1>8, <3>1, <3>3
    <3> QED
      BY <1>4, <3>2, <3>3
  <2> QED
    BY <2>1, <2>2 DEF Injection, IsInjective
<1>10. rank \in Surjection(D, D)
  <2> HIDE DEF rank
  <2> QED
    BY <1>3, <1>9, FS_Injection
<1>11. \A i \in D : \E k \in D : rank[k] = i
  <2> HIDE DEF rank
  <2> QED
    BY <1>10 DEF Surjection
<1> HIDE DEF rank
<1>12. \A i \in D : p[i] \in D /\ rank[p[i]] = i
  BY <1>11
<1>13. p \in [D -> D]
  BY <1>12
<1> HIDE DEF p
<1>14. \A k \in D : \E i \in D : p[i] = k
  <2> TAKE k \in D
  <2>1. rank[k] \in D
    BY <1>7
  <2>2. rank[p[rank[k]]] = rank[k] /\ p[rank[k]] \in D
    BY <1>12, <2>1
  <2>3. p[rank[k]] = k
    BY <1>9, <2>2 DEF Injection, IsInjective
  <2> QED
    BY <2>1, <2>3
<1>15. \A i, j \in D : i < j => <<p[i], p[j]>> \in E
  <2> TAKE i, j \in D
  <2> SUFFICES ASSUME i < j, <<p[i], p[j]>> \notin E PROVE FALSE
    OBVIOUS
  <2>1. i \in Nat /\ j \in Nat
    BY <1>1
  <2>2. p[i] \in D /\ p[j] \in D /\ rank[p[i]] = i /\ rank[p[j]] = j
    BY <1>12
  <2>3. p[i] # p[j]
    BY <2>1, <2>2
  <2>4. <<p[j], p[i]>> \in E
    BY <1>4, <2>2, <2>3
  <2>5. j < i
    BY <1>8, <2>2, <2>4
  <2> QED
    BY <2>1, <2>5
<1> QED
  BY <1>2, <1>13, <1>14, <1>15, Zenon DEF D

----------------------------------------------------------------------------
\* The records of a sequence.
LEMMA Six == 1 .. 6 = {1, 2, 3, 4, 5, 6}
OBVIOUS

LEMMA OfTypeIs ==
    ASSUME NEW S, NEW s \in Seq(S), NEW y
    PROVE  OfType(s, y) = {r \in Range(s) : r.type = y}
BY DEF OfType, Range

LEMMA OfTypeConcat ==
    ASSUME NEW S, NEW s \in Seq(S), NEW t \in Seq(S), NEW y
    PROVE  OfType(s \o t, y) = OfType(s, y) \cup OfType(t, y)
<1>1. s \o t \in Seq(S) /\ Range(s \o t) = Range(s) \cup Range(t)
  BY ConcatProperties, RangeConcatenation
<1>2. /\ OfType(s \o t, y) = {r \in Range(s \o t) : r.type = y}
      /\ OfType(s, y) = {r \in Range(s) : r.type = y}
      /\ OfType(t, y) = {r \in Range(t) : r.type = y}
  BY <1>1, OfTypeIs
<1> QED
  BY <1>1, <1>2

KeyedRec(r) ==
    /\ r = [f \in RecFields |-> r[f]]
    /\ r.id \in Nat /\ r.type \in Nat /\ r.number \in Nat /\ r.name \in Nat
    /\ r.klen \in Nat /\ r.vlen \in Nat

LEMMA KeyedConcat ==
    ASSUME NEW s, NEW t, Keyed(s), Keyed(t)
    PROVE  Keyed(s \o t) /\ \A y : OfType(s \o t, y) = OfType(s, y) \cup OfType(t, y)
<1> DEFINE S == Range(s) \cup Range(t)
<1>1. s \in Seq(S) /\ t \in Seq(S)
  <2>1. s \in Seq(Range(s)) /\ t \in Seq(Range(t))
    BY DEF Keyed, Range
  <2>2. Range(s) \subseteq S /\ Range(t) \subseteq S
    OBVIOUS
  <2> QED
    BY <2>1, <2>2, SeqMonotonic
<1>2. s \o t \in Seq(S) /\ Range(s \o t) = S
  BY <1>1, ConcatProperties, RangeConcatenation
<1>3. \A r \in S : KeyedRec(r)
  BY DEF Keyed, KeyedRec, Range
<1>4. Keyed(s \o t)
  <2>1. \A i \in DOMAIN (s \o t) : (s \o t)[i] \in S
    BY <1>2 DEF Range
  <2>2. s \o t \in Seq({(s \o t)[i] : i \in DOMAIN (s \o t)})
    BY <1>2 DEF Range
  <2> QED
    BY <1>3, <2>1, <2>2 DEF Keyed, KeyedRec
<1> QED
  BY <1>1, <1>4, OfTypeConcat

\* Records with the same keys.
SameKeys(s, t) ==
    /\ DOMAIN t = DOMAIN s
    /\ \A i \in DOMAIN s :
          /\ t[i].id = s[i].id /\ t[i].type = s[i].type
          /\ t[i].number = s[i].number /\ t[i].name = s[i].name

\* Sorting permutes the places, in the same way for the same keys.
LEMMA SortedPermutes ==
    ASSUME NEW s, Keyed(s)
    PROVE  \E p \in [1 .. Len(s) -> 1 .. Len(s)] :
              /\ \A t : SameKeys(s, t) => Sorted(t) = [i \in 1 .. Len(s) |-> t[p[i]]]
              /\ \A k \in 1 .. Len(s) : \E i \in 1 .. Len(s) : p[i] = k
              /\ \A i, j \in 1 .. Len(s) : i < j =>
                    \/ Before(s[p[i]], s[p[j]])
                    \/ ~ Before(s[p[j]], s[p[i]]) /\ p[i] < p[j]
<1> DEFINE D == 1 .. Len(s)
           E == {p \in (DOMAIN s) \X (DOMAIN s) :
                   LET a == s[p[1]]  b == s[p[2]]
                   IN  Before(a, b) \/ (~ Before(b, a) /\ p[1] < p[2])}
<1>1. DOMAIN s = D /\ Len(s) \in Nat
  BY DEF Keyed
<1>2. \A i \in D : s[i].id \in Nat /\ s[i].type \in Nat /\ s[i].number \in Nat /\ s[i].name \in Nat
  BY <1>1 DEF Keyed
<1>3. ASSUME NEW t, SameKeys(s, t)
      PROVE  Sorted(t) = Arranged(t, E)
  <2> DEFINE F == {p \in (DOMAIN t) \X (DOMAIN t) :
                     LET a == t[p[1]]  b == t[p[2]]
                     IN  Before(a, b) \/ (~ Before(b, a) /\ p[1] < p[2])}
  <2>1. DOMAIN t = DOMAIN s
    BY <1>3 DEF SameKeys
  <2>2. \A j, k \in DOMAIN s : Before(t[j], t[k]) <=> Before(s[j], s[k])
    BY <1>3 DEF SameKeys, Before, PrefixBefore
  <2>3. F = E
    BY <2>1, <2>2
  <2>4. Sorted(t) = Arranged(t, F)
    BY DEF Sorted
  <2> QED
    BY <2>3, <2>4
<1>4. \A j, k \in D : <<j, k>> \in E <=>
         (Before(s[j], s[k]) \/ (~ Before(s[k], s[j]) /\ j < k))
  BY <1>1
<1> HIDE DEF D, E
<1>5. \A j, k \in D : j # k => <<j, k>> \in E \/ <<k, j>> \in E
  <2> SUFFICES ASSUME NEW j \in D, NEW k \in D, j # k PROVE <<j, k>> \in E \/ <<k, j>> \in E
    OBVIOUS
  <2>1. j < k \/ k < j
    BY <1>1 DEF D
  <2> QED
    BY <1>4, <2>1
<1>6. \A k \in D : <<k, k>> \notin E
  <2> SUFFICES ASSUME NEW k \in D PROVE <<k, k>> \notin E
    OBVIOUS
  <2>1. ~ (k < k)
    BY <1>1 DEF D
  <2>2. ~ Before(s[k], s[k])
    BY <1>2 DEF Before, PrefixBefore
  <2> QED
    BY <1>4, <2>1, <2>2
<1>7. \A i, j, k \in D : <<i, j>> \in E /\ <<j, k>> \in E => <<i, k>> \in E
  <2> SUFFICES ASSUME NEW i \in D, NEW j \in D, NEW k \in D, <<i, j>> \in E, <<j, k>> \in E
               PROVE  <<i, k>> \in E
    OBVIOUS
  <2>1. i \in Nat /\ j \in Nat /\ k \in Nat
    BY <1>1 DEF D
  <2>2. /\ Before(s[i], s[j]) \/ (~ Before(s[j], s[i]) /\ i < j)
        /\ Before(s[j], s[k]) \/ (~ Before(s[k], s[j]) /\ j < k)
    BY <1>4
  <2>3. Before(s[i], s[k]) \/ (~ Before(s[k], s[i]) /\ i < k)
    <3> DEFINE a == s[i]
               b == s[j]
               c == s[k]
    <3>1. /\ a.id \in Nat /\ a.type \in Nat /\ a.number \in Nat /\ a.name \in Nat
          /\ b.id \in Nat /\ b.type \in Nat /\ b.number \in Nat /\ b.name \in Nat
          /\ c.id \in Nat /\ c.type \in Nat /\ c.number \in Nat /\ c.name \in Nat
      BY <1>2
    <3> HIDE DEF a, b, c
    <3>2. /\ Before(a, b) /\ Before(b, c) => Before(a, c)
          /\ Before(a, b) /\ ~ Before(c, b) => Before(a, c)
          /\ ~ Before(b, a) /\ Before(b, c) => Before(a, c)
          /\ ~ Before(b, a) /\ ~ Before(c, b) => ~ Before(c, a)
      BY <3>1 DEF Before, PrefixBefore
    <3>3. i < j /\ j < k => i < k
      BY <2>1
    <3> QED
      BY <2>2, <3>2, <3>3 DEF a, b, c
  <2> QED
    BY <1>4, <2>3
<1>8. PICK p \in [D -> D] :
         /\ \A t : DOMAIN t = D => Arranged(t, E) = [i \in D |-> t[p[i]]]
         /\ \A k \in D : \E i \in D : p[i] = k
         /\ \A i, j \in D : i < j => <<p[i], p[j]>> \in E
  BY <1>1, <1>5, <1>6, <1>7, ArrangedFacts DEF D
<1>9. \A t : SameKeys(s, t) => Sorted(t) = [i \in D |-> t[p[i]]]
  <2> TAKE t
  <2> HAVE SameKeys(s, t)
  <2>1. Sorted(t) = Arranged(t, E) /\ DOMAIN t = D
    BY <1>1, <1>3 DEF SameKeys
  <2> QED
    BY <1>8, <2>1
<1>10. \A i, j \in D : i < j =>
          \/ Before(s[p[i]], s[p[j]])
          \/ ~ Before(s[p[j]], s[p[i]]) /\ p[i] < p[j]
  <2>1. \A i \in D : p[i] \in D
    OBVIOUS
  <2> QED
    BY <1>4, <1>8, <2>1
<1> QED
  BY <1>8, <1>9, <1>10 DEF D

LEMMA KeyedSorted ==
    ASSUME NEW s, Keyed(s)
    PROVE  Keyed(Sorted(s)) /\ \A y : OfType(Sorted(s), y) = OfType(s, y)
<1> DEFINE S == Range(s)
           D == 1 .. Len(s)
           w == Sorted(s)
<1>1. s \in Seq(S) /\ DOMAIN s = D /\ Len(s) \in Nat
  BY DEF Keyed, Range
<1>8. PICK p \in [D -> D] :
         /\ \A t : SameKeys(s, t) => Sorted(t) = [i \in D |-> t[p[i]]]
         /\ \A k \in D : \E i \in D : p[i] = k
  BY SortedPermutes
<1>9. w = [i \in D |-> s[p[i]]]
  BY <1>8 DEF SameKeys
<1> HIDE DEF S, D, w
<1>10. \A i \in D : w[i] = s[p[i]] /\ p[i] \in D
  BY <1>9
<1>11. w \in Seq(S) /\ DOMAIN w = D
  <2>1. \A i \in D : s[i] \in S
    BY <1>1 DEF S, Range
  <2>2. w \in [1 .. Len(s) -> S]
    BY <1>9, <1>10, <2>1 DEF D
  <2> QED
    BY <1>1, <1>9, <2>2
<1>12. Range(w) = S
  <2>1. \A i \in D : w[i] \in S
    BY <1>1, <1>10 DEF S, Range
  <2>2. \A i \in D : \E j \in D : w[j] = s[i]
    BY <1>8, <1>10
  <2> QED
    BY <1>1, <1>11, <2>1, <2>2 DEF S, Range
<1>13. Keyed(w)
  <2>1. \A r \in S : KeyedRec(r)
    BY DEF Keyed, KeyedRec, Range, S
  <2>2. \A i \in DOMAIN w : w[i] \in S
    BY <1>12 DEF Range
  <2>3. w \in Seq({w[i] : i \in DOMAIN w})
    BY <1>11, <1>12 DEF Range
  <2> QED
    BY <2>1, <2>2, <2>3 DEF Keyed, KeyedRec
<1> QED
  BY <1>1, <1>11, <1>12, <1>13, OfTypeIs DEF w, S

\* The root directory's count of children.
LEMMA KeyedWithChildren ==
    ASSUME NEW s, Keyed(s)
    PROVE  Keyed(WithChildren(s)) /\ OfType(WithChildren(s), FileExtent) = OfType(s, FileExtent)
<1> DEFINE w == WithChildren(s)
<1>1. s \in Seq(Range(s)) /\ DOMAIN s = 1 .. Len(s) /\ Len(s) \in Nat
  BY DEF Keyed, Range
<1>2. DOMAIN w = DOMAIN s
  BY DEF WithChildren
<1>3. ASSUME NEW i \in DOMAIN s
      PROVE  /\ KeyedRec(w[i]) /\ w[i].type = s[i].type
             /\ s[i].type = FileExtent => w[i] = s[i]
  <2>1. KeyedRec(s[i])
    BY DEF Keyed, KeyedRec
  <2>2. CASE s[i].id = RootDir /\ s[i].type = InodeRec
    <3>1. w[i] = [s[i] EXCEPT !.val.kids = @ + 6]
      BY <2>2 DEF WithChildren
    <3>2. PICK v : w[i] = [s[i] EXCEPT !.val = v]
      BY <3>1
    <3> HIDE DEF w
    <3> QED
      BY <2>1, <2>2, <3>2 DEF KeyedRec, RecFields, InodeRec, FileExtent
  <2>3. CASE ~ (s[i].id = RootDir /\ s[i].type = InodeRec)
    <3>1. w[i] = s[i]
      BY <2>3 DEF WithChildren
    <3> QED
      BY <2>1, <3>1
  <2> QED
    BY <2>2, <2>3
<1>4. w \in Seq({w[i] : i \in DOMAIN w})
  <2>1. w = [i \in 1 .. Len(s) |-> w[i]]
    BY <1>1 DEF WithChildren
  <2> HIDE DEF w
  <2>2. w \in [1 .. Len(s) -> {w[i] : i \in DOMAIN w}]
    BY <1>1, <1>2, <2>1
  <2> QED
    BY <1>1, <2>2
<1> HIDE DEF w
<1>5. Keyed(w)
  BY <1>2, <1>3, <1>4 DEF Keyed, KeyedRec
<1>6. OfType(w, FileExtent) = OfType(s, FileExtent)
  <2>1. \A i \in DOMAIN s : w[i].type = FileExtent <=> s[i].type = FileExtent
    BY <1>3
  <2>2. {j \in DOMAIN w : w[j].type = FileExtent} = {j \in DOMAIN s : s[j].type = FileExtent}
    BY <1>2, <2>1
  <2>3. \A j \in {j \in DOMAIN s : s[j].type = FileExtent} : w[j] = s[j]
    BY <1>3
  <2> QED
    BY <2>2, <2>3 DEF OfType
<1> QED
  BY <1>5, <1>6 DEF w

\* The six extents, as the injector's two trees have them.
Owner(next) == <<next, next + 2, next + 3, next + 3, next + 3, Streams(next)>>
Logical == <<0, 0, 0, 2 * BlockBytes, 3 * BlockBytes, 0>>
NewExtent(next, b, i) == BuildFileExtent(Owner(next)[i], Logical[i], Wanted[i], b[i])
NewExtents(next, b) == {NewExtent(next, b, i) : i \in 1 .. 6}
NewPhysExts(next, b) == {BuildPhysExt(b[i], Wanted[i], Owner(next)[i]) : i \in 1 .. 6}

LEMMA WantedAt ==
    /\ Wanted[1] = 1 /\ Wanted[2] = 1 /\ Wanted[3] = 2
    /\ Wanted[4] = 1 /\ Wanted[5] = 2 /\ Wanted[6] = RsrcBlocks
BY DEF Wanted

LEMMA OwnerAt ==
    ASSUME NEW next
    PROVE  /\ Owner(next)[1] = next /\ Owner(next)[2] = next + 2 /\ Owner(next)[3] = next + 3
           /\ Owner(next)[4] = next + 3 /\ Owner(next)[5] = next + 3
           /\ Owner(next)[6] = Streams(next)
BY DEF Owner

LEMMA LogicalAt ==
    /\ Logical[1] = 0 /\ Logical[2] = 0 /\ Logical[3] = 0
    /\ Logical[4] = 2 * BlockBytes /\ Logical[5] = 3 * BlockBytes /\ Logical[6] = 0
BY DEF Logical

\* Short sequences of records.
LEMMA KeyedAll ==
    ASSUME NEW S, NEW s \in Seq(S), {s[i] : i \in DOMAIN s} = S, \A r \in S : KeyedRec(r)
    PROVE  Keyed(s) /\ \A y : OfType(s, y) = {r \in S : r.type = y}
<1>1. \A i \in DOMAIN s : s[i] \in S
  OBVIOUS
<1>2. Keyed(s)
  BY <1>1 DEF Keyed, KeyedRec
<1>3. Range(s) = S
  BY DEF Range
<1> QED
  BY <1>2, <1>3, OfTypeIs

LEMMA KeyedOne ==
    ASSUME NEW a, KeyedRec(a)
    PROVE  /\ Keyed(<<a>>)
           /\ \A y : OfType(<<a>>, y) = {r \in {a} : r.type = y}
<1>1. <<a>> \in Seq({a}) /\ DOMAIN <<a>> = {1}
  OBVIOUS
<1>2. {<<a>>[i] : i \in DOMAIN <<a>>} = {a}
  BY <1>1
<1>3. \A r \in {a} : KeyedRec(r)
  OBVIOUS
<1> QED
  BY <1>1, <1>2, <1>3, KeyedAll, Zenon

LEMMA KeyedTwo ==
    ASSUME NEW a, NEW b, KeyedRec(a), KeyedRec(b)
    PROVE  /\ Keyed(<<a, b>>)
           /\ \A y : OfType(<<a, b>>, y) = {r \in {a, b} : r.type = y}
<1>1. <<a, b>> \in Seq({a, b}) /\ DOMAIN <<a, b>> = {1, 2}
  OBVIOUS
<1>2. {<<a, b>>[i] : i \in DOMAIN <<a, b>>} = {a, b}
  BY <1>1
<1>3. \A r \in {a, b} : KeyedRec(r)
  OBVIOUS
<1> QED
  BY <1>1, <1>2, <1>3, KeyedAll, Zenon

LEMMA KeyedThree ==
    ASSUME NEW a, NEW b, NEW c, KeyedRec(a), KeyedRec(b), KeyedRec(c)
    PROVE  /\ Keyed(<<a, b, c>>)
           /\ \A y : OfType(<<a, b, c>>, y) = {r \in {a, b, c} : r.type = y}
<1>1. <<a, b, c>> \in Seq({a, b, c}) /\ DOMAIN <<a, b, c>> = {1, 2, 3}
  OBVIOUS
<1>2. {<<a, b, c>>[i] : i \in DOMAIN <<a, b, c>>} = {a, b, c}
  BY <1>1
<1>3. \A r \in {a, b, c} : KeyedRec(r)
  OBVIOUS
<1> QED
  BY <1>1, <1>2, <1>3, KeyedAll, Zenon

LEMMA KeyedFour ==
    ASSUME NEW a, NEW b, NEW c, NEW d, KeyedRec(a), KeyedRec(b), KeyedRec(c), KeyedRec(d)
    PROVE  /\ Keyed(<<a, b, c, d>>)
           /\ \A y : OfType(<<a, b, c, d>>, y) = {r \in {a, b, c, d} : r.type = y}
<1>1. <<a, b, c, d>> \in Seq({a, b, c, d}) /\ DOMAIN <<a, b, c, d>> = {1, 2, 3, 4}
  OBVIOUS
<1>2. {<<a, b, c, d>>[i] : i \in DOMAIN <<a, b, c, d>>} = {a, b, c, d}
  BY <1>1
<1>3. \A r \in {a, b, c, d} : KeyedRec(r)
  OBVIOUS
<1> QED
  BY <1>1, <1>2, <1>3, KeyedAll, Zenon

LEMMA KeyedFive ==
    ASSUME NEW a, NEW b, NEW c, NEW d, NEW e, KeyedRec(a), KeyedRec(b), KeyedRec(c), KeyedRec(d), KeyedRec(e)
    PROVE  /\ Keyed(<<a, b, c, d, e>>)
           /\ \A y : OfType(<<a, b, c, d, e>>, y) = {r \in {a, b, c, d, e} : r.type = y}
<1>1. <<a, b, c, d, e>> \in Seq({a, b, c, d, e}) /\ DOMAIN <<a, b, c, d, e>> = {1, 2, 3, 4, 5}
  OBVIOUS
<1>2. {<<a, b, c, d, e>>[i] : i \in DOMAIN <<a, b, c, d, e>>} = {a, b, c, d, e}
  BY <1>1
<1>3. \A r \in {a, b, c, d, e} : KeyedRec(r)
  OBVIOUS
<1> QED
  BY <1>1, <1>2, <1>3, KeyedAll, Zenon

LEMMA BuiltLengths ==
    /\ \A name \in 1 .. 10 : 13 + NameLen[name] \in Nat
    /\ \A name \in 1 .. 10 : \A val :
          96 + Pad8(NameLen[name] + 1) + 4 + (IF val.stream > 0 THEN 44 ELSE 0) \in Nat
    /\ \A name \in 1 .. 3 : 11 + AttrLen[name] \in Nat
    /\ 4 + 56 \in Nat /\ 4 + (16 + ZattrBytes) \in Nat /\ 4 + 16 \in Nat
    /\ 4 + 48 \in Nat /\ 4 + 10 \in Nat
<1>1. \A n \in Nat : Pad8(n + 1) \in Nat
  BY DEF Pad8, DivCeil
<1>2. \A name \in 1 .. 10 : NameLen[name] \in Nat
  BY LengthsAssumption
<1>3. \A name \in 1 .. 10 : \A val :
         96 + Pad8(NameLen[name] + 1) + 4 + (IF val.stream > 0 THEN 44 ELSE 0) \in Nat
  <2> TAKE name \in 1 .. 10
  <2> TAKE val
  <2>1. Pad8(NameLen[name] + 1) \in Nat
    BY <1>1, <1>2
  <2>2. (IF val.stream > 0 THEN 44 ELSE 0) \in Nat
    OBVIOUS
  <2> HIDE DEF Pad8
  <2> QED
    BY <2>1, <2>2
<1>4. \A name \in 1 .. 3 : 11 + AttrLen[name] \in Nat
  BY DEF AttrLen
<1> QED
  BY <1>2, <1>3, <1>4, LengthsAssumption

LEMMA BuiltRecords ==
    /\ \A id \in Nat, name \in 1 .. 10 : \A parent, val : KeyedRec(BuildInode(id, parent, name, val))
    /\ \A parent \in Nat, name \in 1 .. 10 : \A file, dtype :
          KeyedRec(BuildDrec(parent, name, file, dtype))
    /\ \A id \in Nat : KeyedRec(BuildDstreamId(id))
    /\ \A id \in Nat, logical \in Nat : \A n, phys : KeyedRec(BuildFileExtent(id, logical, n, phys))
    /\ \A id \in Nat, name \in 1 .. 3 : \A bytes \in {56, 16 + ZattrBytes, 16, 48, 10} : \A val :
          KeyedRec(BuildXattr(id, name, bytes, val))
    /\ \A phys \in Nat : \A n, owner : KeyedRec(BuildPhysExt(phys, n, owner))
<1>1. ASSUME NEW id \in Nat, NEW type \in Nat, NEW number \in Nat, NEW name \in Nat,
             NEW klen \in Nat, NEW vlen \in Nat, NEW val
      PROVE  KeyedRec(Rec(id, type, number, name, klen, vlen, val))
  BY DEF KeyedRec, RecFields, Rec
<1> HIDE DEF KeyedRec
<1>2. \A name \in 1 .. 10 : Hash[name] \in Nat /\ name \in Nat
  BY HashAssumption
<1>3. /\ InodeRec \in Nat /\ DirRec \in Nat /\ DstreamId \in Nat /\ FileExtent \in Nat
      /\ XattrRec \in Nat /\ PhysExt \in Nat /\ 0 \in Nat
      /\ 4 \in Nat /\ 8 \in Nat /\ 16 \in Nat /\ 18 \in Nat /\ 20 \in Nat /\ 24 \in Nat
  BY DEF InodeRec, DirRec, DstreamId, FileExtent, XattrRec, PhysExt
<1>4. \A name \in 1 .. 3 : name \in Nat
  OBVIOUS
<1>5. \A bytes \in {56, 16 + ZattrBytes, 16, 48, 10} : 4 + bytes \in Nat
  BY BuiltLengths
<1> QED
  BY <1>1, <1>2, <1>3, <1>4, <1>5, BuiltLengths, Zenon DEF BuildInode, BuildDrec, BuildDstreamId,
     BuildFileExtent, BuildXattr, BuildPhysExt

LEMMA BuiltTypes ==
    /\ \A id, parent, name, val : BuildInode(id, parent, name, val).type # FileExtent
    /\ \A parent, name, file, dtype : BuildDrec(parent, name, file, dtype).type # FileExtent
    /\ \A id : BuildDstreamId(id).type # FileExtent
    /\ \A id, logical, n, phys : BuildFileExtent(id, logical, n, phys).type = FileExtent
    /\ \A id, name, bytes, val : BuildXattr(id, name, bytes, val).type # FileExtent
    /\ \A phys, n, owner : BuildPhysExt(phys, n, owner).type = PhysExt
BY DEF Rec, BuildInode, BuildDrec, BuildDstreamId, BuildFileExtent, BuildXattr, BuildPhysExt,
   InodeRec, DirRec, DstreamId, FileExtent, XattrRec, PhysExt

LEMMA FileRecords ==
    ASSUME NEW id \in Nat, NEW parent \in Nat, NEW name \in 1 .. 10, NEW val
    PROVE  Keyed(File(id, parent, name, val)) /\ OfType(File(id, parent, name, val), FileExtent) = {}
<1>1. /\ KeyedRec(BuildInode(id, parent, name, val)) /\ KeyedRec(BuildDrec(parent, name, id, DtReg))
      /\ BuildInode(id, parent, name, val).type # FileExtent
      /\ BuildDrec(parent, name, id, DtReg).type # FileExtent
  BY BuiltRecords, BuiltTypes
<1> QED
  BY <1>1, KeyedTwo DEF File

LEMMA NewRecordsFacts ==
    ASSUME NEW next \in Nat, NEW b
    PROVE  /\ Keyed(NewRecords(next, b))
           /\ OfType(NewRecords(next, b), FileExtent) = NewExtents(next, b)
<1> DEFINE e1 == BuildFileExtent(next, 0, 1, b[1])
           e2 == BuildFileExtent(next + 2, 0, 1, b[2])
           e3 == BuildFileExtent(next + 3, 0, 2, b[3])
           e4 == BuildFileExtent(next + 3, 2 * BlockBytes, 1, b[4])
           e5 == BuildFileExtent(next + 3, 3 * BlockBytes, 2, b[5])
           e6 == BuildFileExtent(Streams(next), 0, RsrcBlocks, b[6])
           p1 == File(next, RootDir, Hello, Plain(28))
           p2 == <<BuildDstreamId(next), e1>>
           p3 == <<BuildInode(next + 1, RootDir, Docs, [Zeroed EXCEPT !.mode = "dir", !.kids = 2]),
                 BuildDrec(RootDir, Docs, next + 1, DtDir)>>
           p4 == File(next + 2, next + 1, Readme, Plain(1000))
           p5 == <<BuildDstreamId(next + 2), e2>>
           p6 == File(next + 3, next + 1, BigBin, Plain(14336))
           p7 == <<BuildDstreamId(next + 3), e3, e4, e5>>
           p8 == File(next + 5, RootDir, PlainTxt, Compressed(39))
           p9 == File(next + 6, RootDir, PackedTxt, Compressed(3000))
           p10 == File(next + 7, RootDir, PackedRsrc, Compressed(100000))
           p11 == <<BuildXattr(next + 5, DecmpfsAttr, 56, [algo |-> 9, size |-> 39]),
                 BuildXattr(next + 6, DecmpfsAttr, 16 + ZattrBytes, [algo |-> 3, size |-> 3000]),
                 BuildXattr(next + 7, DecmpfsAttr, 16, [algo |-> 4, size |-> 100000]),
                 BuildXattr(next + 7, RsrcAttr, 48, [stream |-> Streams(next), size |-> RsrcBytes]),
                 e6>>
           p12 == <<BuildInode(next + 4, RootDir, Link, [Zeroed EXCEPT !.mode = "link"]),
                 BuildDrec(RootDir, Link, next + 4, DtLnk),
                 BuildXattr(next + 4, SymlinkAttr, 10, [target |-> Hello])>>
<1>1. NewRecords(next, b) =
        p1 \o p2 \o p3 \o p4 \o p5 \o p6 \o p7 \o p8 \o p9 \o p10 \o p11 \o p12
  BY SMT DEF NewRecords
<1>2. /\ next + 1 \in Nat /\ next + 2 \in Nat /\ next + 3 \in Nat /\ next + 4 \in Nat
      /\ next + 5 \in Nat /\ next + 6 \in Nat /\ next + 7 \in Nat
      /\ RootDir \in Nat /\ Streams(next) \in Nat
  BY DEF RootDir, Streams
<1>3. /\ Hello \in 1 .. 10 /\ Docs \in 1 .. 10 /\ Readme \in 1 .. 10 /\ BigBin \in 1 .. 10
      /\ PlainTxt \in 1 .. 10 /\ PackedTxt \in 1 .. 10 /\ PackedRsrc \in 1 .. 10 /\ Link \in 1 .. 10
      /\ DecmpfsAttr \in 1 .. 3 /\ RsrcAttr \in 1 .. 3 /\ SymlinkAttr \in 1 .. 3
  BY DEF Hello, Docs, Readme, BigBin, PlainTxt, PackedTxt, PackedRsrc, Link, DecmpfsAttr, RsrcAttr,
     SymlinkAttr
<1>4. \A e \in {e1, e2, e3, e4, e5, e6} : KeyedRec(e) /\ e.type = FileExtent
  <2>1. 0 \in Nat /\ 2 * BlockBytes \in Nat /\ 3 * BlockBytes \in Nat
    BY BlockBytesAssumption
  <2>2. /\ KeyedRec(e1) /\ KeyedRec(e2) /\ KeyedRec(e3)
        /\ KeyedRec(e4) /\ KeyedRec(e5) /\ KeyedRec(e6)
    BY <1>2, <2>1, BuiltRecords, Zenon
  <2>3. /\ e1.type = FileExtent /\ e2.type = FileExtent /\ e3.type = FileExtent
        /\ e4.type = FileExtent /\ e5.type = FileExtent /\ e6.type = FileExtent
    BY BuiltTypes, Zenon
  <2> HIDE DEF e1, e2, e3, e4, e5, e6
  <2> QED
    BY <2>2, <2>3
<1>5. NewExtents(next, b) = {e1, e2, e3, e4, e5, e6}
  <2>1. /\ e1 = NewExtent(next, b, 1) /\ e2 = NewExtent(next, b, 2) /\ e3 = NewExtent(next, b, 3)
        /\ e4 = NewExtent(next, b, 4) /\ e5 = NewExtent(next, b, 5) /\ e6 = NewExtent(next, b, 6)
    BY WantedAt, OwnerAt, LogicalAt, Zenon DEF NewExtent
  <2> HIDE DEF e1, e2, e3, e4, e5, e6
  <2> QED
    BY <2>1, Six DEF NewExtents
<1> HIDE DEF e1, e2, e3, e4, e5, e6
<1>11. Keyed(p1) /\ OfType(p1, FileExtent) = {}
  BY <1>2, <1>3, FileRecords
<1>12. Keyed(p2) /\ OfType(p2, FileExtent) = {e1}
  BY <1>2, <1>3, <1>4, BuiltRecords, BuiltTypes, KeyedTwo
<1>13. Keyed(p3) /\ OfType(p3, FileExtent) = {}
  BY <1>2, <1>3, <1>4, BuiltRecords, BuiltTypes, KeyedTwo
<1>14. Keyed(p4) /\ OfType(p4, FileExtent) = {}
  BY <1>2, <1>3, FileRecords
<1>15. Keyed(p5) /\ OfType(p5, FileExtent) = {e2}
  BY <1>2, <1>3, <1>4, BuiltRecords, BuiltTypes, KeyedTwo
<1>16. Keyed(p6) /\ OfType(p6, FileExtent) = {}
  BY <1>2, <1>3, FileRecords
<1>17. Keyed(p7) /\ OfType(p7, FileExtent) = {e3, e4, e5}
  BY <1>2, <1>3, <1>4, BuiltRecords, BuiltTypes, KeyedFour
<1>18. Keyed(p8) /\ OfType(p8, FileExtent) = {}
  BY <1>2, <1>3, FileRecords
<1>19. Keyed(p9) /\ OfType(p9, FileExtent) = {}
  BY <1>2, <1>3, FileRecords
<1>20. Keyed(p10) /\ OfType(p10, FileExtent) = {}
  BY <1>2, <1>3, FileRecords
<1>21. Keyed(p11) /\ OfType(p11, FileExtent) = {e6}
  BY <1>2, <1>3, <1>4, BuiltRecords, BuiltTypes, KeyedFive
<1>22. Keyed(p12) /\ OfType(p12, FileExtent) = {}
  BY <1>2, <1>3, <1>4, BuiltRecords, BuiltTypes, KeyedThree
<1> HIDE DEF p1, p2, p3, p4, p5, p6, p7, p8, p9, p10, p11, p12
<1>23. /\ Keyed(p1 \o p2)
      /\ OfType(p1 \o p2, FileExtent) = {e1}
  BY <1>11, <1>12, KeyedConcat
<1>24. /\ Keyed(p1 \o p2 \o p3)
      /\ OfType(p1 \o p2 \o p3, FileExtent) = {e1}
  BY <1>23, <1>13, KeyedConcat
<1>25. /\ Keyed(p1 \o p2 \o p3 \o p4)
      /\ OfType(p1 \o p2 \o p3 \o p4, FileExtent) = {e1}
  BY <1>24, <1>14, KeyedConcat
<1>26. /\ Keyed(p1 \o p2 \o p3 \o p4 \o p5)
      /\ OfType(p1 \o p2 \o p3 \o p4 \o p5, FileExtent) = {e1, e2}
  BY <1>25, <1>15, KeyedConcat
<1>27. /\ Keyed(p1 \o p2 \o p3 \o p4 \o p5 \o p6)
      /\ OfType(p1 \o p2 \o p3 \o p4 \o p5 \o p6, FileExtent) = {e1, e2}
  BY <1>26, <1>16, KeyedConcat
<1>28. /\ Keyed(p1 \o p2 \o p3 \o p4 \o p5 \o p6 \o p7)
      /\ OfType(p1 \o p2 \o p3 \o p4 \o p5 \o p6 \o p7, FileExtent) = {e1, e2, e3, e4, e5}
  BY <1>27, <1>17, KeyedConcat
<1>29. /\ Keyed(p1 \o p2 \o p3 \o p4 \o p5 \o p6 \o p7 \o p8)
      /\ OfType(p1 \o p2 \o p3 \o p4 \o p5 \o p6 \o p7 \o p8, FileExtent) = {e1, e2, e3, e4, e5}
  BY <1>28, <1>18, KeyedConcat
<1>30. /\ Keyed(p1 \o p2 \o p3 \o p4 \o p5 \o p6 \o p7 \o p8 \o p9)
      /\ OfType(p1 \o p2 \o p3 \o p4 \o p5 \o p6 \o p7 \o p8 \o p9, FileExtent) = {e1, e2, e3, e4, e5}
  BY <1>29, <1>19, KeyedConcat
<1>31. /\ Keyed(p1 \o p2 \o p3 \o p4 \o p5 \o p6 \o p7 \o p8 \o p9 \o p10)
      /\ OfType(p1 \o p2 \o p3 \o p4 \o p5 \o p6 \o p7 \o p8 \o p9 \o p10, FileExtent) = {e1, e2, e3, e4, e5}
  BY <1>30, <1>20, KeyedConcat
<1>32. /\ Keyed(p1 \o p2 \o p3 \o p4 \o p5 \o p6 \o p7 \o p8 \o p9 \o p10 \o p11)
      /\ OfType(p1 \o p2 \o p3 \o p4 \o p5 \o p6 \o p7 \o p8 \o p9 \o p10 \o p11, FileExtent)
           = {e1, e2, e3, e4, e5, e6}
  BY <1>31, <1>21, KeyedConcat
<1>33. /\ Keyed(p1 \o p2 \o p3 \o p4 \o p5 \o p6 \o p7 \o p8 \o p9 \o p10 \o p11 \o p12)
      /\ OfType(p1 \o p2 \o p3 \o p4 \o p5 \o p6 \o p7 \o p8 \o p9 \o p10 \o p11 \o p12, FileExtent)
           = {e1, e2, e3, e4, e5, e6}
  BY <1>32, <1>22, KeyedConcat
<1> QED
  BY <1>1, <1>5, <1>33, Zenon

LEMMA NewReferencesFacts ==
    ASSUME NEW next \in Nat, NEW b, \A i \in 1 .. 6 : b[i] \in Nat
    PROVE  /\ Keyed(NewReferences(next, b))
           /\ OfType(NewReferences(next, b), PhysExt) = NewPhysExts(next, b)
<1> DEFINE R(i) == BuildPhysExt(b[i], Wanted[i], Owner(next)[i])
           s == <<R(1), R(2), R(3), R(4), R(5), R(6)>>
           S == {R(1), R(2), R(3), R(4), R(5), R(6)}
<1>1. NewReferences(next, b) = s
  <2>1. /\ R(1) = BuildPhysExt(b[1], 1, next)
        /\ R(2) = BuildPhysExt(b[2], 1, next + 2)
        /\ R(3) = BuildPhysExt(b[3], 2, next + 3)
        /\ R(4) = BuildPhysExt(b[4], 1, next + 3)
        /\ R(5) = BuildPhysExt(b[5], 2, next + 3)
        /\ R(6) = BuildPhysExt(b[6], RsrcBlocks, Streams(next))
    BY WantedAt, OwnerAt, Zenon
  <2> HIDE DEF R
  <2> QED
    BY <2>1, Zenon DEF NewReferences
<1>2. \A i \in {1, 2, 3, 4, 5, 6} : KeyedRec(R(i)) /\ R(i).type = PhysExt
  BY Six, BuiltRecords, BuiltTypes, Zenon
<1> HIDE DEF R
<1>3. \A r \in S : KeyedRec(r) /\ r.type = PhysExt
  BY <1>2
<1>4. s \in Seq(S) /\ DOMAIN s = {1, 2, 3, 4, 5, 6}
  BY Six
<1>5. {s[i] : i \in DOMAIN s} = S
  BY <1>4
<1> HIDE DEF s
<1>6. Keyed(s) /\ OfType(s, PhysExt) = {r \in S : r.type = PhysExt}
  <2>1. \A r \in S : KeyedRec(r)
    BY <1>3
  <2>2. s \in Seq(S) /\ {s[i] : i \in DOMAIN s} = S
    BY <1>4, <1>5
  <2> HIDE DEF S
  <2>3. Keyed(s) /\ \A y : OfType(s, y) = {r \in S : r.type = y}
    BY <2>1, <2>2, KeyedAll
  <2> QED
    BY <2>3, Zenon
<1>7. NewPhysExts(next, b) = S
  BY Six DEF NewPhysExts, R
<1> QED
  BY <1>1, <1>3, <1>6, <1>7

\* Blocks taken by the first k allocations.
Spent == <<0, 1, 2, 4, 5, 7, Total>>

LEMMA SpentFacts ==
    /\ Spent[1] = 0 /\ Spent[7] = Total /\ Total \in Nat
    /\ \A k \in 0 .. 5 : Spent[k + 1] \in Nat /\ Spent[k + 1 + 1] = Spent[k + 1] + Wanted[k + 1]
<1> DEFINE r == RsrcBlocks
           s == <<0, 1, 2, 4, 5, 7, 7 + r>>
           w == <<1, 1, 2, 1, 2, r>>
<1>1. r \in Nat
  BY BlocksAssumption
<1> HIDE DEF r
<1>2. /\ s[1] = 0 /\ s[2] = 1 /\ s[3] = 2 /\ s[4] = 4 /\ s[5] = 5 /\ s[6] = 7 /\ s[7] = 7 + r
      /\ w[1] = 1 /\ w[2] = 1 /\ w[3] = 2 /\ w[4] = 1 /\ w[5] = 2 /\ w[6] = r
  OBVIOUS
<1> HIDE DEF s, w
<1>3. 0 .. 5 = {0, 1, 2, 3, 4, 5}
  OBVIOUS
<1>4. \A k \in {0, 1, 2, 3, 4, 5} : s[k + 1] \in Nat /\ s[k + 1 + 1] = s[k + 1] + w[k + 1]
  BY <1>1, <1>2
<1>5. Spent = s /\ Wanted = w /\ Total = 7 + r
  BY DEF Spent, Wanted, Total, s, w, r
<1> QED
  BY <1>1, <1>2, <1>3, <1>4, <1>5

Sound(d) == d.kind = "container" =>
    /\ Accounted(d) /\ Keyed(ReadNode(d.tree)) /\ Keyed(ReadNode(d.refs)) /\ d.next \in Nat
    /\ d.tree.toc \in Nat /\ d.refs.toc \in Nat

\* The bitmap of the copy is the disk's and the allocations.
Spending ==
    pc # "idle" =>
        /\ disk.kind = "container" /\ img.system = disk.system
        /\ \A x : x \in img.used <=> x \in disk.used \/ \E i \in 1 .. Len(blk) : x \in Blk(i)
        /\ img.chunkFree = disk.chunkFree - Spent[Len(blk) + 1]
        /\ pc # "alloc" => Len(blk) = 6

\* The trees of the copy are the disk's until they are rebuilt.
TreeFilled(tree) ==
    /\ Keyed(ReadNode(tree)) /\ tree.toc \in Nat
    /\ OfType(ReadNode(tree), FileExtent)
         = OfType(ReadNode(disk.tree), FileExtent) \cup NewExtents(disk.next, blk)

RefsFilled(refs) ==
    /\ Keyed(ReadNode(refs)) /\ refs.toc \in Nat
    /\ OfType(ReadNode(refs), PhysExt)
         = OfType(ReadNode(disk.refs), PhysExt) \cup NewPhysExts(disk.next, blk)

Filling ==
    pc # "idle" =>
        /\ IF pc \in {"alloc", "tree"} THEN img.tree = disk.tree ELSE TreeFilled(img.tree)
        /\ IF pc \in {"alloc", "tree", "refs"} THEN img.refs = disk.refs ELSE RefsFilled(img.refs)
        /\ IF pc = "write"
             THEN img.next = NextAfter(disk.next) /\ img.alloced = disk.alloced + Total
             ELSE img.next = disk.next /\ img.alloced = disk.alloced

SpaceInv == Sound(disk) /\ Spending /\ Filling

\* The blocks of the new extents.
LEMMA NewBlocks ==
    ASSUME NEW i \in 1 .. 6, NEW next, blk[i] \in Nat
    PROVE  /\ BlocksOf(NewExtent(next, blk, i)) = Blk(i)
           /\ NewExtent(next, blk, i).val.phys = blk[i]
           /\ NewExtent(next, blk, i).val.len \div BlockBytes = Wanted[i]
           /\ NewExtent(next, blk, i).id = Owner(next)[i]
<1> DEFINE e == NewExtent(next, blk, i)
<1>1. e.val.phys = blk[i] /\ e.val.len = Wanted[i] * BlockBytes /\ e.id = Owner(next)[i]
  BY DEF NewExtent, BuildFileExtent, Rec
<1>2. Wanted[i] \in Nat
  BY WantedPositive
<1>3. \A n \in Nat, b \in Nat \ {0} : (n * b) \div b = n
  OBVIOUS
<1>4. e.val.len \div BlockBytes = Wanted[i]
  BY <1>1, <1>2, <1>3, BlockBytesAssumption, Zenon
<1> HIDE DEF e
<1>5. BlocksOf(e) = Blk(i)
  BY <1>1, <1>4, Zenon DEF BlocksOf, Blk, Marked
<1> QED
  BY <1>1, <1>4, <1>5 DEF e

\* What the six allocations took is what the bitmap gained.
LEMMA TakenCounted ==
    ASSUME NEW more \in SUBSET AllBlocks, NEW system, NEW taken,
           taken \cap system = {}, system \cup taken \subseteq more
    PROVE  /\ Cardinality(taken) \in Nat
           /\ Cardinality(AllBlocks \ (system \cup taken)) \in Nat
           /\ Cardinality(AllBlocks \ more) \in Nat
           /\ Cardinality(more \ system) = Cardinality(taken)
                + (Cardinality(AllBlocks \ (system \cup taken)) - Cardinality(AllBlocks \ more))
<1> DEFINE used == system \cup taken
<1>0. used \in SUBSET AllBlocks /\ used \subseteq more
  OBVIOUS
<1>1. IsFiniteSet(AllBlocks) /\ Cardinality(AllBlocks) \in Nat
  <2>1. 0 \in Int /\ Blocks - 1 \in Int
    BY BlocksAssumption
  <2>2. IsFiniteSet(AllBlocks)
    BY <2>1, FS_Interval DEF AllBlocks
  <2> QED
    BY <2>2, FS_CardinalityType
<1>2. IsFiniteSet(more) /\ IsFiniteSet(used) /\ IsFiniteSet(system) /\ IsFiniteSet(taken)
  <2>1. system \in SUBSET AllBlocks /\ taken \in SUBSET AllBlocks
    OBVIOUS
  <2> HIDE DEF used
  <2> QED
    BY <1>0, <1>1, <2>1, FS_Subset
<1>3. /\ Cardinality(more) \in Nat /\ Cardinality(used) \in Nat
      /\ Cardinality(system) \in Nat /\ Cardinality(taken) \in Nat
  BY <1>2, FS_CardinalityType
<1>4. /\ Cardinality(AllBlocks \ more) = Cardinality(AllBlocks) - Cardinality(more)
      /\ Cardinality(AllBlocks \ used) = Cardinality(AllBlocks) - Cardinality(used)
  <2>1. AllBlocks \cap more = more /\ AllBlocks \cap used = used
    BY <1>0
  <2>2. /\ Cardinality(AllBlocks \ more) = Cardinality(AllBlocks) - Cardinality(AllBlocks \cap more)
        /\ Cardinality(AllBlocks \ used) = Cardinality(AllBlocks) - Cardinality(AllBlocks \cap used)
    BY <1>1, FS_Difference
  <2> QED
    BY <2>1, <2>2, Zenon
<1>5. Cardinality(used) = Cardinality(system) + Cardinality(taken)
  <2>1. Cardinality(used) = Cardinality(system) + Cardinality(taken) - Cardinality(system \cap taken)
    BY <1>2, FS_Union
  <2>2. Cardinality(system \cap taken) = 0
    <3>1. system \cap taken = {}
      OBVIOUS
    <3> QED
      BY <3>1, FS_EmptySet, Zenon
  <2> QED
    BY <1>3, <2>1, <2>2
<1>6. Cardinality(more \ system) = Cardinality(more) - Cardinality(system)
  <2>1. more \cap system = system
    OBVIOUS
  <2> QED
    BY <1>2, <2>1, FS_Difference
<1>7. Cardinality(AllBlocks \ used) \in Nat /\ Cardinality(AllBlocks \ more) \in Nat
  BY <1>1, FS_Difference, FS_CardinalityType
<1> HIDE DEF used
<1>8. Cardinality(more \ system)
        = Cardinality(taken) + (Cardinality(AllBlocks \ used) - Cardinality(AllBlocks \ more))
  BY <1>1, <1>3, <1>4, <1>5, <1>6
<1> QED
  BY <1>3, <1>7, <1>8 DEF used

\* What the injector writes is accounted for again.
LEMMA WrittenAccounted ==
    ASSUME IInv, SpaceInv, pc = "write"
    PROVE  Accounted(img)
<1> DEFINE old == OfType(ReadNode(disk.tree), FileExtent)
           new == NewExtents(disk.next, blk)
           taken == UNION {BlocksOf(e) : e \in old}
           added == UNION {Blk(i) : i \in 1 .. 6}
           N(i) == NewExtent(disk.next, blk, i)
<1>1. /\ disk.kind = "container" /\ img.system = disk.system /\ Len(blk) = 6
      /\ img.used = disk.used \cup added
      /\ img.chunkFree = disk.chunkFree - Total
      /\ img.alloced = disk.alloced + Total
      /\ OfType(ReadNode(img.tree), FileExtent) = old \cup new
      /\ OfType(ReadNode(img.refs), PhysExt)
           = OfType(ReadNode(disk.refs), PhysExt) \cup NewPhysExts(disk.next, blk)
  <2>1. Len(blk) = 6
    BY DEF SpaceInv, Spending
  <2>2. Spent[Len(blk) + 1] = Total
    BY <2>1, SpentFacts
  <2>3. 1 .. Len(blk) = 1 .. 6
    BY <2>1
  <2>4. img.used = disk.used \cup added
    <3>1. \A x : x \in img.used <=> x \in disk.used \/ \E i \in 1 .. 6 : x \in Blk(i)
      BY <2>3 DEF SpaceInv, Spending
    <3>2. \A x : x \in added <=> \E i \in 1 .. 6 : x \in Blk(i)
      OBVIOUS
    <3> HIDE DEF added
    <3>3. \A x : x \in img.used <=> x \in disk.used \cup added
      BY <3>1, <3>2
    <3> QED
      BY <3>3
  <2> QED
    BY <2>1, <2>2, <2>4 DEF SpaceInv, Spending, Filling, TreeFilled, RefsFilled
<1>2. /\ \A e, f \in old : e # f => BlocksOf(e) \cap BlocksOf(f) = {}
      /\ taken \cap disk.system = {} /\ disk.used = disk.system \cup taken
      /\ disk.alloced = Cardinality(taken)
      /\ {<<r.id, r.val.blocks, r.val.owner>> : r \in OfType(ReadNode(disk.refs), PhysExt)}
           = {<<e.val.phys, e.val.len \div BlockBytes, e.id>> : e \in old}
  BY <1>1 DEF SpaceInv, Sound, Accounted
<1>3. /\ disk.used \subseteq AllBlocks /\ disk.chunkFree = Cardinality(AllBlocks \ disk.used)
      /\ img.used \subseteq AllBlocks /\ img.chunkFree = Cardinality(AllBlocks \ img.used)
  BY <1>1 DEF IInv, Counted
<1>4. ASSUME NEW i \in 1 .. 6
      PROVE  /\ blk[i] \in Nat /\ Blk(i) \subseteq AllBlocks \ disk.used
             /\ BlocksOf(N(i)) = Blk(i) /\ N(i).val.phys = blk[i]
             /\ N(i).val.len \div BlockBytes = Wanted[i] /\ N(i).id = Owner(disk.next)[i]
  <2>1. i \in 1 .. Len(blk)
    BY <1>1
  <2>2. blk[i] \in AllBlocks
    BY <2>1, ElementOfSeq DEF IInv, BlkOK
  <2>3. blk[i] \in Nat
    BY <2>2 DEF AllBlocks
  <2>4. Blk(i) \subseteq AllBlocks \ disk.used
    BY <2>1 DEF IInv, NothingShared
  <2> QED
    BY <2>3, <2>4, NewBlocks
<1>5. ASSUME NEW i \in 1 .. 6, NEW j \in 1 .. 6, i # j
      PROVE  Blk(i) \cap Blk(j) = {}
  <2>1. i \in 1 .. Len(blk) /\ j \in 1 .. Len(blk)
    BY <1>1
  <2>2. i < j \/ j < i
    BY <1>5
  <2>3. \A k, m \in 1 .. Len(blk) : k < m => Blk(k) \cap Blk(m) = {}
    BY DEF IInv, NothingShared
  <2> QED
    BY <2>1, <2>2, <2>3
<1>6. new = {N(i) : i \in 1 .. 6}
  BY DEF NewExtents
<1> HIDE DEF old, new, taken, added, N
<1>7. \A e \in new : \E i \in 1 .. 6 : e = N(i)
  BY <1>6
<1>8. \A e \in old : BlocksOf(e) \subseteq disk.used
  BY <1>2 DEF taken
<1>9. \A e, f \in old \cup new : e # f => BlocksOf(e) \cap BlocksOf(f) = {}
  <2> SUFFICES ASSUME NEW e \in old \cup new, NEW f \in old \cup new, e # f
               PROVE  BlocksOf(e) \cap BlocksOf(f) = {}
    OBVIOUS
  <2>1. CASE e \in old /\ f \in old
    BY <1>2, <2>1
  <2>2. CASE e \in old /\ f \in new
    <3>1. PICK j \in 1 .. 6 : f = N(j)
      BY <1>7, <2>2
    <3> QED
      BY <1>4, <1>8, <2>2, <3>1
  <2>3. CASE e \in new /\ f \in old
    <3>1. PICK j \in 1 .. 6 : e = N(j)
      BY <1>7, <2>3
    <3> QED
      BY <1>4, <1>8, <2>3, <3>1
  <2>4. CASE e \in new /\ f \in new
    <3>1. PICK i \in 1 .. 6 : e = N(i)
      BY <1>7, <2>4
    <3>2. PICK j \in 1 .. 6 : f = N(j)
      BY <1>7, <2>4
    <3>3. i # j
      BY <3>1, <3>2
    <3> QED
      BY <1>4, <1>5, <3>1, <3>2, <3>3
  <2> QED
    BY <2>1, <2>2, <2>3, <2>4
<1> DEFINE all == UNION {BlocksOf(e) : e \in old \cup new}
<1>10. all = taken \cup added
  <2>1. \A x \in all : x \in taken \cup added
    <3> SUFFICES ASSUME NEW e \in old \cup new, NEW x \in BlocksOf(e) PROVE x \in taken \cup added
      OBVIOUS
    <3>1. CASE e \in old
      BY <3>1 DEF taken
    <3>2. CASE e \in new
      <4>1. PICK i \in 1 .. 6 : e = N(i)
        BY <1>7, <3>2
      <4> QED
        BY <1>4, <4>1 DEF added
    <3> QED
      BY <3>1, <3>2
  <2>2. taken \subseteq all
    BY DEF taken
  <2>3. added \subseteq all
    <3> SUFFICES ASSUME NEW i \in 1 .. 6, NEW x \in Blk(i) PROVE x \in all
      BY DEF added
    <3>1. N(i) \in new /\ x \in BlocksOf(N(i))
      BY <1>4, <1>6
    <3> QED
      BY <3>1
  <2> QED
    BY <2>1, <2>2, <2>3
<1> HIDE DEF all
<1>11. added \cap disk.used = {}
  BY <1>4 DEF added
<1>12. all \cap img.system = {} /\ img.used = img.system \cup all
  <2>1. disk.system \subseteq disk.used
    BY <1>2
  <2> QED
    BY <1>1, <1>2, <1>10, <1>11, <2>1
<1>13. img.alloced = Cardinality(all)
  <2>1. img.used \ disk.system = all
    BY <1>1, <1>12
  <2>2. Cardinality(img.used \ disk.system) = Cardinality(taken) + Total
    <3> DEFINE y == disk.system
               m == img.used
               u == Cardinality(AllBlocks \ (y \cup taken))
               v == Cardinality(AllBlocks \ m)
    <3>1. /\ m \in SUBSET AllBlocks /\ taken \cap y = {} /\ y \cup taken \subseteq m
      BY <1>1, <1>2, <1>3
    <3> HIDE DEF y, m
    <3>2. Cardinality(taken) \in Nat /\ u \in Nat /\ v \in Nat
      BY <3>1, TakenCounted, Zenon
    <3>3. Cardinality(m \ y) = Cardinality(taken) + (u - v)
      BY <3>1, TakenCounted, Zenon
    <3>4. u = disk.chunkFree /\ v = img.chunkFree
      BY <1>2, <1>3, Zenon DEF y, m
    <3> HIDE DEF u, v
    <3>5. u - v = Total
      BY <1>1, <3>2, <3>4, SpentFacts
    <3> QED
      BY <3>3, <3>5 DEF y, m
  <2> QED
    BY <1>1, <1>2, <2>1, <2>2
<1>14. {<<r.id, r.val.blocks, r.val.owner>> : r \in OfType(ReadNode(img.refs), PhysExt)}
         = {<<e.val.phys, e.val.len \div BlockBytes, e.id>> : e \in old \cup new}
  <2> DEFINE P == OfType(ReadNode(disk.refs), PhysExt)
             Q == NewPhysExts(disk.next, blk)
             f(r) == <<r.id, r.val.blocks, r.val.owner>>
             g(e) == <<e.val.phys, e.val.len \div BlockBytes, e.id>>
             p(i) == BuildPhysExt(blk[i], Wanted[i], Owner(disk.next)[i])
  <2>1. \A i \in 1 .. 6 : f(p(i)) = g(N(i))
    <3> SUFFICES ASSUME NEW i \in 1 .. 6 PROVE f(p(i)) = g(N(i))
      OBVIOUS
    <3>1. f(p(i)) = <<blk[i], Wanted[i], Owner(disk.next)[i]>>
      BY DEF BuildPhysExt, Rec
    <3> HIDE DEF p
    <3> QED
      BY <1>4, <3>1
  <2>2. Q = {p(i) : i \in 1 .. 6}
    BY DEF NewPhysExts
  <2>3. OfType(ReadNode(img.refs), PhysExt) = P \cup Q
    BY <1>1
  <2>4. {f(r) : r \in P} = {g(e) : e \in old}
    BY <1>2
  <2> HIDE DEF P, Q, f, g, p
  <2>5. {f(r) : r \in Q} = {g(e) : e \in new}
    BY <1>6, <2>1, <2>2
  <2>6. {f(r) : r \in P \cup Q} = {f(r) : r \in P} \cup {f(r) : r \in Q}
    OBVIOUS
  <2>7. {g(e) : e \in old \cup new} = {g(e) : e \in old} \cup {g(e) : e \in new}
    OBVIOUS
  <2>8. {f(r) : r \in OfType(ReadNode(img.refs), PhysExt)} = {g(e) : e \in old \cup new}
    BY <2>3, <2>4, <2>5, <2>6, <2>7
  <2> QED
    BY <2>8 DEF f, g
<1> QED
  BY <1>1, <1>9, <1>12, <1>13, <1>14, Zenon DEF Accounted, all

LEMMA SpaceInit == FixtureInit => SpaceInv
BY AccountedAssumption DEF FixtureInit, SpaceInv, Sound, Spending, Filling

\* Steps that leave the allocations alone.
LEMMA SpendingKept ==
    ASSUME Spending, pc # "idle", pc' # "alloc", Len(blk) = 6, UNCHANGED <<disk, blk>>,
           img'.system = img.system, img'.used = img.used, img'.chunkFree = img.chunkFree
    PROVE  Spending'
<1>1. \A i \in 1 .. Len(blk) : Blk(i)' = Blk(i)
  BY DEF Blk
<1> QED
  BY <1>1 DEF Spending

LEMMA SpaceIdle ==
    ASSUME NEW how, Ends(how), Sound(disk')
    PROVE  SpaceInv'
BY DEF Ends, SpaceInv, Spending, Filling

LEMMA SpaceLoad == IInv /\ SpaceInv /\ Load => SpaceInv'
<1> SUFFICES ASSUME IInv, SpaceInv, Load PROVE SpaceInv'
  OBVIOUS
<1>1. disk' = disk /\ Sound(disk')
  BY DEF Load, SpaceInv
<1>2. CASE ~ Discovered(disk)
  BY <1>1, <1>2, SpaceIdle DEF Load
<1>3. CASE Discovered(disk)
  <2>1. img' = disk /\ pc' = "alloc" /\ blk' = <<>> /\ disk.kind = "container"
    BY <1>3 DEF Load, Discovered
  <2>2. Len(blk') = 0
    BY <2>1
  <2>3. \A x : ~ \E i \in 1 .. Len(blk') : x \in Blk(i)'
    BY <2>2
  <2>4. disk.chunkFree = disk.chunkFree - Spent[Len(blk') + 1]
    <3>1. IsFiniteSet(AllBlocks \ disk.used)
      <4>1. 0 \in Int /\ Blocks - 1 \in Int
        BY BlocksAssumption
      <4> QED
        BY <4>1, FS_Interval, FS_Difference DEF AllBlocks
    <3>2. disk.chunkFree \in Nat
      BY <2>1, <3>1, FS_CardinalityType DEF IInv, Counted
    <3> QED
      BY <2>2, <3>2, SpentFacts
  <2>5. Spending'
    BY <1>1, <2>1, <2>3, <2>4 DEF Spending
  <2>6. Filling'
    BY <1>1, <2>1 DEF Filling
  <2> QED
    BY <1>1, <2>5, <2>6 DEF SpaceInv
<1> QED
  BY <1>2, <1>3

LEMMA SpaceAlloc == IInv /\ SpaceInv /\ AllocBlocks => SpaceInv'
<1> SUFFICES ASSUME IInv, SpaceInv, AllocBlocks, NEW k, k = Len(blk) PROVE SpaceInv'
  OBVIOUS
<1> DEFINE n == Wanted[k + 1]
           free == Runs(img.used, n)
<1>1. /\ disk' = disk /\ pc = "alloc" /\ Sound(disk')
      /\ k \in 0 .. 5 /\ k + 1 \in 1 .. 6 /\ blk \in Seq(AllBlocks)
  <2>1. disk' = disk /\ pc = "alloc" /\ Len(blk) < Len(Wanted) /\ blk \in Seq(AllBlocks)
    BY DEF AllocBlocks, IInv, BlkOK
  <2>2. Len(Wanted) = 6
    BY WantedPositive
  <2>3. k \in Nat /\ k < 6
    BY <2>1, <2>2
  <2>4. k \in 0 .. 5 /\ k + 1 \in 1 .. 6
    BY <2>3
  <2>5. Sound(disk')
    BY <2>1 DEF SpaceInv
  <2> QED
    BY <2>1, <2>4, <2>5
<1>2. CASE free = {}
  <2>1. Ends("panic")
    BY <1>2, Zenon DEF AllocBlocks
  <2> QED
    BY <1>1, <2>1, SpaceIdle
<1>3. CASE free # {}
  <2>1. PICK s \in free :
        /\ img' = [img EXCEPT !.used = @ \cup Marked(s, n),
                              !.chunkFree = @ - n, !.devFree = @ - n,
                              !.stale = Fixed({"chunk", "spaceman"}, FixedByAlloc)]
        /\ blk' = Append(blk, s) /\ pc' = pc
    BY <1>3, Zenon DEF AllocBlocks
  <2>2. img = [f \in Fields |-> img[f]] /\ img.kind = "container" /\ disk.kind = "container"
        /\ img.chunkFree = disk.chunkFree - Spent[k + 1] /\ img.system = disk.system
        /\ \A x : x \in img.used <=> x \in disk.used \/ \E i \in 1 .. k : x \in Blk(i)
    BY <1>1 DEF IInv, Counted, SpaceInv, Spending
  <2>3. disk.chunkFree \in Nat
    <3>1. IsFiniteSet(AllBlocks \ disk.used)
      <4>1. 0 \in Int /\ Blocks - 1 \in Int
        BY BlocksAssumption
      <4> QED
        BY <4>1, FS_Interval, FS_Difference DEF AllBlocks
    <3> QED
      BY <2>2, <3>1, FS_CardinalityType DEF IInv, Counted
  <2> HIDE DEF n, free
  <2>4. /\ img'.used = img.used \cup Marked(s, n) /\ img'.chunkFree = img.chunkFree - n
        /\ img'.system = img.system /\ img'.tree = img.tree /\ img'.refs = img.refs
        /\ img'.next = img.next /\ img'.alloced = img.alloced
    <3>1. {"system", "used", "chunkFree", "devFree", "stale", "tree", "refs", "next", "alloced"}
             \subseteq Fields
      BY DEF Fields
    <3> QED
      BY <2>1, <2>2, <3>1
  <2>5. /\ Len(blk') = k + 1 /\ blk'[k + 1] = s /\ \A i \in 1 .. k : blk'[i] = blk[i]
    BY <1>1, <2>1
  <2>6. \A x : (\E i \in 1 .. k + 1 : x \in Blk(i)')
                <=> x \in Marked(s, n) \/ \E i \in 1 .. k : x \in Blk(i)
    <3>1. Blk(k + 1)' = Marked(s, n)
      BY <2>5 DEF Blk, n
    <3>2. \A i \in 1 .. k : Blk(i)' = Blk(i)
      BY <2>5 DEF Blk
    <3>3. 1 .. k + 1 = (1 .. k) \cup {k + 1}
      BY <1>1
    <3> QED
      BY <3>1, <3>2, <3>3, Zenon
  <2>7. img'.chunkFree = disk.chunkFree - Spent[k + 1 + 1]
    <3>1. Spent[k + 1] \in Nat /\ Spent[k + 1 + 1] = Spent[k + 1] + n /\ n \in Nat
      <4>1. n \in Nat
        BY <1>1, WantedPositive DEF n
      <4> QED
        BY <1>1, <4>1, SpentFacts DEF n
    <3> QED
      BY <2>2, <2>3, <2>4, <3>1
  <2>8. Spending'
    <3>1. \A x : x \in img'.used <=> x \in disk.used \/ \E i \in 1 .. k + 1 : x \in Blk(i)'
      <4>1. \A x : x \in img'.used <=> x \in img.used \/ x \in Marked(s, n)
        BY <2>4
      <4> QED
        BY <2>2, <2>6, <4>1, Zenon
    <3> QED
      BY <1>1, <2>1, <2>2, <2>4, <2>5, <2>7, <3>1, Zenon DEF Spending
  <2>9. Filling'
    BY <1>1, <2>1, <2>4 DEF SpaceInv, Filling
  <2> QED
    BY <1>1, <2>8, <2>9 DEF SpaceInv
<1> QED
  BY <1>2, <1>3

LEMMA NodeTable ==
    ASSUME NEW recs, Keyed(recs), NEW toc \in Nat
    PROVE  SerializeNode(toc, recs).toc \in Nat
<1>1. TableLen(toc, Len(recs)) \in Nat
  <2>1. Len(recs) \in Nat
    BY DEF Keyed
  <2> QED
    BY <2>1, TableHolds, Zenon
<1>2. SerializeNode(toc, recs).toc = TableLen(toc, Len(recs))
  BY DEF SerializeNode
<1> QED
  BY <1>1, <1>2, Zenon

\* What a rebuilt tree holds.
LEMMA TreeRebuilt ==
    ASSUME NEW old, Keyed(ReadNode(old)), NEW toc \in Nat, NEW next \in Nat,
           Fits(toc, Sorted(WithChildren(ReadNode(old)) \o NewRecords(next, blk)))
    PROVE  LET tree == SerializeNode(toc, Sorted(WithChildren(ReadNode(old)) \o NewRecords(next, blk)))
           IN  /\ Keyed(ReadNode(tree)) /\ tree.toc \in Nat
               /\ OfType(ReadNode(tree), FileExtent)
                    = OfType(ReadNode(old), FileExtent) \cup NewExtents(next, blk)
<1> DEFINE a == WithChildren(ReadNode(old))
           b == NewRecords(next, blk)
           recs == Sorted(a \o b)
<1>1. Keyed(a) /\ OfType(a, FileExtent) = OfType(ReadNode(old), FileExtent)
  BY KeyedWithChildren
<1>2. Keyed(b) /\ OfType(b, FileExtent) = NewExtents(next, blk)
  BY NewRecordsFacts
<1> HIDE DEF a, b
<1>3. Keyed(a \o b) /\ OfType(a \o b, FileExtent) = OfType(a, FileExtent) \cup OfType(b, FileExtent)
  BY <1>1, <1>2, KeyedConcat
<1>4. Keyed(recs) /\ OfType(recs, FileExtent) = OfType(a \o b, FileExtent)
  BY <1>3, KeyedSorted
<1>5. Fits(toc, recs)
  BY Zenon DEF recs, a, b
<1> HIDE DEF recs
<1>6. ReadNode(SerializeNode(toc, recs)) = recs /\ SerializeNode(toc, recs).toc \in Nat
  BY <1>4, <1>5, NodeRoundTrip, NodeTable
<1> QED
  BY <1>1, <1>2, <1>3, <1>4, <1>6, Zenon DEF recs, a, b

LEMMA RefsRebuilt ==
    ASSUME NEW old, Keyed(ReadNode(old)), NEW toc \in Nat, NEW next \in Nat,
           \A i \in 1 .. 6 : blk[i] \in Nat,
           Fits(toc, Sorted(ReadNode(old) \o NewReferences(next, blk)))
    PROVE  LET refs == SerializeNode(toc, Sorted(ReadNode(old) \o NewReferences(next, blk)))
           IN  /\ Keyed(ReadNode(refs)) /\ refs.toc \in Nat
               /\ OfType(ReadNode(refs), PhysExt)
                    = OfType(ReadNode(old), PhysExt) \cup NewPhysExts(next, blk)
<1> DEFINE a == ReadNode(old)
           b == NewReferences(next, blk)
           recs == Sorted(a \o b)
<1>2. Keyed(b) /\ OfType(b, PhysExt) = NewPhysExts(next, blk)
  BY NewReferencesFacts
<1> HIDE DEF a, b
<1>3. Keyed(a \o b) /\ OfType(a \o b, PhysExt) = OfType(a, PhysExt) \cup OfType(b, PhysExt)
  BY <1>2, KeyedConcat DEF a
<1>4. Keyed(recs) /\ OfType(recs, PhysExt) = OfType(a \o b, PhysExt)
  BY <1>3, KeyedSorted
<1>5. Fits(toc, recs)
  BY Zenon DEF recs, a, b
<1> HIDE DEF recs
<1>6. ReadNode(SerializeNode(toc, recs)) = recs /\ SerializeNode(toc, recs).toc \in Nat
  BY <1>4, <1>5, NodeRoundTrip, NodeTable
<1> QED
  BY <1>2, <1>3, <1>4, <1>6, Zenon DEF recs, a, b

\* An image of a run has all its fields.
LEMMA CopyFacts ==
    ASSUME IInv, pc # "idle"
    PROVE  img = [f \in Fields |-> img[f]] /\ img.kind = "container"
BY DEF IInv, Counted

LEMMA SpaceWriteData == IInv /\ SpaceInv /\ WriteData => SpaceInv'
<1> SUFFICES ASSUME IInv, SpaceInv, WriteData PROVE SpaceInv'
  OBVIOUS
<1>1. /\ pc = "alloc" /\ pc' = "tree" /\ UNCHANGED <<disk, blk>> /\ Len(blk) = 6
      /\ Sound(disk')
  BY WantedPositive DEF WriteData, SpaceInv
<1>2. PICK c : img' = [img EXCEPT !.content = c]
  BY DEF WriteData
<1>3. /\ img'.system = img.system /\ img'.used = img.used /\ img'.chunkFree = img.chunkFree
      /\ img'.tree = img.tree /\ img'.refs = img.refs
      /\ img'.next = img.next /\ img'.alloced = img.alloced
  <2>1. {"system", "used", "chunkFree", "tree", "refs", "next", "alloced"} \subseteq Fields
    BY DEF Fields
  <2> QED
    BY <1>1, <1>2, <2>1, CopyFacts
<1>4. Spending'
  BY <1>1, <1>3, SpendingKept DEF SpaceInv
<1>5. Filling'
  BY <1>1, <1>3 DEF SpaceInv, Filling
<1> QED
  BY <1>1, <1>4, <1>5 DEF SpaceInv

LEMMA SpaceBuildTree == IInv /\ SpaceInv /\ BuildTree => SpaceInv'
<1> SUFFICES ASSUME IInv, SpaceInv, BuildTree PROVE SpaceInv'
  OBVIOUS
<1> DEFINE recs == Sorted(WithChildren(ReadNode(img.tree)) \o NewRecords(img.next, blk))
           tree == SerializeNode(img.tree.toc, recs)
<1>1. pc = "tree" /\ disk' = disk /\ Sound(disk')
  BY DEF BuildTree, SpaceInv
<1>2. CASE Ends("panic")
  BY <1>1, <1>2, SpaceIdle
<1>3. CASE ~ Ends("panic")
  <2>1. /\ img' = [img EXCEPT !.tree = tree, !.stale = Fixed({"tree"}, {"tree"})]
        /\ pc' = "refs" /\ blk' = blk /\ Fits(img.tree.toc, recs)
    BY <1>3, Zenon DEF BuildTree
  <2>2. /\ disk.kind = "container" /\ Len(blk) = 6
        /\ img.tree = disk.tree /\ img.refs = disk.refs
        /\ img.next = disk.next /\ img.alloced = disk.alloced
    BY <1>1 DEF SpaceInv, Spending, Filling
  <2>3. Keyed(ReadNode(img.tree)) /\ img.next \in Nat /\ img.tree.toc \in Nat
    BY <2>2 DEF SpaceInv, Sound
  <2>4. /\ Keyed(ReadNode(tree)) /\ tree.toc \in Nat
        /\ OfType(ReadNode(tree), FileExtent)
             = OfType(ReadNode(disk.tree), FileExtent) \cup NewExtents(disk.next, blk)
    <3>1. /\ Keyed(ReadNode(tree)) /\ tree.toc \in Nat
          /\ OfType(ReadNode(tree), FileExtent)
               = OfType(ReadNode(img.tree), FileExtent) \cup NewExtents(img.next, blk)
      BY <2>1, <2>3, TreeRebuilt, Zenon
    <3> HIDE DEF tree
    <3> QED
      BY <2>2, <3>1, Zenon
  <2> HIDE DEF tree, recs
  <2>5. /\ img'.system = img.system /\ img'.used = img.used /\ img'.chunkFree = img.chunkFree
        /\ img'.tree = tree /\ img'.refs = img.refs
        /\ img'.next = img.next /\ img'.alloced = img.alloced
    <3>1. {"system", "used", "chunkFree", "tree", "refs", "next", "alloced", "stale"} \subseteq Fields
      BY DEF Fields
    <3> QED
      BY <1>1, <2>1, <3>1, CopyFacts
  <2>6. Spending'
    BY <1>1, <2>1, <2>2, <2>5, SpendingKept DEF SpaceInv
  <2>7. TreeFilled(img.tree)'
    BY <1>1, <2>1, <2>4, <2>5 DEF TreeFilled
  <2>8. Filling'
    BY <1>1, <2>1, <2>2, <2>5, <2>7 DEF Filling
  <2> QED
    BY <1>1, <2>6, <2>8 DEF SpaceInv
<1> QED
  BY <1>2, <1>3

LEMMA FirstBlocks ==
    ASSUME IInv, Len(blk) = 6
    PROVE  \A i \in 1 .. 6 : blk[i] \in Nat
<1>1. \A i \in 1 .. Len(blk) : blk[i] \in AllBlocks
  BY ElementOfSeq DEF IInv, BlkOK
<1>2. AllBlocks \subseteq Nat
  BY DEF AllBlocks
<1> QED
  BY <1>1, <1>2

LEMMA SpaceBuildReferences == IInv /\ SpaceInv /\ BuildReferences => SpaceInv'
<1> SUFFICES ASSUME IInv, SpaceInv, BuildReferences PROVE SpaceInv'
  OBVIOUS
<1> DEFINE recs == Sorted(ReadNode(img.refs) \o NewReferences(img.next, blk))
           refs == SerializeNode(img.refs.toc, recs)
<1>1. pc = "refs" /\ disk' = disk /\ Sound(disk')
  BY DEF BuildReferences, SpaceInv
<1>2. CASE Ends("panic")
  BY <1>1, <1>2, SpaceIdle
<1>3. CASE ~ Ends("panic")
  <2>1. /\ img' = [img EXCEPT !.refs = refs, !.stale = Fixed({"refs"}, {"refs"})]
        /\ pc' = "count" /\ blk' = blk /\ Fits(img.refs.toc, recs)
    BY <1>3, Zenon DEF BuildReferences
  <2>2. /\ disk.kind = "container" /\ Len(blk) = 6
        /\ TreeFilled(img.tree) /\ img.refs = disk.refs
        /\ img.next = disk.next /\ img.alloced = disk.alloced
    BY <1>1 DEF SpaceInv, Spending, Filling
  <2>3. Keyed(ReadNode(img.refs)) /\ img.next \in Nat /\ img.refs.toc \in Nat
    BY <2>2 DEF SpaceInv, Sound
  <2>4. \A i \in 1 .. 6 : blk[i] \in Nat
    BY <2>2, FirstBlocks
  <2>5. /\ Keyed(ReadNode(refs)) /\ refs.toc \in Nat
        /\ OfType(ReadNode(refs), PhysExt)
             = OfType(ReadNode(disk.refs), PhysExt) \cup NewPhysExts(disk.next, blk)
    <3>1. /\ Keyed(ReadNode(refs)) /\ refs.toc \in Nat
          /\ OfType(ReadNode(refs), PhysExt)
               = OfType(ReadNode(img.refs), PhysExt) \cup NewPhysExts(img.next, blk)
      BY <2>1, <2>3, <2>4, RefsRebuilt, Zenon
    <3> HIDE DEF refs
    <3> QED
      BY <2>2, <3>1, Zenon
  <2> HIDE DEF refs, recs
  <2>6. /\ img'.system = img.system /\ img'.used = img.used /\ img'.chunkFree = img.chunkFree
        /\ img'.tree = img.tree /\ img'.refs = refs
        /\ img'.next = img.next /\ img'.alloced = img.alloced
    <3>1. {"system", "used", "chunkFree", "tree", "refs", "next", "alloced", "stale"} \subseteq Fields
      BY DEF Fields
    <3> QED
      BY <1>1, <2>1, <3>1, CopyFacts
  <2>7. Spending'
    BY <1>1, <2>1, <2>2, <2>6, SpendingKept DEF SpaceInv
  <2>8. TreeFilled(img.tree)' /\ RefsFilled(img.refs)'
    BY <1>1, <2>1, <2>2, <2>5, <2>6 DEF TreeFilled, RefsFilled
  <2>9. Filling'
    BY <1>1, <2>1, <2>2, <2>6, <2>8 DEF Filling
  <2> QED
    BY <1>1, <2>7, <2>9 DEF SpaceInv
<1> QED
  BY <1>2, <1>3

LEMMA SpaceCount == IInv /\ SpaceInv /\ Count => SpaceInv'
<1> SUFFICES ASSUME IInv, SpaceInv, Count PROVE SpaceInv'
  OBVIOUS
<1>1. /\ pc = "count" /\ pc' = "write" /\ UNCHANGED <<disk, blk>> /\ Sound(disk')
      /\ img' = [img EXCEPT !.next = NextAfter(@), !.files = @ + 6, !.dirs = @ + 1,
                            !.links = @ + 1, !.allocCount = @ + Total, !.alloced = @ + Total,
                            !.stale = Fixed({"volume"}, {"volume"})]
  BY DEF Count, SpaceInv
<1>2. /\ Len(blk) = 6 /\ TreeFilled(img.tree) /\ RefsFilled(img.refs)
      /\ img.next = disk.next /\ img.alloced = disk.alloced
  BY <1>1 DEF SpaceInv, Spending, Filling
<1>3. /\ img'.system = img.system /\ img'.used = img.used /\ img'.chunkFree = img.chunkFree
      /\ img'.tree = img.tree /\ img'.refs = img.refs
      /\ img'.next = NextAfter(img.next) /\ img'.alloced = img.alloced + Total
  <2>1. {"system", "used", "chunkFree", "tree", "refs", "next", "files", "dirs", "links",
         "allocCount", "alloced", "stale"} \subseteq Fields
    BY DEF Fields
  <2> QED
    BY <1>1, <2>1, CopyFacts
<1>4. Spending'
  BY <1>1, <1>2, <1>3, SpendingKept DEF SpaceInv
<1>5. TreeFilled(img.tree)' /\ RefsFilled(img.refs)'
  BY <1>1, <1>2, <1>3 DEF TreeFilled, RefsFilled
<1>6. Filling'
  BY <1>1, <1>2, <1>3, <1>5 DEF Filling
<1> QED
  BY <1>1, <1>4, <1>6 DEF SpaceInv

LEMMA SpaceWriteImage == IInv /\ SpaceInv /\ WriteImage => SpaceInv'
<1> SUFFICES ASSUME IInv, SpaceInv, WriteImage PROVE SpaceInv'
  OBVIOUS
<1>1. pc = "write" /\ disk' = img /\ Ends("ok")
  BY DEF WriteImage
<1>2. /\ disk.kind = "container" /\ TreeFilled(img.tree) /\ RefsFilled(img.refs)
      /\ img.next = NextAfter(disk.next)
  BY <1>1 DEF SpaceInv, Spending, Filling
<1>3. img.next \in Nat
  BY <1>2 DEF SpaceInv, Sound, NextAfter, Streams
<1>4. Sound(img)
  BY <1>1, <1>2, <1>3, WrittenAccounted DEF Sound, TreeFilled, RefsFilled
<1>5. Sound(disk')
  BY <1>1, <1>4 DEF Sound
<1> QED
  BY <1>1, <1>5, SpaceIdle

LEMMA SpaceStep == IInv /\ SpaceInv /\ [Inject]_fixVars => SpaceInv'
<1> SUFFICES ASSUME IInv, SpaceInv, [Inject]_fixVars PROVE SpaceInv'
  OBVIOUS
<1>1. CASE LoadFails
  <2>1. Ends("panic") /\ disk' = disk
    BY <1>1 DEF LoadFails
  <2> QED
    BY <2>1, SpaceIdle DEF SpaceInv
<1>2. CASE WriteFails
  <2>1. Ends("panic") /\ disk' = Torn
    BY <1>2 DEF WriteFails
  <2>2. Sound(disk')
    BY <2>1 DEF Sound, Torn
  <2> QED
    BY <2>1, <2>2, SpaceIdle
<1>3. CASE UNCHANGED fixVars
  BY <1>3 DEF fixVars, SpaceInv, Spending, Filling, TreeFilled, RefsFilled, Blk
<1> QED
  BY <1>1, <1>2, <1>3, SpaceLoad, SpaceAlloc, SpaceWriteData, SpaceBuildTree,
     SpaceBuildReferences, SpaceCount, SpaceWriteImage DEF Inject

LEMMA SpaceInductive == InjectSpec => []SpaceInv
BY SpaceInit, SpaceStep, Inductive, PTL DEF InjectSpec

(* No block of an image the injector leaves belongs to two extents or to   *)
(* an extent and the system, no other block is taken, and the reference    *)
(* tree and the volume's count have exactly the files' extents, after any  *)
(* number of injections into an image of any size and layout               *)
(* (main.rs:543-577, 830-862).                                             *)
THEOREM ExtentsAccounted == InjectSpec => []SpaceAccounted
<1>1. SpaceInv => SpaceAccounted
  BY DEF SpaceInv, Sound, SpaceAccounted, Readable
<1> QED
  BY <1>1, SpaceInductive, PTL

----------------------------------------------------------------------------
\* Records of the same shape: the keys and the lengths.
Shaped(s, t) ==
    /\ SameKeys(s, t)
    /\ \A i \in DOMAIN s : t[i].klen = s[i].klen /\ t[i].vlen = s[i].vlen

\* Whether records fit a node depends on their lengths alone.
LEMMA FitsByLengths ==
    ASSUME NEW toc, NEW s, NEW t, DOMAIN s = DOMAIN t, Len(s) = Len(t),
           \A i \in DOMAIN s : t[i].klen = s[i].klen /\ t[i].vlen = s[i].vlen
    PROVE  Fits(toc, s) => Fits(toc, t)
<1>1. /\ [i \in DOMAIN s |-> s[i].klen] = [i \in DOMAIN t |-> t[i].klen]
      /\ [i \in DOMAIN s |-> s[i].vlen] = [i \in DOMAIN t |-> t[i].vlen]
  OBVIOUS
<1>2. KeySums(s) = KeySums(t) /\ ValSums(s) = ValSums(t)
  BY <1>1, Zenon DEF KeySums, ValSums
<1> QED
  BY <1>2 DEF Fits

LEMMA KeyedLen ==
    ASSUME NEW s, Keyed(s)
    PROVE  Len(s) \in Nat /\ DOMAIN s = 1 .. Len(s)
BY DEF Keyed

LEMMA SortedPlaces ==
    ASSUME NEW s, Keyed(s)
    PROVE  \E p \in [1 .. Len(s) -> 1 .. Len(s)] : Sorted(s) = [i \in 1 .. Len(s) |-> s[p[i]]]
<1>1. PICK p \in [1 .. Len(s) -> 1 .. Len(s)] :
        \A w : SameKeys(s, w) => Sorted(w) = [i \in 1 .. Len(s) |-> w[p[i]]]
  BY SortedPermutes
<1> QED
  BY <1>1 DEF SameKeys

LEMMA FitsSorted ==
    ASSUME NEW toc, NEW s, Keyed(s), NEW t, Keyed(t), Shaped(s, t), Fits(toc, Sorted(s))
    PROVE  Fits(toc, Sorted(t))
<1> DEFINE D == 1 .. Len(s)
           u == Sorted(s)
           v == Sorted(t)
<1>1. Len(s) \in Nat /\ DOMAIN s = D /\ SameKeys(s, s) /\ SameKeys(s, t)
  BY KeyedLen DEF SameKeys, Shaped
<1>2. PICK p \in [D -> D] : \A w : SameKeys(s, w) => Sorted(w) = [i \in D |-> w[p[i]]]
  BY SortedPermutes
<1>3. u = [i \in D |-> s[p[i]]] /\ v = [i \in D |-> t[p[i]]]
  BY <1>1, <1>2
<1> HIDE DEF u, v
<1>4. DOMAIN u = D /\ DOMAIN v = D /\ Len(u) = Len(s) /\ Len(v) = Len(s)
  BY <1>1, <1>3
<1>5. \A i \in D : u[i] = s[p[i]] /\ v[i] = t[p[i]] /\ p[i] \in DOMAIN s
  BY <1>1, <1>3
<1>6. \A i \in D : v[i].klen = u[i].klen /\ v[i].vlen = u[i].vlen
  BY <1>5 DEF Shaped
<1> QED
  BY <1>4, <1>6, FitsByLengths DEF u, v

LEMMA SameLength ==
    ASSUME NEW a \in Nat, NEW b \in Nat, 1 .. a = 1 .. b
    PROVE  a = b
<1>1. a <= b
  <2>1. a = 0 \/ a \in 1 .. b
    OBVIOUS
  <2> QED
    BY <2>1
<1>2. b <= a
  <2>1. b = 0 \/ b \in 1 .. a
    OBVIOUS
  <2> QED
    BY <2>1
<1> QED
  BY <1>1, <1>2

\* The places of a sequence in two parts.
LEMMA KeyedParts ==
    ASSUME NEW s, NEW t, Keyed(s), Keyed(t)
    PROVE  /\ DOMAIN (s \o t) = 1 .. Len(s) + Len(t)
           /\ \A i \in 1 .. Len(s) + Len(t) :
                 (s \o t)[i] = IF i <= Len(s) THEN s[i] ELSE t[i - Len(s)]
<1> DEFINE S == Range(s) \cup Range(t)
<1>1. s \in Seq(Range(s)) /\ t \in Seq(Range(t))
  BY DEF Keyed, Range
<1>2. Range(s) \subseteq S /\ Range(t) \subseteq S
  OBVIOUS
<1>3. s \in Seq(S) /\ t \in Seq(S)
  BY <1>1, <1>2, SeqMonotonic
<1> HIDE DEF S
<1>4. /\ s \o t \in Seq(S) /\ Len(s \o t) = Len(s) + Len(t)
      /\ \A i \in 1 .. Len(s) + Len(t) :
            (s \o t)[i] = IF i <= Len(s) THEN s[i] ELSE t[i - Len(s)]
  BY <1>3, ConcatProperties
<1> QED
  BY <1>4

LEMMA ShapedConcat ==
    ASSUME NEW s, NEW t, NEW u, NEW v, Keyed(s), Keyed(t), Keyed(u), Keyed(v),
           Shaped(s, u), Shaped(t, v)
    PROVE  Shaped(s \o t, u \o v)
<1>1. /\ Len(s) \in Nat /\ DOMAIN s = 1 .. Len(s) /\ Len(t) \in Nat /\ DOMAIN t = 1 .. Len(t)
      /\ Len(u) \in Nat /\ DOMAIN u = 1 .. Len(u) /\ Len(v) \in Nat /\ DOMAIN v = 1 .. Len(v)
  BY KeyedLen
<1>2. Len(u) = Len(s) /\ Len(v) = Len(t)
  <2>1. DOMAIN u = DOMAIN s /\ DOMAIN v = DOMAIN t
    BY DEF Shaped, SameKeys
  <2> QED
    BY <1>1, <2>1, SameLength
<1> DEFINE w == s \o t
           x == u \o v
           n == Len(s)
           m == Len(t)
<1>3. /\ DOMAIN w = 1 .. n + m /\ DOMAIN x = 1 .. n + m
      /\ \A i \in 1 .. n + m : w[i] = IF i <= n THEN s[i] ELSE t[i - n]
      /\ \A i \in 1 .. n + m : x[i] = IF i <= n THEN u[i] ELSE v[i - n]
  <2> DEFINE k == Len(u)
             l == Len(v)
  <2>1. /\ DOMAIN w = 1 .. n + m
        /\ \A i \in 1 .. n + m : w[i] = IF i <= n THEN s[i] ELSE t[i - n]
    BY KeyedParts, Zenon DEF w
  <2>2. /\ DOMAIN x = 1 .. k + l
        /\ \A i \in 1 .. k + l : x[i] = IF i <= k THEN u[i] ELSE v[i - k]
    BY KeyedParts, Zenon DEF x
  <2>3. k = n /\ l = m
    BY <1>2
  <2> HIDE DEF k, l, n, m
  <2> QED
    BY <2>1, <2>2, <2>3, Zenon
<1> HIDE DEF w, x
<1>4. ASSUME NEW i \in 1 .. n + m
      PROVE  /\ x[i].id = w[i].id /\ x[i].type = w[i].type
             /\ x[i].number = w[i].number /\ x[i].name = w[i].name
             /\ x[i].klen = w[i].klen /\ x[i].vlen = w[i].vlen
  <2>1. CASE i <= n
    <3>1. w[i] = s[i] /\ x[i] = u[i] /\ i \in DOMAIN s
      BY <1>1, <1>3, <2>1
    <3> QED
      BY <3>1 DEF Shaped, SameKeys
  <2>2. CASE ~ (i <= n)
    <3>1. w[i] = t[i - n] /\ x[i] = v[i - n] /\ i - n \in DOMAIN t
      BY <1>1, <1>3, <2>2
    <3> QED
      BY <3>1 DEF Shaped, SameKeys
  <2> QED
    BY <2>1, <2>2
<1> QED
  BY <1>3, <1>4 DEF Shaped, SameKeys, w, x

LEMMA ShapedSelf == \A s : Shaped(s, s)
BY DEF Shaped, SameKeys

\* Keyed records of the same shape.
Alike(s, t) == Keyed(s) /\ Keyed(t) /\ Shaped(s, t)

LEMMA AlikeConcat ==
    ASSUME NEW s, NEW t, NEW u, NEW v, Alike(s, u), Alike(t, v)
    PROVE  Alike(s \o t, u \o v)
BY KeyedConcat, ShapedConcat DEF Alike

LEMMA AlikeSelf == ASSUME NEW s, Keyed(s) PROVE Alike(s, s)
BY ShapedSelf DEF Alike

RecShaped(r, q) ==
    /\ KeyedRec(r) /\ KeyedRec(q)
    /\ q.id = r.id /\ q.type = r.type /\ q.number = r.number /\ q.name = r.name
    /\ q.klen = r.klen /\ q.vlen = r.vlen

LEMMA AlikeTwo ==
    ASSUME NEW a, NEW b, NEW x, NEW y, RecShaped(a, x), RecShaped(b, y)
    PROVE  Alike(<<a, b>>, <<x, y>>)
<1>1. Keyed(<<a, b>>) /\ Keyed(<<x, y>>)
  BY KeyedTwo DEF RecShaped
<1>2. Shaped(<<a, b>>, <<x, y>>)
  BY DEF Shaped, SameKeys, RecShaped
<1> QED
  BY <1>1, <1>2 DEF Alike

LEMMA AlikeFour ==
    ASSUME NEW a, NEW b, NEW c, NEW d, NEW x, NEW y, NEW z, NEW w,
           RecShaped(a, x), RecShaped(b, y), RecShaped(c, z), RecShaped(d, w)
    PROVE  Alike(<<a, b, c, d>>, <<x, y, z, w>>)
<1>1. Keyed(<<a, b, c, d>>) /\ Keyed(<<x, y, z, w>>)
  BY KeyedFour DEF RecShaped
<1>2. Shaped(<<a, b, c, d>>, <<x, y, z, w>>)
  BY DEF Shaped, SameKeys, RecShaped
<1> QED
  BY <1>1, <1>2 DEF Alike

LEMMA AlikeFive ==
    ASSUME NEW a, NEW b, NEW c, NEW d, NEW e, KeyedRec(a), KeyedRec(b), KeyedRec(c), KeyedRec(d),
           NEW f, RecShaped(e, f)
    PROVE  Alike(<<a, b, c, d, e>>, <<a, b, c, d, f>>)
<1>1. Keyed(<<a, b, c, d, e>>) /\ Keyed(<<a, b, c, d, f>>)
  BY KeyedFive DEF RecShaped
<1>2. Shaped(<<a, b, c, d, e>>, <<a, b, c, d, f>>)
  BY DEF Shaped, SameKeys, RecShaped
<1> QED
  BY <1>1, <1>2 DEF Alike

LEMMA ExtentShape ==
    ASSUME NEW id \in Nat, NEW logical \in Nat, NEW n, NEW p, NEW q
    PROVE  RecShaped(BuildFileExtent(id, logical, n, p), BuildFileExtent(id, logical, n, q))
<1>1. KeyedRec(BuildFileExtent(id, logical, n, p)) /\ KeyedRec(BuildFileExtent(id, logical, n, q))
  BY BuiltRecords
<1> QED
  BY <1>1 DEF RecShaped, BuildFileExtent, Rec

\* Which blocks the records name does not change their shape.
LEMMA NewRecordsAlike ==
    ASSUME NEW next \in Nat, NEW b, NEW c
    PROVE  Alike(NewRecords(next, b), NewRecords(next, c))
<1> DEFINE P1 == File(next, RootDir, Hello, Plain(28))
           P2(z) == <<BuildDstreamId(next), BuildFileExtent(next, 0, 1, z[1])>>
           P3 == <<BuildInode(next + 1, RootDir, Docs, [Zeroed EXCEPT !.mode = "dir", !.kids = 2]),
                   BuildDrec(RootDir, Docs, next + 1, DtDir)>>
           P4 == File(next + 2, next + 1, Readme, Plain(1000))
           P5(z) == <<BuildDstreamId(next + 2), BuildFileExtent(next + 2, 0, 1, z[2])>>
           P6 == File(next + 3, next + 1, BigBin, Plain(14336))
           P7(z) == <<BuildDstreamId(next + 3), BuildFileExtent(next + 3, 0, 2, z[3]),
                      BuildFileExtent(next + 3, 2 * BlockBytes, 1, z[4]),
                      BuildFileExtent(next + 3, 3 * BlockBytes, 2, z[5])>>
           P8 == File(next + 5, RootDir, PlainTxt, Compressed(39))
           P9 == File(next + 6, RootDir, PackedTxt, Compressed(3000))
           P10 == File(next + 7, RootDir, PackedRsrc, Compressed(100000))
           P11(z) == <<BuildXattr(next + 5, DecmpfsAttr, 56, [algo |-> 9, size |-> 39]),
                  BuildXattr(next + 6, DecmpfsAttr, 16 + ZattrBytes, [algo |-> 3, size |-> 3000]),
                  BuildXattr(next + 7, DecmpfsAttr, 16, [algo |-> 4, size |-> 100000]),
                  BuildXattr(next + 7, RsrcAttr, 48, [stream |-> Streams(next), size |-> RsrcBytes]),
                  BuildFileExtent(Streams(next), 0, RsrcBlocks, z[6])>>
           P12 == <<BuildInode(next + 4, RootDir, Link, [Zeroed EXCEPT !.mode = "link"]),
                    BuildDrec(RootDir, Link, next + 4, DtLnk),
                    BuildXattr(next + 4, SymlinkAttr, 10, [target |-> Hello])>>
<1>1. /\ NewRecords(next, b) =
           P1 \o P2(b) \o P3 \o P4 \o P5(b) \o P6 \o P7(b) \o P8 \o P9 \o P10 \o P11(b) \o P12
      /\ NewRecords(next, c) =
           P1 \o P2(c) \o P3 \o P4 \o P5(c) \o P6 \o P7(c) \o P8 \o P9 \o P10 \o P11(c) \o P12
  BY SMT DEF NewRecords
<1>2. /\ next + 1 \in Nat /\ next + 2 \in Nat /\ next + 3 \in Nat /\ next + 4 \in Nat
      /\ next + 5 \in Nat /\ next + 6 \in Nat /\ next + 7 \in Nat
      /\ RootDir \in Nat /\ Streams(next) \in Nat
  BY DEF RootDir, Streams
<1>3. /\ Hello \in 1 .. 10 /\ Docs \in 1 .. 10 /\ Readme \in 1 .. 10 /\ BigBin \in 1 .. 10
      /\ PlainTxt \in 1 .. 10 /\ PackedTxt \in 1 .. 10 /\ PackedRsrc \in 1 .. 10 /\ Link \in 1 .. 10
      /\ DecmpfsAttr \in 1 .. 3 /\ RsrcAttr \in 1 .. 3 /\ SymlinkAttr \in 1 .. 3
  BY DEF Hello, Docs, Readme, BigBin, PlainTxt, PackedTxt, PackedRsrc, Link, DecmpfsAttr, RsrcAttr,
     SymlinkAttr
<1>4. 0 \in Nat /\ 2 * BlockBytes \in Nat /\ 3 * BlockBytes \in Nat
  BY BlockBytesAssumption
<1>5. /\ RecShaped(BuildDstreamId(next), BuildDstreamId(next))
      /\ RecShaped(BuildDstreamId(next + 2), BuildDstreamId(next + 2))
      /\ RecShaped(BuildDstreamId(next + 3), BuildDstreamId(next + 3))
  BY <1>2, BuiltRecords DEF RecShaped
<1>11. Alike(P1, P1)
  BY <1>2, <1>3, FileRecords, AlikeSelf
<1>12. Alike(P2(b), P2(c))
  BY <1>4, <1>5, ExtentShape, AlikeTwo
<1>13. Alike(P3, P3)
  BY <1>2, <1>3, BuiltRecords, KeyedTwo, AlikeSelf
<1>14. Alike(P4, P4)
  BY <1>2, <1>3, FileRecords, AlikeSelf
<1>15. Alike(P5(b), P5(c))
  BY <1>2, <1>4, <1>5, ExtentShape, AlikeTwo
<1>16. Alike(P6, P6)
  BY <1>2, <1>3, FileRecords, AlikeSelf
<1>17. Alike(P7(b), P7(c))
  BY <1>2, <1>4, <1>5, ExtentShape, AlikeFour
<1>18. Alike(P8, P8)
  BY <1>2, <1>3, FileRecords, AlikeSelf
<1>19. Alike(P9, P9)
  BY <1>2, <1>3, FileRecords, AlikeSelf
<1>20. Alike(P10, P10)
  BY <1>2, <1>3, FileRecords, AlikeSelf
<1>21. Alike(P11(b), P11(c))
  BY <1>2, <1>3, <1>4, BuiltRecords, ExtentShape, AlikeFive
<1>22. Alike(P12, P12)
  BY <1>2, <1>3, BuiltRecords, KeyedThree, AlikeSelf
<1> HIDE DEF P1, P2, P3, P4, P5, P6, P7, P8, P9, P10, P11, P12
<1>31. Alike(P1 \o P2(b), P1 \o P2(c))
  BY <1>11, <1>12, AlikeConcat
<1>32. Alike(P1 \o P2(b) \o P3, P1 \o P2(c) \o P3)
  BY <1>31, <1>13, AlikeConcat
<1>33. Alike(P1 \o P2(b) \o P3 \o P4, P1 \o P2(c) \o P3 \o P4)
  BY <1>32, <1>14, AlikeConcat
<1>34. Alike(P1 \o P2(b) \o P3 \o P4 \o P5(b), P1 \o P2(c) \o P3 \o P4 \o P5(c))
  BY <1>33, <1>15, AlikeConcat
<1>35. Alike(P1 \o P2(b) \o P3 \o P4 \o P5(b) \o P6, P1 \o P2(c) \o P3 \o P4 \o P5(c) \o P6)
  BY <1>34, <1>16, AlikeConcat
<1>36. Alike(P1 \o P2(b) \o P3 \o P4 \o P5(b) \o P6 \o P7(b),
             P1 \o P2(c) \o P3 \o P4 \o P5(c) \o P6 \o P7(c))
  BY <1>35, <1>17, AlikeConcat
<1>37. Alike(P1 \o P2(b) \o P3 \o P4 \o P5(b) \o P6 \o P7(b) \o P8,
             P1 \o P2(c) \o P3 \o P4 \o P5(c) \o P6 \o P7(c) \o P8)
  BY <1>36, <1>18, AlikeConcat
<1>38. Alike(P1 \o P2(b) \o P3 \o P4 \o P5(b) \o P6 \o P7(b) \o P8 \o P9,
             P1 \o P2(c) \o P3 \o P4 \o P5(c) \o P6 \o P7(c) \o P8 \o P9)
  BY <1>37, <1>19, AlikeConcat
<1>39. Alike(P1 \o P2(b) \o P3 \o P4 \o P5(b) \o P6 \o P7(b) \o P8 \o P9 \o P10,
             P1 \o P2(c) \o P3 \o P4 \o P5(c) \o P6 \o P7(c) \o P8 \o P9 \o P10)
  BY <1>38, <1>20, AlikeConcat
<1>40. Alike(P1 \o P2(b) \o P3 \o P4 \o P5(b) \o P6 \o P7(b) \o P8 \o P9 \o P10 \o P11(b),
             P1 \o P2(c) \o P3 \o P4 \o P5(c) \o P6 \o P7(c) \o P8 \o P9 \o P10 \o P11(c))
  BY <1>39, <1>21, AlikeConcat
<1>41. Alike(P1 \o P2(b) \o P3 \o P4 \o P5(b) \o P6 \o P7(b) \o P8 \o P9 \o P10 \o P11(b) \o P12,
             P1 \o P2(c) \o P3 \o P4 \o P5(c) \o P6 \o P7(c) \o P8 \o P9 \o P10 \o P11(c) \o P12)
  BY <1>40, <1>22, AlikeConcat
<1> QED
  BY <1>1, <1>41, Zenon

\* The rest of a long run is free when the first short one is taken.
LEMMA RoomLeft ==
    ASSUME NEW used, NEW n \in Nat \ {0}, NEW r \in Nat, Runs(used, n + r) # {}
    PROVE  /\ Runs(used, n) # {}
           /\ \A s \in Runs(used, n) : (\A q \in Runs(used, n) : s <= q) =>
                 Runs(used \cup Marked(s, n), r) # {}
<1>1. PICK a \in 0 .. Blocks - (n + r) : a .. a + (n + r) - 1 \cap used = {}
  BY DEF Runs
<1>2. Blocks \in Nat
  BY BlocksAssumption
<1>3. a \in Runs(used, n)
  <2>1. a \in 0 .. Blocks - n /\ a .. a + n - 1 \subseteq a .. a + (n + r) - 1
    BY <1>1, <1>2
  <2> QED
    BY <1>1, <2>1 DEF Runs
<1>4. ASSUME NEW s \in Runs(used, n), \A q \in Runs(used, n) : s <= q
      PROVE  Runs(used \cup Marked(s, n), r) # {}
  <2>1. s \in 0 .. Blocks - n /\ s <= a
    BY <1>3, <1>4 DEF Runs
  <2>2. CASE s + n <= a
    <3>1. a \in 0 .. Blocks - r /\ a .. a + r - 1 \subseteq a .. a + (n + r) - 1
      BY <1>1, <1>2
    <3>2. \A x \in a .. a + r - 1 : x \notin s .. s + n - 1
      BY <1>1, <2>1, <2>2
    <3>3. a .. a + r - 1 \cap (used \cup Marked(s, n)) = {}
      BY <1>1, <3>1, <3>2 DEF Marked
    <3> QED
      BY <3>1, <3>3 DEF Runs
  <2>3. CASE ~ (s + n <= a)
    <3> DEFINE b == s + n
    <3>1. b \in 0 .. Blocks - r /\ b .. b + r - 1 \subseteq a .. a + (n + r) - 1
      BY <1>1, <1>2, <2>1, <2>3
    <3>2. \A x \in b .. b + r - 1 : x \notin s .. s + n - 1
      BY <1>1, <2>1
    <3>3. b .. b + r - 1 \cap (used \cup Marked(s, n)) = {}
      BY <1>1, <3>1, <3>2 DEF Marked
    <3> HIDE DEF b
    <3> QED
      BY <3>1, <3>3 DEF Runs
  <2> QED
    BY <2>2, <2>3
<1> QED
  BY <1>3, <1>4

\* A fresh image's nodes hold the records, whatever blocks they name.
LEMMA TreeFits ==
    ASSUME NEW d, HasRoom(d), Keyed(ReadNode(d.tree)), d.next \in Nat, NEW b
    PROVE  Fits(d.tree.toc, Sorted(WithChildren(ReadNode(d.tree)) \o NewRecords(d.next, b)))
<1> DEFINE z == <<0, 0, 0, 0, 0, 0>>
           a == WithChildren(ReadNode(d.tree))
           s == a \o NewRecords(d.next, z)
           t == a \o NewRecords(d.next, b)
<1>1. Fits(d.tree.toc, Sorted(s))
  BY DEF HasRoom
<1>2. Alike(a, a)
  BY KeyedWithChildren, AlikeSelf
<1> HIDE DEF a, z
<1>3. Alike(s, t)
  BY <1>2, NewRecordsAlike, AlikeConcat
<1> HIDE DEF s, t
<1>4. Fits(d.tree.toc, Sorted(t))
  BY <1>1, <1>3, FitsSorted DEF Alike
<1> QED
  BY <1>4 DEF t, a

ReferenceLengths(s) == \A i \in DOMAIN s : s[i].klen = 8 /\ s[i].vlen = 20

LEMMA SortedReferences ==
    ASSUME NEW next \in Nat, NEW b, \A i \in 1 .. 6 : b[i] \in Nat,
           NEW old, Keyed(old), ReferenceLengths(old)
    PROVE  LET s == Sorted(old \o NewReferences(next, b))
           IN  /\ ReferenceLengths(s)
               /\ DOMAIN s = 1 .. Len(old) + 6 /\ Len(s) = Len(old) + 6
<1> DEFINE new == NewReferences(next, b)
           all == old \o new
           D == 1 .. Len(old) + 6
<1>1. Keyed(new)
  BY NewReferencesFacts
<1>2. Len(new) = 6 /\ ReferenceLengths(new)
  <2>1. Len(new) = 6 /\ DOMAIN new = 1 .. 6
    BY DEF NewReferences
  <2>2. /\ new[1].klen = 8 /\ new[1].vlen = 20 /\ new[2].klen = 8 /\ new[2].vlen = 20
        /\ new[3].klen = 8 /\ new[3].vlen = 20 /\ new[4].klen = 8 /\ new[4].vlen = 20
        /\ new[5].klen = 8 /\ new[5].vlen = 20 /\ new[6].klen = 8 /\ new[6].vlen = 20
    BY DEF NewReferences, BuildPhysExt, Rec
  <2> HIDE DEF new
  <2> QED
    BY <2>1, <2>2, Six DEF ReferenceLengths
<1>3. Len(old) \in Nat /\ DOMAIN old = 1 .. Len(old) /\ DOMAIN new = 1 .. 6
  BY <1>1, <1>2, KeyedLen
<1> HIDE DEF new
<1>4. /\ Keyed(all) /\ DOMAIN all = D
      /\ \A i \in D : all[i] = IF i <= Len(old) THEN old[i] ELSE new[i - Len(old)]
  BY <1>1, <1>2, KeyedConcat, KeyedParts
<1>5. \A i \in D : all[i].klen = 8 /\ all[i].vlen = 20
  <2> TAKE i \in D
  <2>1. CASE i <= Len(old)
    <3>1. all[i] = old[i] /\ i \in DOMAIN old
      BY <1>3, <1>4, <2>1
    <3> QED
      BY <3>1 DEF ReferenceLengths
  <2>2. CASE ~ (i <= Len(old))
    <3>1. i - Len(old) \in 1 .. 6
      <4> SUFFICES ASSUME NEW l \in Nat, NEW j \in 1 .. l + 6, ~ (j <= l)
                   PROVE  j - l \in 1 .. 6
        BY <1>3, <2>2
      <4> QED
        OBVIOUS
    <3>2. all[i] = new[i - Len(old)] /\ i - Len(old) \in DOMAIN new
      BY <1>3, <1>4, <2>2, <3>1, Zenon
    <3> QED
      BY <1>2, <3>2 DEF ReferenceLengths
  <2> QED
    BY <2>1, <2>2
<1> HIDE DEF all
<1>6. Len(all) = Len(old) + 6
  BY <1>3, <1>4, KeyedLen, SameLength
<1> DEFINE s == Sorted(all)
<1>7. PICK p \in [D -> D] : s = [i \in D |-> all[p[i]]]
  <2>1. PICK p \in [1 .. Len(all) -> 1 .. Len(all)] : s = [i \in 1 .. Len(all) |-> all[p[i]]]
    BY <1>4, SortedPlaces
  <2>2. 1 .. Len(all) = D
    BY <1>6
  <2> HIDE DEF D
  <2> QED
    BY <2>1, <2>2
<1> HIDE DEF s
<1>9. DOMAIN s = D /\ Len(s) = Len(old) + 6
  BY <1>3, <1>7
<1>10. \A i \in D : s[i] = all[p[i]] /\ p[i] \in D
  BY <1>7
<1>11. ReferenceLengths(s)
  <2> HIDE DEF D
  <2>1. ASSUME NEW i \in DOMAIN s
        PROVE  s[i].klen = 8 /\ s[i].vlen = 20
    <3>1. s[i] = all[p[i]] /\ p[i] \in D
      BY <1>9, <1>10
    <3> QED
      BY <1>5, <3>1
  <2> QED
    BY <2>1 DEF ReferenceLengths
<1> QED
  BY <1>9, <1>11 DEF s, all, new

LEMMA ReferencesFit ==
    ASSUME NEW d, HasRoom(d), Keyed(ReadNode(d.refs)), d.next \in Nat,
           NEW b, \A i \in 1 .. 6 : b[i] \in Nat
    PROVE  Fits(d.refs.toc, Sorted(ReadNode(d.refs) \o NewReferences(d.next, b)))
<1> DEFINE z == <<0, 0, 0, 0, 0, 0>>
           a == ReadNode(d.refs)
           s == Sorted(a \o NewReferences(d.next, z))
           t == Sorted(a \o NewReferences(d.next, b))
<1>1. Fits(d.refs.toc, s) /\ ReferenceLengths(a)
  BY DEF HasRoom, ReferenceLengths
<1>2. \A i \in 1 .. 6 : z[i] \in Nat
  BY Six
<1>3. Keyed(a)
  OBVIOUS
<1> HIDE DEF a, z
<1>4. /\ ReferenceLengths(s) /\ ReferenceLengths(t)
      /\ DOMAIN s = DOMAIN t /\ Len(s) = Len(t)
  <2>1. /\ ReferenceLengths(s) /\ DOMAIN s = 1 .. Len(a) + 6 /\ Len(s) = Len(a) + 6
    BY <1>1, <1>2, <1>3, SortedReferences, Zenon
  <2>2. /\ ReferenceLengths(t) /\ DOMAIN t = 1 .. Len(a) + 6 /\ Len(t) = Len(a) + 6
    BY <1>1, <1>3, SortedReferences, Zenon
  <2> HIDE DEF s, t
  <2> QED
    BY <2>1, <2>2
<1> HIDE DEF s, t
<1>5. \A i \in DOMAIN s : t[i].klen = s[i].klen /\ t[i].vlen = s[i].vlen
  BY <1>4 DEF ReferenceLengths
<1>6. Fits(d.refs.toc, t)
  BY <1>1, <1>4, <1>5, FitsByLengths
<1> QED
  BY <1>6 DEF t, a

----------------------------------------------------------------------------
(* The keys of the records of an injection are all different: each has a   *)
(* number of its own.                                                      *)
Code(next, r) ==
    LET k == r.id - next IN
    CASE r.type = InodeRec -> k
      [] r.type = DirRec -> 10 + r.name
      [] r.type = DstreamId -> 20 + k
      [] r.type = FileExtent ->
            IF k # 3 THEN 40 + k
            ELSE IF r.number = 0 THEN 30 ELSE IF r.number = 2 * BlockBytes THEN 32 ELSE 33
      [] r.type = XattrRec -> IF k = 7 THEN 60 + r.name ELSE 50 + k

NewKey(next, r) == r.id \in next .. next + 8 \/ (r.type = DirRec /\ r.id = RootDir)

\* A stretch of the records of an injection, with its inodes and entries.
Part(next, s, inodes, drecs, codes) ==
    /\ Keyed(s) /\ OfType(s, InodeRec) = inodes /\ OfType(s, DirRec) = drecs
    /\ \A i \in DOMAIN s : NewKey(next, s[i]) /\ Code(next, s[i]) \in codes
    /\ \A i, j \in DOMAIN s : Code(next, s[i]) = Code(next, s[j]) => i = j

LEMMA PartConcat ==
    ASSUME NEW next, NEW s, NEW t, NEW I, NEW J, NEW E, NEW F, NEW S, NEW T,
           Part(next, s, I, E, S), Part(next, t, J, F, T), S \cap T = {}
    PROVE  Part(next, s \o t, I \cup J, E \cup F, S \cup T)
<1> DEFINE w == s \o t
           C(r) == Code(next, r)
           n == Len(s)
           m == Len(t)
<1>1. /\ Keyed(s) /\ OfType(s, InodeRec) = I /\ OfType(s, DirRec) = E
      /\ Keyed(t) /\ OfType(t, InodeRec) = J /\ OfType(t, DirRec) = F
  BY DEF Part
<1>2. Keyed(w) /\ OfType(w, InodeRec) = I \cup J /\ OfType(w, DirRec) = E \cup F
  BY <1>1, KeyedConcat
<1>3. /\ n \in Nat /\ m \in Nat /\ DOMAIN s = 1 .. n /\ DOMAIN t = 1 .. m
      /\ DOMAIN w = 1 .. n + m
      /\ \A i \in 1 .. n + m : w[i] = IF i <= n THEN s[i] ELSE t[i - n]
  BY <1>1, KeyedLen, KeyedParts
<1> HIDE DEF w, n, m, C
<1>4. /\ \A i \in 1 .. n : NewKey(next, s[i]) /\ C(s[i]) \in S
      /\ \A i \in 1 .. m : NewKey(next, t[i]) /\ C(t[i]) \in T
      /\ \A i, j \in 1 .. n : C(s[i]) = C(s[j]) => i = j
      /\ \A i, j \in 1 .. m : C(t[i]) = C(t[j]) => i = j
  BY <1>3 DEF Part, C
<1>5. ASSUME NEW i \in 1 .. n + m
      PROVE  \/ i \in 1 .. n /\ w[i] = s[i]
             \/ i - n \in 1 .. m /\ w[i] = t[i - n] /\ ~ (i <= n)
  BY <1>3
<1>6. \A i \in 1 .. n + m : NewKey(next, w[i]) /\ C(w[i]) \in S \cup T
  BY <1>4, <1>5
<1>7. ASSUME NEW i \in 1 .. n + m, NEW j \in 1 .. n + m, C(w[i]) = C(w[j]) PROVE i = j
  <2>1. CASE i \in 1 .. n /\ w[i] = s[i] /\ j \in 1 .. n /\ w[j] = s[j]
    BY <1>4, <1>7, <2>1
  <2>2. CASE i - n \in 1 .. m /\ w[i] = t[i - n] /\ j - n \in 1 .. m /\ w[j] = t[j - n]
    <3>1. i - n = j - n
      BY <1>4, <1>7, <2>2
    <3> QED
      BY <1>3, <3>1
  <2>3. CASE i \in 1 .. n /\ w[i] = s[i] /\ j - n \in 1 .. m /\ w[j] = t[j - n]
    BY <1>4, <1>7, <2>3
  <2>4. CASE i - n \in 1 .. m /\ w[i] = t[i - n] /\ j \in 1 .. n /\ w[j] = s[j]
    BY <1>4, <1>7, <2>4
  <2> QED
    BY <1>5, <2>1, <2>2, <2>3, <2>4
<1> QED
  BY <1>2, <1>3, <1>6, <1>7 DEF Part, w, C

\* A record of an injection; the entries of Part are of two kinds.
Piece(next, r, code) == KeyedRec(r) /\ NewKey(next, r) /\ Code(next, r) = code

Kind(records, type) == {r \in records : r.type = type}

LEMMA PartTwo ==
    ASSUME NEW next, NEW a, NEW b, NEW c, NEW d, Piece(next, a, c), Piece(next, b, d), c # d
    PROVE  Part(next, <<a, b>>, Kind({a, b}, InodeRec), Kind({a, b}, DirRec), {c, d})
<1>1. /\ Keyed(<<a, b>>)
      /\ \A y : OfType(<<a, b>>, y) = Kind({a, b}, y)
  BY KeyedTwo DEF Piece, Kind
<1>2. DOMAIN <<a, b>> = {1, 2}
  OBVIOUS
<1> QED
  BY <1>1, <1>2 DEF Part, Piece

LEMMA PartThree ==
    ASSUME NEW next, NEW a, NEW b, NEW c, NEW d, NEW e, NEW f,
           Piece(next, a, d), Piece(next, b, e), Piece(next, c, f), d # e, d # f, e # f
    PROVE  Part(next, <<a, b, c>>, Kind({a, b, c}, InodeRec), Kind({a, b, c}, DirRec), {d, e, f})
<1>1. /\ Keyed(<<a, b, c>>)
      /\ \A y : OfType(<<a, b, c>>, y) = Kind({a, b, c}, y)
  BY KeyedThree DEF Piece, Kind
<1>2. DOMAIN <<a, b, c>> = {1, 2, 3}
  OBVIOUS
<1> QED
  BY <1>1, <1>2 DEF Part, Piece

LEMMA PiecesOf ==
    ASSUME NEW next \in Nat, NEW k \in 0 .. 8
    PROVE  /\ \A name \in 1 .. 10 : \A parent, val :
                 Piece(next, BuildInode(next + k, parent, name, val), k)
           /\ \A name \in 1 .. 10 : \A file, dtype :
                 /\ Piece(next, BuildDrec(next + k, name, file, dtype), 10 + name)
                 /\ Piece(next, BuildDrec(RootDir, name, file, dtype), 10 + name)
           /\ Piece(next, BuildDstreamId(next + k), 20 + k)
           /\ k # 3 => \A number \in Nat : \A n, phys :
                 Piece(next, BuildFileExtent(next + k, number, n, phys), 40 + k)
           /\ \A name \in 1 .. 3 : \A bytes \in {56, 16 + ZattrBytes, 16, 48, 10} : \A val :
                 Piece(next, BuildXattr(next + k, name, bytes, val), IF k = 7 THEN 60 + name ELSE 50 + k)
<1>1. next + k \in Nat /\ next + k \in next .. next + 8 /\ (next + k) - next = k /\ RootDir \in Nat
  BY DEF RootDir
<1>2. ASSUME NEW parent, NEW name \in 1 .. 10, NEW val
      PROVE  Piece(next, BuildInode(next + k, parent, name, val), k)
  <2> DEFINE r == BuildInode(next + k, parent, name, val)
  <2>1. r.id = next + k /\ r.type = InodeRec /\ KeyedRec(r)
    BY <1>1, BuiltRecords DEF BuildInode, Rec
  <2> HIDE DEF r
  <2> QED
    BY <1>1, <2>1 DEF Piece, NewKey, Code, InodeRec, DirRec, DstreamId, FileExtent, XattrRec, r
<1>3. ASSUME NEW name \in 1 .. 10, NEW file, NEW dtype, NEW parent \in {next + k, RootDir}
      PROVE  Piece(next, BuildDrec(parent, name, file, dtype), 10 + name)
  <2> DEFINE r == BuildDrec(parent, name, file, dtype)
  <2>1. r.id = parent /\ r.type = DirRec /\ r.name = name /\ KeyedRec(r)
    BY <1>1, BuiltRecords DEF BuildDrec, Rec
  <2> HIDE DEF r
  <2> QED
    BY <1>1, <2>1 DEF Piece, NewKey, Code, InodeRec, DirRec, DstreamId, FileExtent, XattrRec, r
<1>4. Piece(next, BuildDstreamId(next + k), 20 + k)
  <2> DEFINE r == BuildDstreamId(next + k)
  <2>1. r.id = next + k /\ r.type = DstreamId /\ KeyedRec(r)
    BY <1>1, BuiltRecords DEF BuildDstreamId, Rec
  <2> HIDE DEF r
  <2> QED
    BY <1>1, <2>1 DEF Piece, NewKey, Code, InodeRec, DirRec, DstreamId, FileExtent, XattrRec, r
<1>5. ASSUME k # 3, NEW number \in Nat, NEW n, NEW phys
      PROVE  Piece(next, BuildFileExtent(next + k, number, n, phys), 40 + k)
  <2> DEFINE r == BuildFileExtent(next + k, number, n, phys)
  <2>1. r.id = next + k /\ r.type = FileExtent /\ KeyedRec(r)
    BY <1>1, BuiltRecords DEF BuildFileExtent, Rec
  <2> HIDE DEF r
  <2> QED
    BY <1>1, <1>5, <2>1 DEF Piece, NewKey, Code, InodeRec, DirRec, DstreamId, FileExtent, XattrRec, r
<1>6. ASSUME NEW name \in 1 .. 3, NEW bytes \in {56, 16 + ZattrBytes, 16, 48, 10}, NEW val
      PROVE  Piece(next, BuildXattr(next + k, name, bytes, val), IF k = 7 THEN 60 + name ELSE 50 + k)
  <2> DEFINE r == BuildXattr(next + k, name, bytes, val)
  <2>1. r.id = next + k /\ r.type = XattrRec /\ r.name = name /\ KeyedRec(r)
    BY <1>1, BuiltRecords DEF BuildXattr, Rec
  <2> HIDE DEF r
  <2> QED
    BY <1>1, <2>1 DEF Piece, NewKey, Code, InodeRec, DirRec, DstreamId, FileExtent, XattrRec, r
<1> QED
  BY <1>2, <1>3, <1>4, <1>5, <1>6

LEMMA LargeExtent ==
    ASSUME NEW next \in Nat, NEW n, NEW phys
    PROVE  /\ Piece(next, BuildFileExtent(next + 3, 0, n, phys), 30)
           /\ Piece(next, BuildFileExtent(next + 3, 2 * BlockBytes, n, phys), 32)
           /\ Piece(next, BuildFileExtent(next + 3, 3 * BlockBytes, n, phys), 33)
<1>1. /\ 0 \in Nat /\ 2 * BlockBytes \in Nat /\ 3 * BlockBytes \in Nat
      /\ 2 * BlockBytes # 0 /\ 3 * BlockBytes # 0 /\ 3 * BlockBytes # 2 * BlockBytes
      /\ next + 3 \in Nat /\ next + 3 \in next .. next + 8 /\ (next + 3) - next = 3
  BY BlockBytesAssumption
<1>2. ASSUME NEW number \in Nat
      PROVE  Piece(next, BuildFileExtent(next + 3, number, n, phys),
                   IF number = 0 THEN 30 ELSE IF number = 2 * BlockBytes THEN 32 ELSE 33)
  <2> DEFINE r == BuildFileExtent(next + 3, number, n, phys)
  <2>1. r.id = next + 3 /\ r.type = FileExtent /\ r.number = number /\ KeyedRec(r)
    BY <1>1, BuiltRecords DEF BuildFileExtent, Rec
  <2> HIDE DEF r
  <2> QED
    BY <1>1, <2>1 DEF Piece, NewKey, Code, InodeRec, DirRec, DstreamId, FileExtent, XattrRec, r
<1> QED
  BY <1>1, <1>2
Folder == [Zeroed EXCEPT !.mode = "dir", !.kids = 2]
Symlink == [Zeroed EXCEPT !.mode = "link"]

(* The objects that an injection adds, 0 to 7 above the volume's next id,  *)
(* each with an inode and an entry in its parent.                          *)
NewParent(next, k) == IF k \in {2, 3} THEN next + 1 ELSE RootDir
NewMode(k) == IF k = 1 THEN "dir" ELSE IF k = 4 THEN "link" ELSE "file"

NewName(k) ==
    CASE k = 0 -> Hello [] k = 1 -> Docs [] k = 2 -> Readme [] k = 3 -> BigBin
      [] k = 4 -> Link [] k = 5 -> PlainTxt [] k = 6 -> PackedTxt [] k = 7 -> PackedRsrc

NewVal(k) ==
    CASE k = 0 -> Plain(28) [] k = 1 -> Folder [] k = 2 -> Plain(1000) [] k = 3 -> Plain(14336)
      [] k = 4 -> Symlink [] k = 5 -> Compressed(39) [] k = 6 -> Compressed(3000)
      [] k = 7 -> Compressed(100000)

NewInode(next, k) == BuildInode(next + k, NewParent(next, k), NewName(k), NewVal(k))
NewDrec(next, k) == BuildDrec(NewParent(next, k), NewName(k), next + k, Dtype(NewMode(k)))

NewInodes(next) == {NewInode(next, k) : k \in 0 .. 7}
NewDrecs(next) == {NewDrec(next, k) : k \in 0 .. 7}

LEMMA Eight == 0 .. 7 = {0, 1, 2, 3, 4, 5, 6, 7}
OBVIOUS

LEMMA NewTables ==
    /\ NewMode(0) = "file" /\ NewMode(1) = "dir" /\ NewMode(2) = "file" /\ NewMode(3) = "file"
    /\ NewMode(4) = "link" /\ NewMode(5) = "file" /\ NewMode(6) = "file" /\ NewMode(7) = "file"
    /\ NewName(0) = Hello /\ NewName(1) = Docs /\ NewName(2) = Readme /\ NewName(3) = BigBin
    /\ NewName(4) = Link /\ NewName(5) = PlainTxt /\ NewName(6) = PackedTxt /\ NewName(7) = PackedRsrc
BY DEF NewMode, NewName

LEMMA NewVals ==
    /\ NewVal(0) = Plain(28) /\ NewVal(1) = Folder /\ NewVal(2) = Plain(1000)
    /\ NewVal(3) = Plain(14336) /\ NewVal(4) = Symlink /\ NewVal(5) = Compressed(39)
    /\ NewVal(6) = Compressed(3000) /\ NewVal(7) = Compressed(100000)
<1> DEFINE v0 == Plain(28)
           v2 == Plain(1000)
           v3 == Plain(14336)
           v5 == Compressed(39)
           v6 == Compressed(3000)
           v7 == Compressed(100000)
           v(k) == CASE k = 0 -> v0 [] k = 1 -> Folder [] k = 2 -> v2 [] k = 3 -> v3
                     [] k = 4 -> Symlink [] k = 5 -> v5 [] k = 6 -> v6 [] k = 7 -> v7
<1>1. \A k : NewVal(k) = v(k)
  BY DEF NewVal
<1> HIDE DEF v0, v2, v3, v5, v6, v7
<1>2. /\ v(0) = v0 /\ v(1) = Folder /\ v(2) = v2 /\ v(3) = v3 /\ v(4) = Symlink
      /\ v(5) = v5 /\ v(6) = v6 /\ v(7) = v7
  OBVIOUS
<1> HIDE DEF v
<1> QED
  BY <1>1, <1>2 DEF v0, v2, v3, v5, v6, v7

Other(r) == r.type \notin {InodeRec, DirRec}

LEMMA TypesOf ==
    /\ \A id, parent, name, val : BuildInode(id, parent, name, val).type = InodeRec
    /\ \A parent, name, file, dtype : BuildDrec(parent, name, file, dtype).type = DirRec
    /\ InodeRec # DirRec
BY DEF Rec, BuildInode, BuildDrec, InodeRec, DirRec

LEMMA OtherTypes ==
    /\ \A id : Other(BuildDstreamId(id))
    /\ \A id, number, n, phys : Other(BuildFileExtent(id, number, n, phys))
    /\ \A id, name, bytes, val : Other(BuildXattr(id, name, bytes, val))
BY DEF Rec, BuildDstreamId, BuildFileExtent, BuildXattr, InodeRec, DirRec, DstreamId, FileExtent,
   XattrRec, Other

\* An inode and its entry.
LEMMA PairPart ==
    ASSUME NEW next \in Nat, NEW k \in 0 .. 8, NEW parent \in {RootDir, next + 1}, NEW name \in 1 .. 10,
           NEW val, NEW dtype
    PROVE  LET i == BuildInode(next + k, parent, name, val)
               e == BuildDrec(parent, name, next + k, dtype)
           IN  Part(next, <<i, e>>, {i}, {e}, {k, 10 + name})
<1> DEFINE i == BuildInode(next + k, parent, name, val)
           e == BuildDrec(parent, name, next + k, dtype)
<1>1. Piece(next, i, k)
  BY PiecesOf, Zenon
<1>2. Piece(next, e, 10 + name)
  <2>1. CASE parent = RootDir
    BY <2>1, PiecesOf, Zenon
  <2>2. CASE parent = next + 1
    <3>1. 1 \in 0 .. 8
      OBVIOUS
    <3> QED
      BY <2>2, <3>1, PiecesOf, Zenon
  <2> QED
    BY <2>1, <2>2
<1>3. i.type = InodeRec /\ e.type = DirRec /\ InodeRec # DirRec
  BY TypesOf
<1>4. k # 10 + name
  OBVIOUS
<1> HIDE DEF i, e
<1>5. Kind({i, e}, InodeRec) = {i} /\ Kind({i, e}, DirRec) = {e}
  BY <1>3 DEF Kind
<1>6. Part(next, <<i, e>>, Kind({i, e}, InodeRec), Kind({i, e}, DirRec), {k, 10 + name})
  BY <1>1, <1>2, <1>4, PartTwo
<1> QED
  BY <1>5, <1>6 DEF i, e

LEMMA RootPair ==
    ASSUME NEW next \in Nat, NEW k \in 0 .. 8, NEW name \in 1 .. 10, NEW val, NEW dtype,
           NEW id, id = next + k, NEW code, code = 10 + name
    PROVE  LET i == BuildInode(id, RootDir, name, val)
               e == BuildDrec(RootDir, name, id, dtype)
           IN  Part(next, <<i, e>>, {i}, {e}, {k, code})
BY PairPart

LEMMA DocsPair ==
    ASSUME NEW next \in Nat, NEW k \in 0 .. 8, NEW name \in 1 .. 10, NEW val, NEW dtype,
           NEW code, code = 10 + name
    PROVE  LET i == BuildInode(next + k, next + 1, name, val)
               e == BuildDrec(next + 1, name, next + k, dtype)
           IN  Part(next, <<i, e>>, {i}, {e}, {k, code})
BY PairPart

\* Records that are neither.
LEMMA OtherTwo ==
    ASSUME NEW next, NEW a, NEW b, NEW c, NEW d, Piece(next, a, c), Piece(next, b, d), c # d,
           Other(a), Other(b)
    PROVE  Part(next, <<a, b>>, {}, {}, {c, d})
<1>1. Kind({a, b}, InodeRec) = {} /\ Kind({a, b}, DirRec) = {}
  BY DEF Kind, Other
<1>2. Part(next, <<a, b>>, Kind({a, b}, InodeRec), Kind({a, b}, DirRec), {c, d})
  BY PartTwo
<1> QED
  BY <1>1, <1>2

LEMMA OtherFour ==
    ASSUME NEW next, NEW a, NEW b, NEW c, NEW d, NEW k, NEW l, NEW m, NEW n,
           Piece(next, a, k), Piece(next, b, l), Piece(next, c, m), Piece(next, d, n),
           k # l, k # m, k # n, l # m, l # n, m # n,
           Other(a), Other(b), Other(c), Other(d)
    PROVE  Part(next, <<a, b, c, d>>, {}, {}, {k, l, m, n})
<1>1. Kind({a, b, c, d}, InodeRec) = {} /\ Kind({a, b, c, d}, DirRec) = {}
  BY DEF Kind, Other
<1>2. /\ Keyed(<<a, b, c, d>>)
      /\ \A y : OfType(<<a, b, c, d>>, y) = Kind({a, b, c, d}, y)
  BY KeyedFour DEF Piece, Kind
<1>3. DOMAIN <<a, b, c, d>> = {1, 2, 3, 4}
  OBVIOUS
<1> QED
  BY <1>1, <1>2, <1>3 DEF Part, Piece

LEMMA OtherFive ==
    ASSUME NEW next, NEW a, NEW b, NEW c, NEW d, NEW e, NEW k, NEW l, NEW m, NEW n, NEW o,
           Piece(next, a, k), Piece(next, b, l), Piece(next, c, m), Piece(next, d, n), Piece(next, e, o),
           k # l, k # m, k # n, k # o, l # m, l # n, l # o, m # n, m # o, n # o,
           Other(a), Other(b), Other(c), Other(d), Other(e)
    PROVE  Part(next, <<a, b, c, d, e>>, {}, {}, {k, l, m, n, o})
<1>1. Kind({a, b, c, d, e}, InodeRec) = {} /\ Kind({a, b, c, d, e}, DirRec) = {}
  BY DEF Kind, Other
<1>2. /\ Keyed(<<a, b, c, d, e>>)
      /\ \A y : OfType(<<a, b, c, d, e>>, y) = Kind({a, b, c, d, e}, y)
  BY KeyedFive DEF Piece, Kind
<1>3. DOMAIN <<a, b, c, d, e>> = {1, 2, 3, 4, 5}
  OBVIOUS
<1> QED
  BY <1>1, <1>2, <1>3 DEF Part, Piece

\* An inode, its entry and a record that is neither.
LEMMA PairAndOther ==
    ASSUME NEW next, NEW a, NEW b, NEW c, NEW k, NEW l, NEW m,
           Piece(next, a, k), Piece(next, b, l), Piece(next, c, m), k # l, k # m, l # m,
           a.type = InodeRec, b.type = DirRec, Other(c)
    PROVE  Part(next, <<a, b, c>>, {a}, {b}, {k, l, m})
<1>1. Kind({a, b, c}, InodeRec) = {a} /\ Kind({a, b, c}, DirRec) = {b}
  BY TypesOf DEF Kind, Other
<1>2. Part(next, <<a, b, c>>, Kind({a, b, c}, InodeRec), Kind({a, b, c}, DirRec), {k, l, m})
  BY PartThree
<1> QED
  BY <1>1, <1>2

LEMMA NewRecordsPart ==
    ASSUME NEW next \in Nat, NEW b
    PROVE  \E codes : Part(next, NewRecords(next, b), NewInodes(next), NewDrecs(next), codes)
<1> DEFINE v0 == Plain(28)
           v2 == Plain(1000)
           v3 == Plain(14336)
           v5 == Compressed(39)
           v6 == Compressed(3000)
           v7 == Compressed(100000)
           a5 == [algo |-> 9, size |-> 39]
           a6 == [algo |-> 3, size |-> 3000]
           a7 == [algo |-> 4, size |-> 100000]
           l6 == 16 + ZattrBytes
           i0 == BuildInode(next, RootDir, Hello, v0)
           i1 == BuildInode(next + 1, RootDir, Docs, Folder)
           i2 == BuildInode(next + 2, next + 1, Readme, v2)
           i3 == BuildInode(next + 3, next + 1, BigBin, v3)
           i4 == BuildInode(next + 4, RootDir, Link, Symlink)
           i5 == BuildInode(next + 5, RootDir, PlainTxt, v5)
           i6 == BuildInode(next + 6, RootDir, PackedTxt, v6)
           i7 == BuildInode(next + 7, RootDir, PackedRsrc, v7)
           e0 == BuildDrec(RootDir, Hello, next, DtReg)
           e1 == BuildDrec(RootDir, Docs, next + 1, DtDir)
           e2 == BuildDrec(next + 1, Readme, next + 2, DtReg)
           e3 == BuildDrec(next + 1, BigBin, next + 3, DtReg)
           e4 == BuildDrec(RootDir, Link, next + 4, DtLnk)
           e5 == BuildDrec(RootDir, PlainTxt, next + 5, DtReg)
           e6 == BuildDrec(RootDir, PackedTxt, next + 6, DtReg)
           e7 == BuildDrec(RootDir, PackedRsrc, next + 7, DtReg)
           s0 == BuildDstreamId(next)
           s2 == BuildDstreamId(next + 2)
           s3 == BuildDstreamId(next + 3)
           f0 == BuildFileExtent(next, 0, 1, b[1])
           f2 == BuildFileExtent(next + 2, 0, 1, b[2])
           g1 == BuildFileExtent(next + 3, 0, 2, b[3])
           g2 == BuildFileExtent(next + 3, 2 * BlockBytes, 1, b[4])
           g3 == BuildFileExtent(next + 3, 3 * BlockBytes, 2, b[5])
           f8 == BuildFileExtent(Streams(next), 0, RsrcBlocks, b[6])
           x5 == BuildXattr(next + 5, DecmpfsAttr, 56, a5)
           x6 == BuildXattr(next + 6, DecmpfsAttr, l6, a6)
           x7 == BuildXattr(next + 7, DecmpfsAttr, 16, a7)
           y7 == BuildXattr(next + 7, RsrcAttr, 48, [stream |-> Streams(next), size |-> RsrcBytes])
           x4 == BuildXattr(next + 4, SymlinkAttr, 10, [target |-> Hello])
           p1 == <<i0, e0>>
           p2 == <<s0, f0>>
           p3 == <<i1, e1>>
           p4 == <<i2, e2>>
           p5 == <<s2, f2>>
           p6 == <<i3, e3>>
           p7 == <<s3, g1, g2, g3>>
           p8 == <<i5, e5>>
           p9 == <<i6, e6>>
           p10 == <<i7, e7>>
           p11 == <<x5, x6, x7, y7, f8>>
           p12 == <<i4, e4, x4>>
           c1 == {0, 13}
           c2 == {20, 40}
           c3 == {1, 12}
           c4 == {2, 19}
           c5 == {22, 42}
           c6 == {3, 11}
           c7 == {23, 30, 32, 33}
           c8 == {5, 17}
           c9 == {6, 16}
           c10 == {7, 15}
           c11 == {55, 56, 62, 61, 48}
           c12 == {4, 14, 54}
<1>1. NewRecords(next, b) =
        p1 \o p2 \o p3 \o p4 \o p5 \o p6 \o p7 \o p8 \o p9 \o p10 \o p11 \o p12
  BY SMT DEF NewRecords, File, Folder, Symlink
<1>2. /\ Hello = 3 /\ Docs = 2 /\ Readme = 9 /\ BigBin = 1 /\ PlainTxt = 7 /\ PackedTxt = 6
      /\ PackedRsrc = 5 /\ Link = 4 /\ DecmpfsAttr = 2 /\ RsrcAttr = 1 /\ SymlinkAttr = 3
  BY DEF Hello, Docs, Readme, BigBin, PlainTxt, PackedTxt, PackedRsrc, Link, DecmpfsAttr, RsrcAttr,
     SymlinkAttr
<1>3. NewInodes(next) = {i0, i1, i2, i3, i4, i5, i6, i7}
  <2> DEFINE f(k) == NewInode(next, k)
  <2>1. next + 0 = next
    OBVIOUS
  <2>2. \A k \in 0 .. 7 : NewParent(next, k) = IF k \in {2, 3} THEN next + 1 ELSE RootDir
    BY DEF NewParent
  <2>3. /\ NewParent(next, 0) = RootDir /\ NewParent(next, 1) = RootDir
        /\ NewParent(next, 2) = next + 1 /\ NewParent(next, 3) = next + 1
        /\ NewParent(next, 4) = RootDir /\ NewParent(next, 5) = RootDir
        /\ NewParent(next, 6) = RootDir /\ NewParent(next, 7) = RootDir
    BY <2>2
  <2>4. /\ NewVal(0) = v0 /\ NewVal(1) = Folder /\ NewVal(2) = v2 /\ NewVal(3) = v3
        /\ NewVal(4) = Symlink /\ NewVal(5) = v5 /\ NewVal(6) = v6 /\ NewVal(7) = v7
    BY NewVals
  <2> HIDE DEF v0, v2, v3, v5, v6, v7
  <2>5. /\ f(0) = i0 /\ f(1) = i1 /\ f(2) = i2 /\ f(3) = i3
        /\ f(4) = i4 /\ f(5) = i5 /\ f(6) = i6 /\ f(7) = i7
    BY <2>1, <2>3, <2>4, NewTables DEF NewInode
  <2>6. NewInodes(next) = {f(k) : k \in {0, 1, 2, 3, 4, 5, 6, 7}}
    BY Eight DEF NewInodes
  <2> HIDE DEF f, i0, i1, i2, i3, i4, i5, i6, i7
  <2>7. {f(k) : k \in {0, 1, 2, 3, 4, 5, 6, 7}} = {f(0), f(1), f(2), f(3), f(4), f(5), f(6), f(7)}
    OBVIOUS
  <2> QED
    BY <2>5, <2>6, <2>7
<1>4. NewDrecs(next) = {e0, e1, e2, e3, e4, e5, e6, e7}
  <2> DEFINE f(k) == NewDrec(next, k)
  <2>1. next + 0 = next
    OBVIOUS
  <2>2. \A k \in 0 .. 7 : NewParent(next, k) = IF k \in {2, 3} THEN next + 1 ELSE RootDir
    BY DEF NewParent
  <2>3. /\ NewParent(next, 0) = RootDir /\ NewParent(next, 1) = RootDir
        /\ NewParent(next, 2) = next + 1 /\ NewParent(next, 3) = next + 1
        /\ NewParent(next, 4) = RootDir /\ NewParent(next, 5) = RootDir
        /\ NewParent(next, 6) = RootDir /\ NewParent(next, 7) = RootDir
    BY <2>2
  <2>4. Dtype("file") = DtReg /\ Dtype("dir") = DtDir /\ Dtype("link") = DtLnk
    BY DEF Dtype
  <2>5. /\ f(0) = e0 /\ f(1) = e1 /\ f(2) = e2 /\ f(3) = e3
        /\ f(4) = e4 /\ f(5) = e5 /\ f(6) = e6 /\ f(7) = e7
    BY <2>1, <2>3, <2>4, NewTables DEF NewDrec
  <2>6. NewDrecs(next) = {f(k) : k \in {0, 1, 2, 3, 4, 5, 6, 7}}
    BY Eight DEF NewDrecs
  <2> HIDE DEF f, e0, e1, e2, e3, e4, e5, e6, e7
  <2>7. {f(k) : k \in {0, 1, 2, 3, 4, 5, 6, 7}} = {f(0), f(1), f(2), f(3), f(4), f(5), f(6), f(7)}
    OBVIOUS
  <2> QED
    BY <2>5, <2>6, <2>7
<1>a0. 0 \in 0 .. 8 /\ Hello \in 1 .. 10 /\ 13 = 10 + Hello
  BY <1>2
<1>a1. 1 \in 0 .. 8 /\ Docs \in 1 .. 10 /\ 12 = 10 + Docs
  BY <1>2
<1>a2. 2 \in 0 .. 8 /\ Readme \in 1 .. 10 /\ 19 = 10 + Readme
  BY <1>2
<1>a3. 3 \in 0 .. 8 /\ BigBin \in 1 .. 10 /\ 11 = 10 + BigBin
  BY <1>2
<1>a4. 4 \in 0 .. 8 /\ Link \in 1 .. 10 /\ 14 = 10 + Link
  BY <1>2
<1>a5. 5 \in 0 .. 8 /\ PlainTxt \in 1 .. 10 /\ 17 = 10 + PlainTxt
  BY <1>2
<1>a6. 6 \in 0 .. 8 /\ PackedTxt \in 1 .. 10 /\ 16 = 10 + PackedTxt
  BY <1>2
<1>a7. 7 \in 0 .. 8 /\ PackedRsrc \in 1 .. 10 /\ 15 = 10 + PackedRsrc
  BY <1>2
<1>a8. 8 \in 0 .. 8 /\ next = next + 0
  OBVIOUS
<1> HIDE DEF v0, v2, v3, v5, v6, v7, a5, a6, a7, l6
<1>c0. Part(next, <<i0, e0>>, {i0}, {e0}, {0, 13})
  BY <1>a0, <1>a8, RootPair, Zenon
<1>c1. Part(next, <<i1, e1>>, {i1}, {e1}, {1, 12})
  BY <1>a1, RootPair, Zenon
<1>c2. Part(next, <<i2, e2>>, {i2}, {e2}, {2, 19})
  BY <1>a2, DocsPair, Zenon
<1>c3. Part(next, <<i3, e3>>, {i3}, {e3}, {3, 11})
  BY <1>a3, DocsPair, Zenon
<1>c5. Part(next, <<i5, e5>>, {i5}, {e5}, {5, 17})
  BY <1>a5, RootPair, Zenon
<1>c6. Part(next, <<i6, e6>>, {i6}, {e6}, {6, 16})
  BY <1>a6, RootPair, Zenon
<1>c7. Part(next, <<i7, e7>>, {i7}, {e7}, {7, 15})
  BY <1>a7, RootPair, Zenon
<1>6. Piece(next, i4, 4) /\ Piece(next, e4, 14) /\ i4.type = InodeRec /\ e4.type = DirRec
  <2>1. Piece(next, i4, 4)
    BY <1>a4, PiecesOf, Zenon
  <2>2. Piece(next, e4, 14)
    BY <1>a4, PiecesOf, Zenon
  <2>3. i4.type = InodeRec /\ e4.type = DirRec
    BY TypesOf, Zenon
  <2> QED
    BY <2>1, <2>2, <2>3
<1>7. /\ Piece(next, s0, 20) /\ Piece(next, s2, 22) /\ Piece(next, s3, 23)
      /\ Piece(next, f0, 40) /\ Piece(next, f2, 42) /\ Piece(next, f8, 48)
      /\ Piece(next, x5, 55) /\ Piece(next, x6, 56) /\ Piece(next, x4, 54)
      /\ Piece(next, x7, 62) /\ Piece(next, y7, 61)
  <2>1. \A k \in 0 .. 8 : Piece(next, BuildDstreamId(next + k), 20 + k)
    BY PiecesOf, Zenon
  <2>2. \A k \in 0 .. 8 : k # 3 => \A number \in Nat : \A n, phys :
          Piece(next, BuildFileExtent(next + k, number, n, phys), 40 + k)
    BY PiecesOf, Zenon
  <2> DEFINE B == {56, 16 + ZattrBytes, 16, 48, 10}
  <2>3. \A k \in 0 .. 8, name \in 1 .. 3 : \A bytes \in B : \A val :
          Piece(next, BuildXattr(next + k, name, bytes, val), IF k = 7 THEN 60 + name ELSE 50 + k)
    BY PiecesOf, Zenon
  <2>4. Piece(next, s0, 20) /\ Piece(next, s2, 22) /\ Piece(next, s3, 23)
    BY <1>a8, <2>1
  <2>5. Piece(next, f0, 40) /\ Piece(next, f2, 42) /\ Piece(next, f8, 48)
    BY <1>a8, <2>2 DEF Streams
  <2>6. \A k \in 0 .. 8, name \in 1 .. 3 : k # 7 => \A bytes \in B : \A val :
          Piece(next, BuildXattr(next + k, name, bytes, val), 50 + k)
    BY <2>3
  <2>7. \A name \in 1 .. 3 : \A bytes \in B : \A val :
          Piece(next, BuildXattr(next + 7, name, bytes, val), 60 + name)
    BY <2>3
  <2>b. 56 \in B /\ l6 \in B /\ 16 \in B /\ 48 \in B /\ 10 \in B
    BY DEF l6
  <2> HIDE DEF B
  <2>8. Piece(next, x5, 55) /\ Piece(next, x6, 56) /\ Piece(next, x4, 54)
    BY <1>2, <2>6, <2>b
  <2>9. Piece(next, x7, 62) /\ Piece(next, y7, 61)
    BY <1>2, <2>7, <2>b
  <2> QED
    BY <2>4, <2>5, <2>8, <2>9
<1>8. Piece(next, g1, 30) /\ Piece(next, g2, 32) /\ Piece(next, g3, 33)
  BY LargeExtent
<1>9. /\ Other(s0) /\ Other(s2) /\ Other(s3) /\ Other(f0) /\ Other(f2) /\ Other(f8)
      /\ Other(x5) /\ Other(x6) /\ Other(x4) /\ Other(x7) /\ Other(y7) /\ Other(g1) /\ Other(g2) /\ Other(g3)
  <2>1. Other(s0) /\ Other(s2) /\ Other(s3)
    BY OtherTypes, Zenon
  <2>2. Other(f0) /\ Other(f2) /\ Other(f8) /\ Other(g1) /\ Other(g2) /\ Other(g3)
    BY OtherTypes, Zenon
  <2>3. Other(x5) /\ Other(x6) /\ Other(x4) /\ Other(x7) /\ Other(y7)
    BY OtherTypes, Zenon
  <2> QED
    BY <2>1, <2>2, <2>3, Zenon
<1> HIDE DEF i0, i1, i2, i3, i4, i5, i6, i7, e0, e1, e2, e3, e4, e5, e6, e7,
        s0, s2, s3, f0, f2, f8, x5, x6, x4, x7, y7, g1, g2, g3
<1>10. /\ Part(next, p2, {}, {}, c2) /\ Part(next, p5, {}, {}, c5)
  BY <1>7, <1>9, OtherTwo
<1>11. Part(next, p7, {}, {}, c7)
  BY <1>7, <1>8, <1>9, OtherFour
<1>12. Part(next, p11, {}, {}, c11)
  BY <1>7, <1>9, OtherFive
<1>13. Part(next, p12, {i4}, {e4}, c12)
  BY <1>6, <1>7, <1>9, PairAndOther
<1>14. /\ (c1) \cap c2 = {}
       /\ (c1 \cup c2) \cap c3 = {}
       /\ ((c1 \cup c2) \cup c3) \cap c4 = {}
       /\ (((c1 \cup c2) \cup c3) \cup c4) \cap c5 = {}
       /\ ((((c1 \cup c2) \cup c3) \cup c4) \cup c5) \cap c6 = {}
       /\ (((((c1 \cup c2) \cup c3) \cup c4) \cup c5) \cup c6) \cap c7 = {}
       /\ ((((((c1 \cup c2) \cup c3) \cup c4) \cup c5) \cup c6) \cup c7) \cap c8 = {}
       /\ (((((((c1 \cup c2) \cup c3) \cup c4) \cup c5) \cup c6) \cup c7) \cup c8) \cap c9 = {}
       /\ ((((((((c1 \cup c2) \cup c3) \cup c4) \cup c5) \cup c6) \cup c7) \cup c8) \cup c9) \cap c10 = {}
       /\ (((((((((c1 \cup c2) \cup c3) \cup c4) \cup c5) \cup c6) \cup c7) \cup c8) \cup c9) \cup c10) \cap c11 = {}
       /\ ((((((((((c1 \cup c2) \cup c3) \cup c4) \cup c5) \cup c6) \cup c7) \cup c8) \cup c9) \cup c10) \cup c11) \cap c12 = {}
  OBVIOUS
<1>15. /\ Part(next, p1, {i0}, {e0}, c1) /\ Part(next, p3, {i1}, {e1}, c3)
       /\ Part(next, p4, {i2}, {e2}, c4) /\ Part(next, p6, {i3}, {e3}, c6)
       /\ Part(next, p8, {i5}, {e5}, c8) /\ Part(next, p9, {i6}, {e6}, c9)
       /\ Part(next, p10, {i7}, {e7}, c10)
  BY <1>c0, <1>c1, <1>c2, <1>c3, <1>c5, <1>c6, <1>c7
<1> HIDE DEF p1, p2, p3, p4, p5, p6, p7, p8, p9, p10, p11, p12
<1> HIDE DEF c1, c2, c3, c4, c5, c6, c7, c8, c9, c10, c11, c12
<1>20. Part(next, p1 \o p2,
           {i0} \cup {},
           {e0} \cup {},
           c1 \cup c2)
  BY <1>15, <1>10, <1>14, PartConcat, Zenon
<1>21. Part(next, p1 \o p2 \o p3,
           ({i0} \cup {}) \cup {i1},
           ({e0} \cup {}) \cup {e1},
           (c1 \cup c2) \cup c3)
  BY <1>20, <1>15, <1>14, PartConcat, Zenon
<1>22. Part(next, p1 \o p2 \o p3 \o p4,
           (({i0} \cup {}) \cup {i1}) \cup {i2},
           (({e0} \cup {}) \cup {e1}) \cup {e2},
           ((c1 \cup c2) \cup c3) \cup c4)
  BY <1>21, <1>15, <1>14, PartConcat, Zenon
<1>23. Part(next, p1 \o p2 \o p3 \o p4 \o p5,
           ((({i0} \cup {}) \cup {i1}) \cup {i2}) \cup {},
           ((({e0} \cup {}) \cup {e1}) \cup {e2}) \cup {},
           (((c1 \cup c2) \cup c3) \cup c4) \cup c5)
  BY <1>22, <1>10, <1>14, PartConcat, Zenon
<1>24. Part(next, p1 \o p2 \o p3 \o p4 \o p5 \o p6,
           (((({i0} \cup {}) \cup {i1}) \cup {i2}) \cup {}) \cup {i3},
           (((({e0} \cup {}) \cup {e1}) \cup {e2}) \cup {}) \cup {e3},
           ((((c1 \cup c2) \cup c3) \cup c4) \cup c5) \cup c6)
  BY <1>23, <1>15, <1>14, PartConcat, ZenonT(60)
<1>25. Part(next, p1 \o p2 \o p3 \o p4 \o p5 \o p6 \o p7,
           ((((({i0} \cup {}) \cup {i1}) \cup {i2}) \cup {}) \cup {i3}) \cup {},
           ((((({e0} \cup {}) \cup {e1}) \cup {e2}) \cup {}) \cup {e3}) \cup {},
           (((((c1 \cup c2) \cup c3) \cup c4) \cup c5) \cup c6) \cup c7)
  BY <1>24, <1>11, <1>14, PartConcat, ZenonT(60)
<1>26. Part(next, p1 \o p2 \o p3 \o p4 \o p5 \o p6 \o p7 \o p8,
           (((((({i0} \cup {}) \cup {i1}) \cup {i2}) \cup {}) \cup {i3}) \cup {}) \cup {i5},
           (((((({e0} \cup {}) \cup {e1}) \cup {e2}) \cup {}) \cup {e3}) \cup {}) \cup {e5},
           ((((((c1 \cup c2) \cup c3) \cup c4) \cup c5) \cup c6) \cup c7) \cup c8)
  BY <1>25, <1>15, <1>14, PartConcat, ZenonT(60)
<1>27. Part(next, p1 \o p2 \o p3 \o p4 \o p5 \o p6 \o p7 \o p8 \o p9,
           ((((((({i0} \cup {}) \cup {i1}) \cup {i2}) \cup {}) \cup {i3}) \cup {}) \cup {i5}) \cup {i6},
           ((((((({e0} \cup {}) \cup {e1}) \cup {e2}) \cup {}) \cup {e3}) \cup {}) \cup {e5}) \cup {e6},
           (((((((c1 \cup c2) \cup c3) \cup c4) \cup c5) \cup c6) \cup c7) \cup c8) \cup c9)
  BY <1>26, <1>15, <1>14, PartConcat, ZenonT(60)
<1>28. Part(next, p1 \o p2 \o p3 \o p4 \o p5 \o p6 \o p7 \o p8 \o p9 \o p10,
           (((((((({i0} \cup {}) \cup {i1}) \cup {i2}) \cup {}) \cup {i3}) \cup {}) \cup {i5}) \cup {i6}) \cup {i7},
           (((((((({e0} \cup {}) \cup {e1}) \cup {e2}) \cup {}) \cup {e3}) \cup {}) \cup {e5}) \cup {e6}) \cup {e7},
           ((((((((c1 \cup c2) \cup c3) \cup c4) \cup c5) \cup c6) \cup c7) \cup c8) \cup c9) \cup c10)
  BY <1>27, <1>15, <1>14, PartConcat, ZenonT(60)
<1>29. Part(next, p1 \o p2 \o p3 \o p4 \o p5 \o p6 \o p7 \o p8 \o p9 \o p10 \o p11,
           ((((((((({i0} \cup {}) \cup {i1}) \cup {i2}) \cup {}) \cup {i3}) \cup {}) \cup {i5}) \cup {i6}) \cup {i7}) \cup {},
           ((((((((({e0} \cup {}) \cup {e1}) \cup {e2}) \cup {}) \cup {e3}) \cup {}) \cup {e5}) \cup {e6}) \cup {e7}) \cup {},
           (((((((((c1 \cup c2) \cup c3) \cup c4) \cup c5) \cup c6) \cup c7) \cup c8) \cup c9) \cup c10) \cup c11)
  <2>1. (((((((((c1 \cup c2) \cup c3) \cup c4) \cup c5) \cup c6) \cup c7) \cup c8) \cup c9) \cup c10) \cap c11 = {}
    BY <1>14, Zenon
  <2> QED
    BY <1>28, <1>12, <2>1, PartConcat, ZenonT(60)
<1>30. Part(next, p1 \o p2 \o p3 \o p4 \o p5 \o p6 \o p7 \o p8 \o p9 \o p10 \o p11 \o p12,
           (((((((((({i0} \cup {}) \cup {i1}) \cup {i2}) \cup {}) \cup {i3}) \cup {}) \cup {i5}) \cup {i6}) \cup {i7}) \cup {}) \cup {i4},
           (((((((((({e0} \cup {}) \cup {e1}) \cup {e2}) \cup {}) \cup {e3}) \cup {}) \cup {e5}) \cup {e6}) \cup {e7}) \cup {}) \cup {e4},
           ((((((((((c1 \cup c2) \cup c3) \cup c4) \cup c5) \cup c6) \cup c7) \cup c8) \cup c9) \cup c10) \cup c11) \cup c12)
  BY <1>29, <1>13, <1>14, PartConcat, ZenonT(60)
<1>40. NewInodes(next) = (((((((((({i0} \cup {}) \cup {i1}) \cup {i2}) \cup {}) \cup {i3}) \cup {}) \cup {i5}) \cup {i6}) \cup {i7}) \cup {}) \cup {i4}
  BY <1>3
<1>41. NewDrecs(next) = (((((((((({e0} \cup {}) \cup {e1}) \cup {e2}) \cup {}) \cup {e3}) \cup {}) \cup {e5}) \cup {e6}) \cup {e7}) \cup {}) \cup {e4}
  BY <1>4
<1> QED
  BY <1>1, <1>30, <1>40, <1>41, Zenon

LEMMA ModeOf ==
    ASSUME NEW k \in 0 .. 7
    PROVE  NewVal(k).mode = NewMode(k) /\ NewName(k) \in 1 .. 10
<1>1. /\ \A n : Plain(n).mode = "file" /\ Compressed(n).mode = "file"
      /\ Folder.mode = "dir" /\ Symlink.mode = "link"
  BY DEF Plain, Compressed, Zeroed, Folder, Symlink
<1>2. NewVal(k).mode = NewMode(k)
  <2>1. k \in {0, 1, 2, 3, 4, 5, 6, 7}
    BY Eight
  <2>2. NewVal(0).mode = "file" /\ NewVal(2).mode = "file" /\ NewVal(3).mode = "file"
        /\ NewVal(5).mode = "file" /\ NewVal(6).mode = "file" /\ NewVal(7).mode = "file"
        /\ NewVal(1).mode = "dir" /\ NewVal(4).mode = "link"
    BY <1>1, NewVals
  <2> QED
    BY <2>1, <2>2, NewTables
<1>3. NewName(k) \in 1 .. 10
  <2>1. k \in {0, 1, 2, 3, 4, 5, 6, 7}
    BY Eight
  <2>2. /\ Hello \in 1 .. 10 /\ Docs \in 1 .. 10 /\ Readme \in 1 .. 10 /\ BigBin \in 1 .. 10
        /\ Link \in 1 .. 10 /\ PlainTxt \in 1 .. 10 /\ PackedTxt \in 1 .. 10 /\ PackedRsrc \in 1 .. 10
    BY DEF Hello, Docs, Readme, BigBin, Link, PlainTxt, PackedTxt, PackedRsrc
  <2> QED
    BY <2>1, <2>2, NewTables
<1> QED
  BY <1>2, <1>3

\* An inode's key is its id and type, and its value has all its fields.
InodeFields(r) == r.number = 0 /\ r.name = 0 /\ r.val = [f \in DOMAIN Zeroed |-> r.val[f]]

LEMMA BuiltVal ==
    ASSUME NEW id, NEW parent, NEW name, NEW val, val = [f \in DOMAIN Zeroed |-> val[f]]
    PROVE  LET r == BuildInode(id, parent, name, val)
           IN  /\ r.id = id /\ r.type = InodeRec /\ InodeFields(r)
               /\ r.val.parent = parent /\ r.val.private = id
               /\ r.val.mode = val.mode /\ r.val.kids = val.kids
<1>1. DOMAIN Zeroed = {"parent", "private", "mode", "kids", "stream", "compressed", "hasSize", "uncompressed"}
  BY DEF Zeroed
<1>2. DOMAIN val = DOMAIN Zeroed
  OBVIOUS
<1> DEFINE v == [val EXCEPT !.parent = parent, !.private = id]
<1>3. /\ v.parent = parent /\ v.private = id /\ v.mode = val.mode /\ v.kids = val.kids
      /\ v = [f \in DOMAIN Zeroed |-> v[f]]
  BY <1>1, <1>2
<1>4. /\ BuildInode(id, parent, name, val).id = id
      /\ BuildInode(id, parent, name, val).type = InodeRec
      /\ BuildInode(id, parent, name, val).val = v
      /\ BuildInode(id, parent, name, val).number = 0
      /\ BuildInode(id, parent, name, val).name = 0
  BY DEF BuildInode, Rec
<1> HIDE DEF v
<1> QED
  BY <1>3, <1>4 DEF InodeFields

LEMMA ValFields ==
    ASSUME NEW k \in 0 .. 7
    PROVE  NewVal(k) = [f \in DOMAIN Zeroed |-> NewVal(k)[f]] /\ (k = 1 => NewVal(k).kids = 2)
<1>1. k \in {0, 1, 2, 3, 4, 5, 6, 7}
  BY Eight
<1> DEFINE Whole1(v) == v = [f \in DOMAIN Zeroed |-> v[f]]
<1>2. Whole1(Folder) /\ Whole1(Symlink) /\ Folder.kids = 2
  BY DEF Zeroed, Folder, Symlink
<1>3. \A n : Whole1(Plain(n))
  BY DEF Zeroed, Plain
<1>4. \A n : Whole1(Compressed(n))
  BY DEF Zeroed, Compressed
<1> HIDE DEF Whole1
<1>5. /\ Whole1(NewVal(0)) /\ Whole1(NewVal(1)) /\ Whole1(NewVal(2)) /\ Whole1(NewVal(3))
      /\ Whole1(NewVal(4)) /\ Whole1(NewVal(5)) /\ Whole1(NewVal(6)) /\ Whole1(NewVal(7))
  BY <1>2, <1>3, <1>4, NewVals
<1>6. Whole1(NewVal(k))
  BY <1>1, <1>5
<1> QED
  BY <1>2, <1>6, NewVals DEF Whole1

LEMMA NewInodeFacts ==
    ASSUME NEW next, NEW k \in 0 .. 7
    PROVE  LET r == NewInode(next, k)
           IN  /\ r.id = next + k /\ r.type = InodeRec /\ InodeFields(r)
               /\ r.val.parent = NewParent(next, k) /\ r.val.private = next + k
               /\ r.val.mode = NewMode(k)
               /\ k = 1 => r.val.kids = 2
BY BuiltVal, ValFields, ModeOf DEF NewInode

LEMMA NewDrecFacts ==
    ASSUME NEW next, NEW k \in 0 .. 7
    PROVE  LET e == NewDrec(next, k)
           IN  /\ e.id = NewParent(next, k) /\ e.type = DirRec /\ e.name = NewName(k)
               /\ e.name \in DOMAIN Hash /\ e.number = Hash[e.name]
               /\ e.val.file = next + k /\ e.val.dtype = Dtype(NewMode(k))
<1>1. NewName(k) \in DOMAIN Hash
  BY ModeOf, HashAssumption
<1> QED
  BY <1>1 DEF NewDrec, BuildDrec, Rec

\* A set with as many elements as another: the values of a one-to-one function.
LEMMA ImageCounted ==
    ASSUME NEW f, NEW K, IsFiniteSet(K), \A x, y \in K : f[x] = f[y] => x = y
    PROVE  LET T == {f[x] : x \in K}
           IN  IsFiniteSet(T) /\ Cardinality(T) = Cardinality(K)
<1> DEFINE T == {f[x] : x \in K}
           g == [x \in K |-> f[x]]
<1>1. g \in Bijection(K, T)
  BY DEF Bijection, Injection, Surjection, IsInjective
<1> HIDE DEF g, T
<1>2. ExistsBijection(K, T)
  BY <1>1 DEF ExistsBijection
<1> QED
  BY <1>2, FS_Bijection DEF T

LEMMA ImageFinite ==
    ASSUME NEW f, NEW K, IsFiniteSet(K)
    PROVE  IsFiniteSet({f[x] : x \in K})
<1> DEFINE T == {f[x] : x \in K}
           g == [x \in K |-> f[x]]
<1>1. g \in Surjection(K, T)
  BY DEF Surjection
<1> HIDE DEF g, T
<1> QED
  BY <1>1, FS_Surjection DEF T

\* Keyed records are finitely many.
LEMMA OfTypeFinite ==
    ASSUME NEW s, Keyed(s), NEW y
    PROVE  IsFiniteSet(OfType(s, y))
<1> DEFINE D == {j \in DOMAIN s : s[j].type = y}
<1>1. IsFiniteSet(D)
  <2>1. DOMAIN s = 1 .. Len(s) /\ Len(s) \in Int
    BY KeyedLen
  <2>2. IsFiniteSet(1 .. Len(s))
    BY <2>1, FS_Interval
  <2> QED
    BY <2>1, <2>2, FS_Subset
<1>2. OfType(s, y) = {s[j] : j \in D}
  BY DEF OfType
<1> HIDE DEF D
<1> QED
  BY <1>1, <1>2, ImageFinite

\* What WithChildren makes of an inode.
Grown(r) == IF r.id = RootDir THEN [r EXCEPT !.val.kids = @ + 6] ELSE r

LEMMA GrownRecords ==
    ASSUME NEW s, Keyed(s)
    PROVE  /\ Keyed(WithChildren(s)) /\ Shaped(s, WithChildren(s))
           /\ \A y : y # InodeRec => OfType(WithChildren(s), y) = OfType(s, y)
           /\ OfType(WithChildren(s), InodeRec) = {Grown(r) : r \in OfType(s, InodeRec)}
<1> DEFINE w == WithChildren(s)
<1>1. Keyed(w) /\ DOMAIN w = DOMAIN s
  BY KeyedWithChildren DEF WithChildren
<1>2. ASSUME NEW i \in DOMAIN s
      PROVE  /\ w[i].id = s[i].id /\ w[i].type = s[i].type /\ w[i].number = s[i].number
             /\ w[i].name = s[i].name /\ w[i].klen = s[i].klen /\ w[i].vlen = s[i].vlen
             /\ w[i] = IF s[i].type = InodeRec THEN Grown(s[i]) ELSE s[i]
  <2>1. s[i] = [f \in RecFields |-> s[i][f]]
    BY DEF Keyed
  <2>2. CASE s[i].id = RootDir /\ s[i].type = InodeRec
    <3>1. w[i] = [s[i] EXCEPT !.val.kids = @ + 6]
      BY <2>2 DEF WithChildren
    <3>2. PICK v : w[i] = [s[i] EXCEPT !.val = v]
      BY <3>1
    <3>3. w[i] = Grown(s[i])
      BY <2>2, <3>1 DEF Grown
    <3> HIDE DEF w
    <3>4. /\ w[i].id = s[i].id /\ w[i].type = s[i].type /\ w[i].number = s[i].number
          /\ w[i].name = s[i].name /\ w[i].klen = s[i].klen /\ w[i].vlen = s[i].vlen
      BY <2>1, <3>2 DEF RecFields
    <3> QED
      BY <2>2, <3>3, <3>4
  <2>3. CASE ~ (s[i].id = RootDir /\ s[i].type = InodeRec)
    <3>1. w[i] = s[i]
      BY <2>3 DEF WithChildren
    <3> QED
      BY <2>3, <3>1 DEF Grown
  <2> QED
    BY <2>2, <2>3
<1> HIDE DEF w
<1>3. Shaped(s, w)
  BY <1>1, <1>2 DEF Shaped, SameKeys
<1>4. \A y : {j \in DOMAIN w : w[j].type = y} = {j \in DOMAIN s : s[j].type = y}
  BY <1>1, <1>2
<1>5. ASSUME NEW y, y # InodeRec
      PROVE  OfType(w, y) = OfType(s, y)
  <2>1. \A j \in {j \in DOMAIN s : s[j].type = y} : w[j] = s[j]
    BY <1>2, <1>5
  <2> QED
    BY <1>4, <2>1 DEF OfType
<1>6. OfType(w, InodeRec) = {Grown(r) : r \in OfType(s, InodeRec)}
  <2> DEFINE D == {j \in DOMAIN s : s[j].type = InodeRec}
  <2>1. \A j \in D : w[j] = Grown(s[j])
    BY <1>2
  <2>2. OfType(w, InodeRec) = {w[j] : j \in D} /\ OfType(s, InodeRec) = {s[j] : j \in D}
    BY <1>4, Zenon DEF OfType
  <2> HIDE DEF D
  <2> QED
    BY <2>1, <2>2
<1> QED
  BY <1>1, <1>3, <1>5, <1>6 DEF w

LEMMA EightCounted == IsFiniteSet(0 .. 7) /\ Cardinality(0 .. 7) = 8
<1>1. 0 \in Int /\ 7 \in Int /\ ~ (0 > 7) /\ 7 - 0 + 1 = 8
  OBVIOUS
<1> QED
  BY <1>1, FS_Interval, Zenon

\* All but two of them.
LEMMA SixCounted ==
    ASSUME NEW i \in 0 .. 7, NEW j \in 0 .. 7, i # j
    PROVE  Cardinality(((0 .. 7) \ {i}) \ {j}) = 6
<1> DEFINE N == 0 .. 7
           S == N \ {i}
<1>1. IsFiniteSet(N) /\ Cardinality(N) = 8 /\ i \in N /\ j \in N
  BY EightCounted
<1> HIDE DEF N
<1>2. IsFiniteSet(S) /\ Cardinality(S) = 7
  BY <1>1, FS_RemoveElement
<1>3. j \in S
  BY <1>1
<1> HIDE DEF S
<1>4. Cardinality(S \ {j}) = 6
  BY <1>2, <1>3, FS_RemoveElement
<1> QED
  BY <1>4 DEF S, N

\* How many there are of what kind.
LEMMA KindsCounted ==
    /\ Cardinality({k \in 0 .. 7 : NewMode(k) = "file"}) = 6
    /\ Cardinality({k \in 0 .. 7 : NewMode(k) = "dir"}) = 1
    /\ Cardinality({k \in 0 .. 7 : NewMode(k) = "link"}) = 1
<1>1. /\ {k \in 0 .. 7 : NewMode(k) = "file"} = ((0 .. 7) \ {1}) \ {4}
      /\ {k \in 0 .. 7 : NewMode(k) = "dir"} = {1}
      /\ {k \in 0 .. 7 : NewMode(k) = "link"} = {4}
  BY DEF NewMode
<1>2. Cardinality(((0 .. 7) \ {1}) \ {4}) = 6
  <2>1. 1 \in 0 .. 7 /\ 4 \in 0 .. 7 /\ 1 # 4
    OBVIOUS
  <2> QED
    BY <2>1, SixCounted, Zenon
<1>3. Cardinality({1}) = 1 /\ Cardinality({4}) = 1
  BY FS_Singleton
<1> QED
  BY <1>1, <1>2, <1>3, Zenon

LEMMA ChildrenCounted ==
    ASSUME NEW next \in Nat, next > RootDir
    PROVE  /\ Cardinality({k \in 0 .. 7 : NewParent(next, k) = RootDir}) = 6
           /\ Cardinality({k \in 0 .. 7 : NewParent(next, k) = next + 1}) = 2
<1> DEFINE docs == next + 1
           P(k) == NewParent(next, k)
           A == {k \in 0 .. 7 : P(k) = RootDir}
           B == {k \in 0 .. 7 : P(k) = docs}
<1>1. docs # RootDir
  BY DEF RootDir
<1>2. \A k : P(k) = IF k \in {2, 3} THEN docs ELSE RootDir
  BY DEF NewParent
<1> HIDE DEF docs, P
<1>3. A = ((0 .. 7) \ {2}) \ {3}
  BY <1>1, <1>2
<1>4. B = {2} \cup {3}
  <2>1. 2 \in 0 .. 7 /\ 3 \in 0 .. 7
    OBVIOUS
  <2> QED
    BY <1>1, <1>2, <2>1
<1>5. IsFiniteSet({2}) /\ Cardinality({2}) = 1
  BY FS_Singleton
<1>6. Cardinality({2} \cup {3}) = 2
  BY <1>5, FS_AddElement
<1>7. Cardinality(((0 .. 7) \ {2}) \ {3}) = 6
  <2>1. 2 \in 0 .. 7 /\ 3 \in 0 .. 7 /\ 2 # 3
    OBVIOUS
  <2> QED
    BY <2>1, SixCounted, Zenon
<1> QED
  BY <1>3, <1>4, <1>6, <1>7, Zenon DEF P, docs

LEMMA SomeCounted ==
    ASSUME NEW next \in Nat, NEW K \in SUBSET (0 .. 7)
    PROVE  /\ IsFiniteSet({NewInode(next, k) : k \in K}) /\ IsFiniteSet({NewDrec(next, k) : k \in K})
           /\ Cardinality({NewInode(next, k) : k \in K}) = Cardinality(K)
           /\ Cardinality({NewDrec(next, k) : k \in K}) = Cardinality(K)
<1>1. IsFiniteSet(K)
  BY EightCounted, FS_Subset
<1> DEFINE f == [k \in 0 .. 7 |-> NewInode(next, k)]
           g == [k \in 0 .. 7 |-> NewDrec(next, k)]
<1>2. \A k \in 0 .. 7 : f[k] = NewInode(next, k) /\ g[k] = NewDrec(next, k)
  OBVIOUS
<1> HIDE DEF f, g
<1>3. \A k \in 0 .. 7 : f[k].id = next + k /\ g[k].val.file = next + k
  BY <1>2, NewInodeFacts, NewDrecFacts
<1>4. \A x, y \in K : (f[x] = f[y] => x = y) /\ (g[x] = g[y] => x = y)
  <2> SUFFICES ASSUME NEW x \in K, NEW y \in K, f[x] = f[y] \/ g[x] = g[y] PROVE x = y
    OBVIOUS
  <2>1. next + x = next + y
    BY <1>3
  <2> QED
    BY <2>1
<1>5. {f[k] : k \in K} = {NewInode(next, k) : k \in K} /\ {g[k] : k \in K} = {NewDrec(next, k) : k \in K}
  BY <1>2
<1>6. IsFiniteSet({f[k] : k \in K}) /\ Cardinality({f[k] : k \in K}) = Cardinality(K)
  <2>1. \A x, y \in K : f[x] = f[y] => x = y
    BY <1>4
  <2> QED
    BY <1>1, <2>1, ImageCounted
<1>7. IsFiniteSet({g[k] : k \in K}) /\ Cardinality({g[k] : k \in K}) = Cardinality(K)
  <2>1. \A x, y \in K : g[x] = g[y] => x = y
    BY <1>4
  <2> QED
    BY <1>1, <2>1, ImageCounted
<1> QED
  BY <1>5, <1>6, <1>7

\* What a checker asks of the inodes I and the entries E of a tree.
Paired(I, E, next) ==
    /\ IsFiniteSet(I) /\ IsFiniteSet(E)
    /\ \A r \in I : r.id \in Nat /\ r.id < next /\ InodeFields(r)
    /\ \A r, q \in I : r.id = q.id => r = q
    /\ \A e \in E : e.id \in Nat /\ e.id < next
    /\ \A e \in E : \E r \in I :
          r.id = e.val.file /\ r.val.parent = e.id /\ e.val.dtype = Dtype(r.val.mode)
    /\ \A e \in E : e.name \in DOMAIN Hash /\ e.number = Hash[e.name]
    /\ \A r \in I : Cardinality({e \in E : e.val.file = r.id}) = 1
    /\ \A r \in I : r.val.mode = "dir" => r.val.kids = Cardinality({e \in E : e.id = r.id})

OfMode(I, m) == {r \in I : r.val.mode = m}

LEMMA GrownFacts ==
    ASSUME NEW r, r.id \in Nat, InodeFields(r), r = [f \in RecFields |-> r[f]]
    PROVE  /\ Grown(r).id = r.id /\ Grown(r).val.parent = r.val.parent /\ Grown(r).type = r.type
           /\ Grown(r).val.mode = r.val.mode /\ InodeFields(Grown(r))
           /\ Grown(r).val.kids = IF r.id = RootDir THEN r.val.kids + 6 ELSE r.val.kids
<1>1. DOMAIN Zeroed = {"parent", "private", "mode", "kids", "stream", "compressed", "hasSize", "uncompressed"}
  BY DEF Zeroed
<1>2. CASE r.id # RootDir
  BY <1>2 DEF Grown, InodeFields
<1>3. CASE r.id = RootDir
  <2> DEFINE v == [r.val EXCEPT !.kids = @ + 6]
  <2>1. Grown(r) = [r EXCEPT !.val = v]
    BY <1>3 DEF Grown
  <2>2. /\ v.parent = r.val.parent /\ v.mode = r.val.mode /\ v.kids = r.val.kids + 6
        /\ v = [f \in DOMAIN Zeroed |-> v[f]]
    BY <1>1 DEF InodeFields
  <2> HIDE DEF v
  <2>3. /\ Grown(r).id = r.id /\ Grown(r).val = v /\ Grown(r).type = r.type
        /\ Grown(r).number = r.number /\ Grown(r).name = r.name
    BY <2>1 DEF RecFields
  <2> QED
    BY <1>3, <2>2, <2>3 DEF InodeFields
<1> QED
  BY <1>2, <1>3

LEMMA NewChildren ==
    ASSUME NEW next \in Nat, next > RootDir
    PROVE  /\ Cardinality({NewDrec(next, k) : k \in {k \in 0 .. 7 : NewParent(next, k) = RootDir}}) = 6
           /\ Cardinality({NewDrec(next, k) : k \in {k \in 0 .. 7 : NewParent(next, k) = next + 1}}) = 2
<1> DEFINE A == {k \in 0 .. 7 : NewParent(next, k) = RootDir}
           B == {k \in 0 .. 7 : NewParent(next, k) = next + 1}
<1>1. A \in SUBSET (0 .. 7) /\ B \in SUBSET (0 .. 7) /\ Cardinality(A) = 6 /\ Cardinality(B) = 2
  BY ChildrenCounted
<1> HIDE DEF A, B
<1>2. Cardinality({NewDrec(next, k) : k \in A}) = 6 /\ Cardinality({NewDrec(next, k) : k \in B}) = 2
  BY <1>1, SomeCounted
<1> QED
  BY <1>2 DEF A, B

LEMMA PairedGrows ==
    ASSUME NEW next \in Nat, next > RootDir, NEW I, NEW E, Paired(I, E, next),
           \A r \in I : r = [f \in RecFields |-> r[f]], \A e \in E : e.id # RootDir
    PROVE  Paired({Grown(r) : r \in I} \cup NewInodes(next), E \cup NewDrecs(next), NextAfter(next))
<1> DEFINE G == {Grown(r) : r \in I}
           N(k) == NewInode(next, k)
           D(k) == NewDrec(next, k)
           P(k) == NewParent(next, k)
           J == G \cup NewInodes(next)
           F == E \cup NewDrecs(next)
           n == NextAfter(next)
<1>1. /\ \A r \in I : /\ r.id \in Nat /\ r.id < next /\ InodeFields(r) /\ r = [f \in RecFields |-> r[f]]
                      /\ Cardinality({e \in E : e.val.file = r.id}) = 1
                      /\ r.val.mode = "dir" => r.val.kids = Cardinality({e \in E : e.id = r.id})
      /\ \A r, q \in I : r.id = q.id => r = q
      /\ \A e \in E : /\ e.id \in Nat /\ e.id < next /\ e.id # RootDir
                      /\ e.name \in DOMAIN Hash /\ e.number = Hash[e.name]
                      /\ \E r \in I : /\ r.id = e.val.file /\ r.val.parent = e.id
                                      /\ e.val.dtype = Dtype(r.val.mode)
      /\ IsFiniteSet(I) /\ IsFiniteSet(E)
  BY DEF Paired
<1>2. \A r \in I : /\ Grown(r).id = r.id /\ Grown(r).val.parent = r.val.parent
                   /\ Grown(r).val.mode = r.val.mode /\ InodeFields(Grown(r))
                   /\ Grown(r).val.kids = IF r.id = RootDir THEN r.val.kids + 6 ELSE r.val.kids
  BY <1>1, GrownFacts
<1>3. n = next + 9 /\ RootDir \in Nat
  BY DEF NextAfter, Streams, RootDir
<1>4. \A k \in 0 .. 7 :
        /\ N(k).id = next + k /\ InodeFields(N(k)) /\ N(k).val.parent = P(k)
        /\ N(k).val.mode = NewMode(k) /\ (k = 1 => N(k).val.kids = 2)
        /\ D(k).id = P(k) /\ D(k).name \in DOMAIN Hash /\ D(k).number = Hash[D(k).name]
        /\ D(k).val.file = next + k /\ D(k).val.dtype = Dtype(NewMode(k))
        /\ P(k) \in {RootDir, next + 1}
  BY NewInodeFacts, NewDrecFacts DEF NewParent
<1>5. /\ \A r \in J : (\E q \in I : r = Grown(q)) \/ (\E k \in 0 .. 7 : r = N(k))
      /\ \A k \in 0 .. 7 : N(k) \in J /\ D(k) \in F
      /\ \A q \in I : Grown(q) \in J
      /\ \A e \in F : e \in E \/ (\E k \in 0 .. 7 : e = D(k))
      /\ \A e \in E : e \in F
  BY DEF NewInodes, NewDrecs
<1>6. IsFiniteSet(J) /\ IsFiniteSet(F)
  <2>1. IsFiniteSet(G)
    <3> DEFINE f == [r \in I |-> Grown(r)]
    <3>1. {f[r] : r \in I} = G
      OBVIOUS
    <3> HIDE DEF f, G
    <3> QED
      BY <1>1, <3>1, ImageFinite
  <2>2. IsFiniteSet(NewInodes(next)) /\ IsFiniteSet(NewDrecs(next))
    BY SomeCounted DEF NewInodes, NewDrecs
  <2> HIDE DEF G
  <2> QED
    BY <1>1, <2>1, <2>2, FS_Union
<1>7. ASSUME NEW e \in E, NEW k \in 0 .. 7
      PROVE  e.val.file # next + k /\ e.id # P(k)
  <2>1. PICK r \in I : r.id = e.val.file
    BY <1>1
  <2>2. r.id < next /\ r.id \in Nat /\ e.id < next /\ e.id \in Nat /\ e.id # RootDir
    BY <1>1
  <2>3. e.val.file # next + k
    BY <2>1, <2>2
  <2>4. e.id # next + 1 /\ e.id # RootDir
    BY <2>2
  <2> QED
    BY <1>4, <2>3, <2>4
<1> HIDE DEF G, N, D, P, J, F, n
<1>8. ASSUME NEW r \in J
      PROVE  r.id \in Nat /\ r.id < n /\ InodeFields(r)
  <2>1. CASE \E q \in I : r = Grown(q)
    <3>1. PICK q \in I : r = Grown(q)
      BY <2>1
    <3>2. r.id = q.id /\ q.id \in Nat /\ q.id < next /\ InodeFields(r)
      BY <1>1, <1>2, <3>1
    <3> QED
      BY <1>3, <3>2
  <2>2. CASE \E k \in 0 .. 7 : r = N(k)
    BY <1>3, <1>4, <2>2
  <2> QED
    BY <1>5, <2>1, <2>2
<1>9. ASSUME NEW r \in J, NEW q \in J, r.id = q.id
      PROVE  r = q
  <2>1. CASE (\E a \in I : r = Grown(a)) /\ (\E a \in I : q = Grown(a))
    BY <1>1, <1>2, <1>9, <2>1
  <2>2. CASE (\E k \in 0 .. 7 : r = N(k)) /\ (\E k \in 0 .. 7 : q = N(k))
    <3>1. PICK k \in 0 .. 7 : r = N(k)
      BY <2>2
    <3>2. PICK j \in 0 .. 7 : q = N(j)
      BY <2>2
    <3>3. next + k = next + j
      BY <1>4, <1>9, <3>1, <3>2
    <3>4. k = j
      BY <3>3
    <3> QED
      BY <3>1, <3>2, <3>4
  <2>3. CASE (\E a \in I : r = Grown(a)) /\ (\E k \in 0 .. 7 : q = N(k))
    <3>1. PICK a \in I : r = Grown(a)
      BY <2>3
    <3>2. PICK k \in 0 .. 7 : q = N(k)
      BY <2>3
    <3>3. a.id = next + k /\ a.id < next /\ a.id \in Nat
      BY <1>1, <1>2, <1>4, <1>9, <3>1, <3>2
    <3> QED
      BY <3>3
  <2>4. CASE (\E k \in 0 .. 7 : r = N(k)) /\ (\E a \in I : q = Grown(a))
    <3>1. PICK a \in I : q = Grown(a)
      BY <2>4
    <3>2. PICK k \in 0 .. 7 : r = N(k)
      BY <2>4
    <3>3. a.id = next + k /\ a.id < next /\ a.id \in Nat
      BY <1>1, <1>2, <1>4, <1>9, <3>1, <3>2
    <3> QED
      BY <3>3
  <2> QED
    BY <1>5, <2>1, <2>2, <2>3, <2>4
<1>10. ASSUME NEW e \in F
       PROVE  /\ e.id \in Nat /\ e.id < n /\ e.name \in DOMAIN Hash /\ e.number = Hash[e.name]
              /\ \E r \in J : /\ r.id = e.val.file /\ r.val.parent = e.id
                              /\ e.val.dtype = Dtype(r.val.mode)
  <2>1. CASE e \in E
    <3>1. PICK r \in I : r.id = e.val.file /\ r.val.parent = e.id /\ e.val.dtype = Dtype(r.val.mode)
      BY <1>1, <2>1
    <3>2. Grown(r) \in J /\ Grown(r).id = e.val.file /\ Grown(r).val.parent = e.id
          /\ Grown(r).val.mode = r.val.mode
      BY <1>2, <1>5, <3>1
    <3>3. e.id \in Nat /\ e.id < n
      BY <1>1, <1>3, <2>1
    <3> QED
      BY <1>1, <2>1, <3>1, <3>2, <3>3
  <2>2. CASE \E k \in 0 .. 7 : e = D(k)
    <3>1. PICK k \in 0 .. 7 : e = D(k)
      BY <2>2
    <3>2. N(k) \in J /\ N(k).id = e.val.file /\ N(k).val.parent = e.id /\ N(k).val.mode = NewMode(k)
      BY <1>4, <1>5, <3>1
    <3>3. e.id \in Nat /\ e.id < n
      BY <1>3, <1>4, <3>1
    <3> QED
      BY <1>4, <3>1, <3>2, <3>3
  <2> QED
    BY <1>5, <2>1, <2>2
<1>11. ASSUME NEW r \in J
       PROVE  Cardinality({e \in F : e.val.file = r.id}) = 1
  <2>1. CASE \E q \in I : r = Grown(q)
    <3>1. PICK q \in I : r = Grown(q)
      BY <2>1
    <3>2. r.id = q.id /\ q.id < next /\ q.id \in Nat
      BY <1>1, <1>2, <3>1
    <3>3. \A k \in 0 .. 7 : D(k).val.file # r.id
      BY <1>4, <3>2
    <3>4. {e \in F : e.val.file = r.id} = {e \in E : e.val.file = q.id}
      BY <1>5, <3>2, <3>3
    <3> QED
      BY <1>1, <3>4
  <2>2. CASE \E k \in 0 .. 7 : r = N(k)
    <3>1. PICK k \in 0 .. 7 : r = N(k)
      BY <2>2
    <3>2. r.id = next + k /\ D(k) \in F /\ D(k).val.file = r.id
      BY <1>4, <1>5, <3>1
    <3>3. \A j \in 0 .. 7 : D(j).val.file = r.id => j = k
      <4> SUFFICES ASSUME NEW j \in 0 .. 7, D(j).val.file = r.id PROVE j = k
        OBVIOUS
      <4>1. next + j = next + k
        BY <1>4, <3>2
      <4> QED
        BY <4>1
    <3>4. \A e \in E : e.val.file # r.id
      BY <1>7, <3>2
    <3>5. {e \in F : e.val.file = r.id} = {D(k)}
      BY <1>5, <3>2, <3>3, <3>4
    <3> QED
      BY <3>5, FS_Singleton
  <2> QED
    BY <1>5, <2>1, <2>2
<1>12. \A d : (\A e \in E : e.id # d) =>
         {e \in F : e.id = d} = {NewDrec(next, k) : k \in {k \in 0 .. 7 : NewParent(next, k) = d}}
  <2> SUFFICES ASSUME NEW d, \A e \in E : e.id # d
               PROVE  {e \in F : e.id = d} = {D(k) : k \in {k \in 0 .. 7 : P(k) = d}}
    BY DEF D, P
  <2> QED
    BY <1>4, <1>5
<1>13. ASSUME NEW r \in J, r.val.mode = "dir"
       PROVE  r.val.kids = Cardinality({e \in F : e.id = r.id})
  <2>1. CASE \E q \in I : r = Grown(q)
    <3>1. PICK q \in I : r = Grown(q)
      BY <2>1
    <3>2. /\ r.id = q.id /\ q.id < next /\ q.id \in Nat /\ q.val.mode = "dir"
          /\ q.val.kids = Cardinality({e \in E : e.id = q.id})
          /\ r.val.kids = IF q.id = RootDir THEN q.val.kids + 6 ELSE q.val.kids
      BY <1>1, <1>2, <1>13, <3>1
    <3>3. CASE q.id = RootDir
      <4>1. {e \in E : e.id = q.id} = {} /\ \A e \in E : e.id # r.id
        BY <1>1, <3>2, <3>3
      <4>2. q.val.kids = 0
        BY <3>2, <4>1, FS_EmptySet, Zenon
      <4>3. r.val.kids = 6
        BY <3>2, <3>3, <4>2
      <4>4. {e \in F : e.id = r.id} = {NewDrec(next, k) : k \in {k \in 0 .. 7 : NewParent(next, k) = RootDir}}
        BY <1>12, <3>2, <3>3, <4>1
      <4> QED
        BY <4>3, <4>4, NewChildren
    <3>4. CASE q.id # RootDir
      <4>1. \A k \in 0 .. 7 : D(k).id # r.id
        BY <1>4, <3>2, <3>4
      <4>2. {e \in F : e.id = r.id} = {e \in E : e.id = q.id}
        BY <1>5, <3>2, <4>1
      <4> QED
        BY <3>2, <3>4, <4>2
    <3> QED
      BY <3>3, <3>4
  <2>2. CASE \E k \in 0 .. 7 : r = N(k)
    <3>1. PICK k \in 0 .. 7 : r = N(k)
      BY <2>2
    <3>2. k = 1
      BY <1>4, <1>13, <3>1 DEF NewMode
    <3>3. r.id = next + 1 /\ r.val.kids = 2
      BY <1>4, <3>1, <3>2
    <3>4. \A e \in E : e.id # r.id
      BY <1>1, <3>3
    <3>5. {e \in F : e.id = r.id} = {NewDrec(next, j) : j \in {j \in 0 .. 7 : NewParent(next, j) = next + 1}}
      BY <1>12, <3>3, <3>4
    <3> QED
      BY <3>3, <3>5, NewChildren
  <2> QED
    BY <1>5, <2>1, <2>2
<1> QED
  BY <1>6, <1>8, <1>9, <1>10, <1>11, <1>13 DEF Paired, J, F, G, n

LEMMA GrownCounted ==
    ASSUME NEW A, IsFiniteSet(A), \A r, q \in A : Grown(r) = Grown(q) => r = q
    PROVE  LET G == {Grown(r) : r \in A} IN IsFiniteSet(G) /\ Cardinality(G) = Cardinality(A)
<1> DEFINE g == [r \in A |-> Grown(r)]
<1>1. {Grown(r) : r \in A} = {g[r] : r \in A} /\ \A r \in A : g[r] = Grown(r)
  OBVIOUS
<1> HIDE DEF g
<1>2. \A r, q \in A : g[r] = g[q] => r = q
  BY <1>1
<1> QED
  BY <1>1, <1>2, ImageCounted

LEMMA ModesGrow ==
    ASSUME NEW next \in Nat, NEW I, NEW E, Paired(I, E, next),
           \A r \in I : r = [f \in RecFields |-> r[f]],
           NEW J, J = {Grown(r) : r \in I} \cup NewInodes(next),
           NEW m, NEW n, n = Cardinality({k \in 0 .. 7 : NewMode(k) = m})
    PROVE  /\ Cardinality(OfMode(I, m)) \in Nat
           /\ Cardinality(OfMode(J, m)) = Cardinality(OfMode(I, m)) + n
<1> DEFINE K == {k \in 0 .. 7 : NewMode(k) = m}
           A == OfMode(I, m)
           G == {Grown(r) : r \in A}
           N == {NewInode(next, k) : k \in K}
<1>0. /\ IsFiniteSet(I) /\ \A r, q \in I : r.id = q.id => r = q
      /\ \A r \in I : r.id \in Nat /\ r.id < next /\ InodeFields(r) /\ r = [f \in RecFields |-> r[f]]
  BY DEF Paired
<1>1. \A r \in I : Grown(r).id = r.id /\ Grown(r).val.mode = r.val.mode
  BY <1>0, GrownFacts
<1>2. \A k \in 0 .. 7 : NewInode(next, k).id = next + k /\ NewInode(next, k).val.mode = NewMode(k)
  BY NewInodeFacts
<1>3. OfMode(J, m) = G \cup N
  <2>1. \A r : r \in OfMode(J, m) <=> r \in J /\ r.val.mode = m
    BY DEF OfMode
  <2>2. \A r : r \in J <=> (\E q \in I : r = Grown(q)) \/ (\E k \in 0 .. 7 : r = NewInode(next, k))
    BY DEF NewInodes
  <2>3. \A r : r \in G <=> \E q \in I : r = Grown(q) /\ q.val.mode = m
    BY DEF OfMode
  <2>4. \A r : r \in N <=> \E k \in 0 .. 7 : r = NewInode(next, k) /\ NewMode(k) = m
    OBVIOUS
  <2> HIDE DEF G, N
  <2>5. \A r : r \in OfMode(J, m) <=> r \in G \/ r \in N
    BY <1>1, <1>2, <2>1, <2>2, <2>3, <2>4
  <2> QED
    BY <2>5
<1>4. IsFiniteSet(A) /\ A \subseteq I
  BY <1>0, FS_Subset DEF OfMode
<1>5. IsFiniteSet(G) /\ Cardinality(G) = Cardinality(A)
  <2>1. \A r, q \in A : Grown(r) = Grown(q) => r = q
    BY <1>0, <1>1, <1>4
  <2> HIDE DEF A
  <2> QED
    BY <1>4, <2>1, GrownCounted
<1>6. IsFiniteSet(N) /\ Cardinality(N) = Cardinality(K)
  <2>1. K \in SUBSET (0 .. 7)
    OBVIOUS
  <2> HIDE DEF K
  <2> QED
    BY <2>1, SomeCounted
<1>7. IsFiniteSet(K)
  BY EightCounted, FS_Subset
<1>8. G \cap N = {}
  <2> SUFFICES ASSUME NEW r \in G, r \in N PROVE FALSE
    OBVIOUS
  <2>1. PICK q \in I : r = Grown(q)
    BY <1>4
  <2>2. PICK k \in 0 .. 7 : r = NewInode(next, k)
    OBVIOUS
  <2>3. q.id = next + k /\ q.id \in Nat /\ q.id < next
    BY <1>0, <1>1, <1>2, <2>1, <2>2
  <2> QED
    BY <2>3
<1> HIDE DEF K, A, G, N
<1>9. Cardinality(G \cup N) = Cardinality(G) + Cardinality(N)
  <2>1. Cardinality(G) \in Nat /\ Cardinality(N) \in Nat
    BY <1>5, <1>6, FS_CardinalityType
  <2>2. Cardinality(G \cap N) = 0
    BY <1>8, FS_EmptySet
  <2>3. Cardinality(G \cup N) = Cardinality(G) + Cardinality(N) - Cardinality(G \cap N)
    BY <1>5, <1>6, FS_Union
  <2> QED
    BY <2>1, <2>2, <2>3
<1>10. Cardinality(A) \in Nat /\ Cardinality(K) \in Nat
  BY <1>4, <1>7, FS_CardinalityType
<1> QED
  BY <1>3, <1>5, <1>6, <1>9, <1>10 DEF K, A

\* Different keys ascend once they are sorted.
Distinct(s) == \A i, j \in DOMAIN s : i # j => Before(s[i], s[j]) \/ Before(s[j], s[i])

LEMMA AscendingSorted ==
    ASSUME NEW s, Keyed(s), Distinct(s)
    PROVE  Ascending(Sorted(s))
<1> DEFINE n == Len(s)
<1>1. PICK p \in [1 .. n -> 1 .. n] :
        /\ \A t : SameKeys(s, t) => Sorted(t) = [i \in 1 .. n |-> t[p[i]]]
        /\ \A i, j \in 1 .. n : i < j =>
              \/ Before(s[p[i]], s[p[j]])
              \/ ~ Before(s[p[j]], s[p[i]]) /\ p[i] < p[j]
  BY SortedPermutes
<1>2. Sorted(s) = [i \in 1 .. n |-> s[p[i]]]
  BY <1>1 DEF SameKeys
<1>3. DOMAIN s = 1 .. n /\ n \in Nat
  BY KeyedLen
<1>4. ASSUME NEW i \in 1 .. n, NEW j \in 1 .. n, i < j
      PROVE  Before(s[p[i]], s[p[j]])
  <2>1. CASE ~ Before(s[p[j]], s[p[i]]) /\ p[i] < p[j]
    <3>1. p[i] # p[j] /\ p[i] \in DOMAIN s /\ p[j] \in DOMAIN s
      BY <1>3, <2>1
    <3> QED
      BY <2>1, <3>1 DEF Distinct
  <2> QED
    BY <1>1, <1>4, <2>1
<1> HIDE DEF n
<1>5. DOMAIN Sorted(s) = 1 .. n /\ \A i \in 1 .. n : Sorted(s)[i] = s[p[i]]
  BY <1>2
<1> QED
  BY <1>4, <1>5 DEF Ascending

LEMMA DistinctConcat ==
    ASSUME NEW s, NEW t, Keyed(s), Keyed(t), Distinct(s), Distinct(t),
           \A i \in DOMAIN s, j \in DOMAIN t : Before(s[i], t[j]) \/ Before(t[j], s[i])
    PROVE  Distinct(s \o t)
<1> DEFINE w == s \o t
           n == Len(s)
           m == Len(t)
<1>1. /\ n \in Nat /\ m \in Nat /\ DOMAIN s = 1 .. n /\ DOMAIN t = 1 .. m
      /\ DOMAIN w = 1 .. n + m
      /\ \A i \in 1 .. n + m : w[i] = IF i <= n THEN s[i] ELSE t[i - n]
  BY KeyedLen, KeyedParts
<1> HIDE DEF w, n, m
<1>2. ASSUME NEW i \in 1 .. n + m
      PROVE  \/ i \in DOMAIN s /\ w[i] = s[i]
             \/ i - n \in DOMAIN t /\ w[i] = t[i - n]
  BY <1>1
<1>3. ASSUME NEW i \in 1 .. n + m, NEW j \in 1 .. n + m, i # j
      PROVE  Before(w[i], w[j]) \/ Before(w[j], w[i])
  <2>1. CASE i \in DOMAIN s /\ w[i] = s[i] /\ j \in DOMAIN s /\ w[j] = s[j]
    BY <1>3, <2>1 DEF Distinct
  <2>2. CASE i - n \in DOMAIN t /\ w[i] = t[i - n] /\ j - n \in DOMAIN t /\ w[j] = t[j - n]
    <3>1. i - n # j - n
      BY <1>1, <1>3
    <3> QED
      BY <2>2, <3>1 DEF Distinct
  <2>3. CASE i \in DOMAIN s /\ w[i] = s[i] /\ j - n \in DOMAIN t /\ w[j] = t[j - n]
    BY <2>3
  <2>4. CASE i - n \in DOMAIN t /\ w[i] = t[i - n] /\ j \in DOMAIN s /\ w[j] = s[j]
    BY <2>4
  <2> QED
    BY <1>2, <2>1, <2>2, <2>3, <2>4
<1> QED
  BY <1>1, <1>3 DEF Distinct, w

\* Of two records one comes first, or they have the same key.
LEMMA OneBefore ==
    ASSUME NEW a, NEW b, KeyedRec(a), KeyedRec(b)
    PROVE  \/ Before(a, b) \/ Before(b, a)
           \/ a.id = b.id /\ a.type = b.type /\ a.number = b.number /\ a.name = b.name
BY DEF KeyedRec, Before, PrefixBefore

LEMMA NewRecordsDistinct ==
    ASSUME NEW next \in Nat, NEW b
    PROVE  Distinct(NewRecords(next, b))
<1> DEFINE s == NewRecords(next, b)
<1>1. Keyed(s) /\ \A i, j \in DOMAIN s : Code(next, s[i]) = Code(next, s[j]) => i = j
  BY NewRecordsPart DEF Part
<1> HIDE DEF s
<1>2. ASSUME NEW i \in DOMAIN s, NEW j \in DOMAIN s, i # j
      PROVE  Before(s[i], s[j]) \/ Before(s[j], s[i])
  <2>1. KeyedRec(s[i]) /\ KeyedRec(s[j])
    BY <1>1 DEF Keyed, KeyedRec
  <2>2. CASE s[i].id = s[j].id /\ s[i].type = s[j].type /\ s[i].number = s[j].number /\ s[i].name = s[j].name
    <3>1. Code(next, s[i]) = Code(next, s[j])
      BY <2>2 DEF Code
    <3> QED
      BY <1>1, <1>2, <3>1
  <2> QED
    BY <2>1, <2>2, OneBefore
<1> QED
  BY <1>2 DEF Distinct, s

\* The injected tree ascends if its ids are below the next one and its root
\* directory is empty.
LEMMA InjectedAscends ==
    ASSUME NEW next \in Nat, NEW b, NEW s, Keyed(s), Ascending(s), \A i \in DOMAIN s : s[i].id < next,
           \A e \in OfType(s, DirRec) : e.id # RootDir
    PROVE  Ascending(Injected(s, next, b))
<1> DEFINE w == WithChildren(s)
           t == NewRecords(next, b)
<1>1. Keyed(w) /\ Shaped(s, w)
  BY GrownRecords
<1>2. Keyed(t) /\ Distinct(t) /\ \A j \in DOMAIN t : NewKey(next, t[j])
  BY NewRecordsPart, NewRecordsDistinct DEF Part
<1> HIDE DEF w, t
<1>3. \A i \in DOMAIN w : i \in DOMAIN s /\ w[i].id = s[i].id /\ w[i].type = s[i].type
                          /\ w[i].number = s[i].number /\ w[i].name = s[i].name
  BY <1>1 DEF Shaped, SameKeys
<1>4. Distinct(w)
  <2> SUFFICES ASSUME NEW i \in DOMAIN w, NEW j \in DOMAIN w, i # j
               PROVE  Before(w[i], w[j]) \/ Before(w[j], w[i])
    BY DEF Distinct
  <2>1. i < j \/ j < i
    BY <1>1, KeyedLen
  <2>2. Before(s[i], s[j]) \/ Before(s[j], s[i])
    BY <1>3, <2>1 DEF Ascending
  <2> QED
    BY <1>3, <2>2 DEF Before, PrefixBefore
<1>5. ASSUME NEW i \in DOMAIN w, NEW j \in DOMAIN t
      PROVE  Before(w[i], t[j]) \/ Before(t[j], w[i])
  <2>1. KeyedRec(w[i]) /\ KeyedRec(t[j]) /\ NewKey(next, t[j])
    BY <1>1, <1>2 DEF Keyed, KeyedRec
  <2>2. w[i].id < next /\ w[i].id \in Nat
    BY <1>3, <2>1 DEF KeyedRec
  <2>3. ASSUME w[i].id = t[j].id, w[i].type = t[j].type PROVE FALSE
    <3>1. t[j].id \notin next .. next + 8
      BY <2>2, <2>3
    <3>2. t[j].type = DirRec /\ t[j].id = RootDir
      BY <2>1, <3>1 DEF NewKey
    <3>3. s[i] \in OfType(s, DirRec) /\ s[i].id = RootDir
      BY <1>3, <2>3, <3>2 DEF OfType
    <3> QED
      BY <3>3
  <2> QED
    BY <2>1, <2>3, OneBefore
<1>6. Distinct(w \o t) /\ Keyed(w \o t)
  BY <1>1, <1>2, <1>4, <1>5, DistinctConcat, KeyedConcat
<1> QED
  BY <1>6, AscendingSorted DEF Injected, w, t

\* Sorting and injecting keep records alike.
LEMMA AlikeSorted ==
    ASSUME NEW s, NEW t, Alike(s, t)
    PROVE  Alike(Sorted(s), Sorted(t)) /\ Len(Sorted(s)) = Len(Sorted(t))
<1> DEFINE D == 1 .. Len(s)
           u == Sorted(s)
           v == Sorted(t)
<1>1. /\ Len(s) \in Nat /\ DOMAIN s = D /\ SameKeys(s, s) /\ SameKeys(s, t)
      /\ Keyed(s) /\ Keyed(t) /\ Shaped(s, t)
  BY KeyedLen DEF SameKeys, Shaped, Alike
<1>2. PICK p \in [D -> D] : \A w : SameKeys(s, w) => Sorted(w) = [i \in D |-> w[p[i]]]
  <2>1. Keyed(s)
    BY <1>1
  <2> QED
    BY <2>1, SortedPermutes
<1>3. u = [i \in D |-> s[p[i]]] /\ v = [i \in D |-> t[p[i]]]
  BY <1>1, <1>2
<1>4. Keyed(u) /\ Keyed(v)
  BY <1>1, KeyedSorted
<1> HIDE DEF u, v
<1>5. DOMAIN u = D /\ DOMAIN v = D /\ Len(u) = Len(s) /\ Len(v) = Len(s)
  BY <1>1, <1>3
<1>6. \A i \in D : u[i] = s[p[i]] /\ v[i] = t[p[i]] /\ p[i] \in DOMAIN s
  BY <1>1, <1>3
<1>7. Shaped(u, v)
  BY <1>1, <1>5, <1>6 DEF Shaped, SameKeys
<1> QED
  BY <1>4, <1>5, <1>7 DEF Alike, u, v

LEMMA AlikeChildren ==
    ASSUME NEW s, NEW t, Alike(s, t)
    PROVE  Alike(WithChildren(s), WithChildren(t))
<1> DEFINE u == WithChildren(s)
           v == WithChildren(t)
<1>1. Keyed(u) /\ Keyed(v) /\ Shaped(s, u) /\ Shaped(t, v) /\ Shaped(s, t)
  BY GrownRecords DEF Alike
<1> HIDE DEF u, v
<1>2. Shaped(u, v)
  BY <1>1 DEF Shaped, SameKeys
<1> QED
  BY <1>1, <1>2 DEF Alike, u, v

LEMMA InjectedAlike ==
    ASSUME NEW s, NEW t, Alike(s, t), NEW next \in Nat, NEW b, NEW c
    PROVE  /\ Alike(Injected(s, next, b), Injected(t, next, c))
           /\ Len(Injected(s, next, b)) = Len(Injected(t, next, c))
           /\ \A toc : Fits(toc, Injected(s, next, b)) => Fits(toc, Injected(t, next, c))
<1> DEFINE u == WithChildren(s) \o NewRecords(next, b)
           v == WithChildren(t) \o NewRecords(next, c)
<1>1. Alike(u, v)
  BY AlikeChildren, NewRecordsAlike, AlikeConcat
<1> HIDE DEF u, v
<1>2. \A toc : Fits(toc, Sorted(u)) => Fits(toc, Sorted(v))
  BY <1>1, FitsSorted DEF Alike
<1>3. Alike(Sorted(u), Sorted(v)) /\ Len(Sorted(u)) = Len(Sorted(v))
  BY <1>1, AlikeSorted
<1> QED
  BY <1>2, <1>3 DEF Injected, u, v

\* A tree that takes the records of an injection takes no second one's.
LEMMA HoldsNoSecond ==
    ASSUME NEW d, Keyed(ReadNode(d.tree)), d.next \in Nat, HoldsOne(d), NEW b, NEW recs,
           recs = Injected(ReadNode(d.tree), d.next, b), Fits(d.tree.toc, recs)
    PROVE  /\ \A e \in OfType(ReadNode(d.tree), DirRec) : e.id # RootDir
           /\ ~ Fits(TableLen(d.tree.toc, Len(recs)),
                     Injected(recs, NextAfter(d.next), <<0, 0, 0, 0, 0, 0>>))
<1> DEFINE z == <<0, 0, 0, 0, 0, 0>>
           s == ReadNode(d.tree)
           base == Injected(s, d.next, z)
           toc == TableLen(d.tree.toc, Len(recs))
           n == NextAfter(d.next)
<1>1. Fits(d.tree.toc, base) => /\ \A e \in OfType(s, DirRec) : e.id # RootDir
                                /\ ~ Fits(TableLen(d.tree.toc, Len(base)), Injected(base, n, z))
  BY DEF HoldsOne
<1>2. Alike(s, s) /\ n \in Nat
  BY AlikeSelf DEF NextAfter, Streams
<1> HIDE DEF z, s, n
<1>3. recs = Injected(s, d.next, b)
  BY DEF s
<1>4. Alike(recs, base) /\ Len(recs) = Len(base) /\ Fits(d.tree.toc, base)
  BY <1>2, <1>3, InjectedAlike
<1> HIDE DEF base
<1>5. Fits(toc, Injected(recs, n, z)) => Fits(toc, Injected(base, n, z))
  BY <1>2, <1>4, InjectedAlike
<1> QED
  BY <1>1, <1>4, <1>5 DEF z, s, n

----------------------------------------------------------------------------
\* The references to blocks: their keys are blocks.
OnlyBlocks(s) == \A i \in DOMAIN s : s[i].type = PhysExt /\ s[i].number = 0 /\ s[i].name = 0

LEMMA NewReferenceKeys ==
    ASSUME NEW next, NEW b
    PROVE  LET s == NewReferences(next, b)
           IN  DOMAIN s = 1 .. 6 /\ OnlyBlocks(s) /\ \A i \in 1 .. 6 : s[i].id = b[i]
<1> DEFINE R(i) == BuildPhysExt(b[i], Wanted[i], Owner(next)[i])
           s == NewReferences(next, b)
<1>1. s = <<R(1), R(2), R(3), R(4), R(5), R(6)>>
  BY WantedAt, OwnerAt DEF NewReferences
<1>2. \A i : R(i).id = b[i] /\ R(i).type = PhysExt /\ R(i).number = 0 /\ R(i).name = 0
  BY DEF BuildPhysExt, Rec
<1> HIDE DEF R, s
<1>3. DOMAIN s = 1 .. 6 /\ s[1] = R(1) /\ s[2] = R(2) /\ s[3] = R(3) /\ s[4] = R(4)
      /\ s[5] = R(5) /\ s[6] = R(6)
  BY <1>1
<1>4. \A i \in 1 .. 6 : s[i] = R(i)
  BY <1>3, Six
<1> QED
  BY <1>2, <1>3, <1>4 DEF OnlyBlocks, s

LEMMA OnlyBlocksSorted ==
    ASSUME NEW s, Keyed(s), NEW t, Keyed(t), OnlyBlocks(s), OnlyBlocks(t)
    PROVE  OnlyBlocks(s \o t) /\ OnlyBlocks(Sorted(s \o t))
<1> DEFINE w == s \o t
<1>1. /\ DOMAIN s = 1 .. Len(s) /\ DOMAIN t = 1 .. Len(t) /\ Len(s) \in Nat /\ Len(t) \in Nat
      /\ DOMAIN w = 1 .. Len(s) + Len(t) /\ Keyed(w)
      /\ \A i \in 1 .. Len(s) + Len(t) : w[i] = IF i <= Len(s) THEN s[i] ELSE t[i - Len(s)]
  BY KeyedLen, KeyedParts, KeyedConcat
<1> HIDE DEF w
<1>2. ASSUME NEW i \in DOMAIN w
      PROVE  \/ i \in DOMAIN s /\ w[i] = s[i]
             \/ i - Len(s) \in DOMAIN t /\ w[i] = t[i - Len(s)]
  BY <1>1
<1>3. OnlyBlocks(w)
  BY <1>2 DEF OnlyBlocks
<1>4. PICK p \in [1 .. Len(w) -> 1 .. Len(w)] : Sorted(w) = [i \in 1 .. Len(w) |-> w[p[i]]]
  BY <1>1, SortedPlaces
<1>5. DOMAIN w = 1 .. Len(w)
  BY <1>1, KeyedLen
<1>6. \A i \in DOMAIN Sorted(w) : Sorted(w)[i] = w[p[i]] /\ p[i] \in DOMAIN w
  BY <1>4, <1>5
<1>7. OnlyBlocks(Sorted(w))
  BY <1>3, <1>6 DEF OnlyBlocks
<1> QED
  BY <1>3, <1>7 DEF w

\* The new references are to blocks that no extent has, and ascend with the
\* others.
LEMMA ReferencesAscend ==
    ASSUME IInv, SpaceInv, pc # "idle", Len(blk) = 6, Regular(disk), Ascending(ReadNode(disk.refs))
    PROVE  LET recs == Sorted(ReadNode(disk.refs) \o NewReferences(disk.next, blk))
           IN  Ascending(recs) /\ OnlyBlocks(recs) /\ Keyed(recs)
<1> DEFINE s == ReadNode(disk.refs)
           t == NewReferences(disk.next, blk)
           extents == OfType(ReadNode(disk.tree), FileExtent)
<1>1. /\ disk.kind = "container" /\ Keyed(s) /\ disk.next \in Nat /\ Accounted(disk)
  BY DEF SpaceInv, Sound, Spending
<1>2. \A i \in 1 .. 6 : blk[i] \in Nat
  BY FirstBlocks
<1>3. Keyed(t) /\ DOMAIN t = 1 .. 6 /\ OnlyBlocks(t) /\ \A i \in 1 .. 6 : t[i].id = blk[i]
  BY <1>1, <1>2, NewReferencesFacts, NewReferenceKeys
<1>4. /\ OnlyBlocks(s) /\ \A e \in extents : e.val.phys \in BlocksOf(e)
  BY DEF Regular, OnlyBlocks
<1>5. /\ {<<r.id, r.val.blocks, r.val.owner>> : r \in OfType(s, PhysExt)}
           = {<<e.val.phys, e.val.len \div BlockBytes, e.id>> : e \in extents}
      /\ \A e \in extents : BlocksOf(e) \subseteq disk.used
  BY <1>1 DEF Accounted
<1>6. \A i \in 1 .. 6 : blk[i] \in Blk(i) /\ blk[i] \notin disk.used
  <2> SUFFICES ASSUME NEW i \in 1 .. 6 PROVE blk[i] \in Blk(i) /\ blk[i] \notin disk.used
    OBVIOUS
  <2>1. Wanted[i] \in Nat \ {0}
    BY WantedPositive
  <2>2. blk[i] \in Blk(i)
    BY <1>2, <2>1 DEF Blk, Marked
  <2>3. Blk(i) \subseteq AllBlocks \ disk.used
    BY DEF IInv, NothingShared
  <2> QED
    BY <2>2, <2>3
<1>7. \A i, j \in 1 .. 6 : i # j => blk[i] # blk[j]
  <2> SUFFICES ASSUME NEW i \in 1 .. 6, NEW j \in 1 .. 6, i # j PROVE blk[i] # blk[j]
    OBVIOUS
  <2>1. \A k, m \in 1 .. 6 : k < m => Blk(k) \cap Blk(m) = {}
    BY DEF IInv, NothingShared
  <2>2. i < j \/ j < i
    OBVIOUS
  <2>3. Blk(i) \cap Blk(j) = {}
    BY <2>1, <2>2
  <2> QED
    BY <1>6, <2>3
<1>8. ASSUME NEW i \in DOMAIN s
      PROVE  s[i].id \in disk.used
  <2>1. s[i] \in OfType(s, PhysExt)
    BY <1>4 DEF OfType, OnlyBlocks
  <2>2. PICK e \in extents : <<s[i].id, s[i].val.blocks, s[i].val.owner>>
                               = <<e.val.phys, e.val.len \div BlockBytes, e.id>>
    BY <1>5, <2>1
  <2>3. s[i].id = e.val.phys
    BY <2>2
  <2> QED
    BY <1>4, <1>5, <2>3
<1> HIDE DEF s, t, extents
<1>9. Distinct(s)
  <2> SUFFICES ASSUME NEW i \in DOMAIN s, NEW j \in DOMAIN s, i # j
               PROVE  Before(s[i], s[j]) \/ Before(s[j], s[i])
    BY DEF Distinct
  <2>1. i < j \/ j < i
    BY <1>1, KeyedLen
  <2> QED
    BY <2>1 DEF Ascending, s
<1>10. ASSUME NEW a, NEW b, KeyedRec(a), KeyedRec(b), a.id # b.id
       PROVE  Before(a, b) \/ Before(b, a)
  BY <1>10, OneBefore
<1>11. (\A i \in DOMAIN s : KeyedRec(s[i])) /\ (\A i \in DOMAIN t : KeyedRec(t[i]))
  BY <1>1, <1>3 DEF Keyed, KeyedRec
<1>12. Distinct(t)
  BY <1>3, <1>7, <1>10, <1>11 DEF Distinct
<1>13. \A i \in DOMAIN s, j \in DOMAIN t : Before(s[i], t[j]) \/ Before(t[j], s[i])
  BY <1>3, <1>6, <1>8, <1>10, <1>11
<1>14. Distinct(s \o t) /\ Keyed(s \o t)
  BY <1>1, <1>3, <1>9, <1>12, <1>13, DistinctConcat, KeyedConcat
<1>15. OnlyBlocks(Sorted(s \o t))
  BY <1>1, <1>3, <1>4, OnlyBlocksSorted
<1> QED
  BY <1>14, <1>15, AscendingSorted, KeyedSorted DEF s, t

----------------------------------------------------------------------------
\* The size that an inode's value shows (Inode::parse).
Shown(v) == IF v.compressed /\ v.stream = 0 /\ v.hasSize THEN v.uncompressed ELSE v.stream

NewSize(k) ==
    CASE k = 0 -> 28 [] k = 1 -> 0 [] k = 2 -> 1000 [] k = 3 -> 14336
      [] k = 4 -> 0 [] k = 5 -> 39 [] k = 6 -> 3000 [] k = 7 -> 100000

SizedVal(v) == v.stream \in Nat /\ v.uncompressed \in Nat

LEMMA ValSizes ==
    ASSUME NEW n \in Nat
    PROVE  /\ SizedVal(Plain(n)) /\ Shown(Plain(n)) = n
           /\ SizedVal(Compressed(n)) /\ Shown(Compressed(n)) = n
           /\ SizedVal(Folder) /\ Shown(Folder) = 0 /\ SizedVal(Symlink) /\ Shown(Symlink) = 0
<1>1. /\ Plain(n).stream = n /\ Plain(n).uncompressed = 0 /\ Plain(n).compressed = FALSE
      /\ Compressed(n).stream = 0 /\ Compressed(n).uncompressed = n
      /\ Compressed(n).compressed = TRUE /\ Compressed(n).hasSize = TRUE
      /\ Folder.stream = 0 /\ Folder.uncompressed = 0 /\ Folder.compressed = FALSE
      /\ Symlink.stream = 0 /\ Symlink.uncompressed = 0 /\ Symlink.compressed = FALSE
  BY DEF Plain, Compressed, Folder, Symlink, Zeroed
<1> QED
  BY <1>1 DEF SizedVal, Shown

LEMMA NewSizes ==
    ASSUME NEW k \in 0 .. 7
    PROVE  SizedVal(NewVal(k)) /\ Shown(NewVal(k)) = NewSize(k)
<1> DEFINE Good(v, n) == SizedVal(v) /\ Shown(v) = n
<1>1. /\ Good(Plain(28), 28) /\ Good(Plain(1000), 1000) /\ Good(Plain(14336), 14336)
      /\ Good(Compressed(39), 39) /\ Good(Compressed(3000), 3000) /\ Good(Compressed(100000), 100000)
      /\ Good(Folder, 0) /\ Good(Symlink, 0)
  <2>1. \A n \in Nat : Good(Plain(n), n) /\ Good(Compressed(n), n)
    BY ValSizes
  <2>2. Good(Folder, 0) /\ Good(Symlink, 0)
    BY ValSizes
  <2>3. /\ 28 \in Nat /\ 1000 \in Nat /\ 14336 \in Nat
        /\ 39 \in Nat /\ 3000 \in Nat /\ 100000 \in Nat
    OBVIOUS
  <2> HIDE DEF Good
  <2>4. Good(Plain(28), 28) /\ Good(Plain(1000), 1000) /\ Good(Plain(14336), 14336)
    BY <2>1, <2>3
  <2>5. Good(Compressed(39), 39) /\ Good(Compressed(3000), 3000) /\ Good(Compressed(100000), 100000)
    BY <2>1, <2>3
  <2> QED
    BY <2>2, <2>4, <2>5
<1> HIDE DEF Good
<1>2. /\ NewSize(0) = 28 /\ NewSize(1) = 0 /\ NewSize(2) = 1000 /\ NewSize(3) = 14336
      /\ NewSize(4) = 0 /\ NewSize(5) = 39 /\ NewSize(6) = 3000 /\ NewSize(7) = 100000
  BY DEF NewSize
<1>3. /\ Good(NewVal(0), NewSize(0)) /\ Good(NewVal(1), NewSize(1)) /\ Good(NewVal(2), NewSize(2))
      /\ Good(NewVal(3), NewSize(3)) /\ Good(NewVal(4), NewSize(4)) /\ Good(NewVal(5), NewSize(5))
      /\ Good(NewVal(6), NewSize(6)) /\ Good(NewVal(7), NewSize(7))
  <2>1. Good(NewVal(0), NewSize(0)) /\ Good(NewVal(1), NewSize(1)) /\ Good(NewVal(2), NewSize(2))
    BY <1>1, <1>2, NewVals
  <2>2. Good(NewVal(3), NewSize(3)) /\ Good(NewVal(4), NewSize(4)) /\ Good(NewVal(5), NewSize(5))
    BY <1>1, <1>2, NewVals
  <2>3. Good(NewVal(6), NewSize(6)) /\ Good(NewVal(7), NewSize(7))
    BY <1>1, <1>2, NewVals
  <2> QED
    BY <2>1, <2>2, <2>3
<1>4. k \in {0, 1, 2, 3, 4, 5, 6, 7}
  BY Eight
<1> HIDE DEF Good
<1>5. Good(NewVal(k), NewSize(k))
  BY <1>3, <1>4, Zenon
<1> QED
  BY <1>5 DEF Good

\* What the builder and WithChildren leave alone.
LEMMA BuiltSizes ==
    ASSUME NEW id, NEW parent, NEW name, NEW val, val = [f \in DOMAIN Zeroed |-> val[f]], SizedVal(val)
    PROVE  LET r == BuildInode(id, parent, name, val)
           IN  SizedVal(r.val) /\ Shown(r.val) = Shown(val)
<1>1. DOMAIN Zeroed = {"parent", "private", "mode", "kids", "stream", "compressed", "hasSize", "uncompressed"}
  BY DEF Zeroed
<1> DEFINE v == [val EXCEPT !.parent = parent, !.private = id]
<1>2. /\ v.stream = val.stream /\ v.uncompressed = val.uncompressed
      /\ v.compressed = val.compressed /\ v.hasSize = val.hasSize
  BY <1>1
<1>3. BuildInode(id, parent, name, val).val = v
  BY DEF BuildInode, Rec
<1> HIDE DEF v
<1> QED
  BY <1>2, <1>3 DEF SizedVal, Shown

LEMMA GrownSizes ==
    ASSUME NEW r, InodeFields(r), r = [f \in RecFields |-> r[f]], SizedVal(r.val)
    PROVE  SizedVal(Grown(r).val) /\ Shown(Grown(r).val) = Shown(r.val)
<1>1. DOMAIN Zeroed = {"parent", "private", "mode", "kids", "stream", "compressed", "hasSize", "uncompressed"}
  BY DEF Zeroed
<1>2. CASE r.id # RootDir
  BY <1>2 DEF Grown
<1>3. CASE r.id = RootDir
  <2> DEFINE v == [r.val EXCEPT !.kids = @ + 6]
  <2>1. Grown(r) = [r EXCEPT !.val = v]
    BY <1>3 DEF Grown
  <2>2. /\ v.stream = r.val.stream /\ v.uncompressed = r.val.uncompressed
        /\ v.compressed = r.val.compressed /\ v.hasSize = r.val.hasSize
    BY <1>1 DEF InodeFields
  <2> HIDE DEF v
  <2>3. Grown(r).val = v
    BY <2>1 DEF RecFields
  <2> QED
    BY <2>2, <2>3 DEF SizedVal, Shown
<1> QED
  BY <1>2, <1>3

----------------------------------------------------------------------------
Kept(d) == d.kind = "container" => WellKept(d) /\ Regular(d) /\ HoldsOne(d) /\ Sized(d)

\* The trees of a kept image are paired, and the other way round.
LEMMA KeptPaired ==
    ASSUME NEW d, WellKept(d), Regular(d), Keyed(ReadNode(d.tree))
    PROVE  LET I == OfType(ReadNode(d.tree), InodeRec)
               E == OfType(ReadNode(d.tree), DirRec)
           IN  Paired(I, E, d.next) /\ \A r \in I : r = [f \in RecFields |-> r[f]]
<1> DEFINE recs == ReadNode(d.tree)
           I == OfType(recs, InodeRec)
           E == OfType(recs, DirRec)
<1>1. /\ Ascending(recs) /\ \A i \in DOMAIN recs : recs[i].id < d.next
      /\ \A e \in E : \E r \in I :
            r.id = e.val.file /\ r.val.parent = e.id /\ e.val.dtype = Dtype(r.val.mode)
      /\ \A e \in E : e.name \in DOMAIN Hash /\ e.number = Hash[e.name]
      /\ \A r \in I : Cardinality({e \in E : e.val.file = r.id}) = 1
      /\ \A r \in {r \in I : r.val.mode = "dir"} : r.val.kids = Cardinality({e \in E : e.id = r.id})
  BY DEF WellKept
<1>2. /\ Keyed(recs) /\ IsFiniteSet(I) /\ IsFiniteSet(E)
      /\ \A r \in I : InodeFields(r)
  BY OfTypeFinite DEF Regular, InodeFields
<1>3. \A r \in I : \E i \in DOMAIN recs : r = recs[i] /\ r.type = InodeRec
  BY DEF OfType
<1>4. \A e \in E : \E i \in DOMAIN recs : e = recs[i]
  BY DEF OfType
<1> HIDE DEF recs, I, E
<1>5. DOMAIN recs = 1 .. Len(recs) /\ Len(recs) \in Nat /\ \A i \in DOMAIN recs : KeyedRec(recs[i])
  BY <1>2, KeyedLen DEF Keyed, KeyedRec
<1>6. \A r \in I : r.id \in Nat /\ r.id < d.next /\ r = [f \in RecFields |-> r[f]]
  BY <1>1, <1>3, <1>5 DEF KeyedRec
<1>7. \A e \in E : e.id \in Nat /\ e.id < d.next
  BY <1>1, <1>4, <1>5 DEF KeyedRec
<1>8. ASSUME NEW r \in I, NEW q \in I, r.id = q.id
      PROVE  r = q
  <2>1. PICK i \in DOMAIN recs : r = recs[i] /\ r.type = InodeRec
    BY <1>3
  <2>2. PICK j \in DOMAIN recs : q = recs[j] /\ q.type = InodeRec
    BY <1>3
  <2>3. ~ Before(r, q) /\ ~ Before(q, r)
    <3>1. r.number = 0 /\ q.number = 0 /\ r.name = 0 /\ q.name = 0 /\ r.id \in Nat
      BY <1>2, <1>6 DEF InodeFields
    <3> QED
      BY <1>8, <2>1, <2>2, <3>1 DEF Before, PrefixBefore, InodeRec
  <2>4. ~ (i < j) /\ ~ (j < i)
    BY <1>1, <2>1, <2>2, <2>3 DEF Ascending
  <2>5. i = j
    BY <1>5, <2>4
  <2> QED
    BY <2>1, <2>2, <2>5
<1>9. Paired(I, E, d.next)
  BY <1>1, <1>2, <1>6, <1>7, <1>8 DEF Paired
<1> QED
  BY <1>6, <1>9 DEF I, E, recs

\* Sorting keeps what holds of every element.
LEMMA SortedElements ==
    ASSUME NEW s, Keyed(s), NEW i \in DOMAIN Sorted(s)
    PROVE  \E j \in DOMAIN s : Sorted(s)[i] = s[j]
<1>1. PICK p \in [1 .. Len(s) -> 1 .. Len(s)] : Sorted(s) = [k \in 1 .. Len(s) |-> s[p[k]]]
  BY SortedPlaces
<1>2. DOMAIN s = 1 .. Len(s)
  BY KeyedLen
<1> QED
  BY <1>1, <1>2

\* The attributes that an injection adds.
Sizes(next) == BuildXattr(next + 5, DecmpfsAttr, 56, [algo |-> 9, size |-> 39])
PackedAttr(next) == BuildXattr(next + 6, DecmpfsAttr, 16 + ZattrBytes, [algo |-> 3, size |-> 3000])
ForkAttr(next) == BuildXattr(next + 7, DecmpfsAttr, 16, [algo |-> 4, size |-> 100000])
RsrcFork(next) == BuildXattr(next + 7, RsrcAttr, 48, [stream |-> Streams(next), size |-> RsrcBytes])
Target(next) == BuildXattr(next + 4, SymlinkAttr, 10, [target |-> Hello])
NewXattrs(next) == {Sizes(next), PackedAttr(next), ForkAttr(next), RsrcFork(next), Target(next)}

NoXattrs(s) == Keyed(s) /\ OfType(s, XattrRec) = {}

LEMMA NoXattrsConcat ==
    ASSUME NEW s, NEW t, NoXattrs(s), NoXattrs(t)
    PROVE  NoXattrs(s \o t)
BY KeyedConcat DEF NoXattrs

LEMMA AttrTypes ==
    /\ \A id, parent, name, val : BuildInode(id, parent, name, val).type # XattrRec
    /\ \A parent, name, file, dtype : BuildDrec(parent, name, file, dtype).type # XattrRec
    /\ \A id : BuildDstreamId(id).type # XattrRec
    /\ \A id, logical, n, phys : BuildFileExtent(id, logical, n, phys).type # XattrRec
    /\ \A id, name, bytes, val : BuildXattr(id, name, bytes, val).type = XattrRec
BY DEF Rec, BuildInode, BuildDrec, BuildDstreamId, BuildFileExtent, BuildXattr,
   InodeRec, DirRec, DstreamId, FileExtent, XattrRec

LEMMA PairNoXattrs ==
    ASSUME NEW id \in Nat, NEW parent \in Nat, NEW name \in 1 .. 10, NEW val, NEW dtype
    PROVE  NoXattrs(<<BuildInode(id, parent, name, val), BuildDrec(parent, name, id, dtype)>>)
<1>1. /\ KeyedRec(BuildInode(id, parent, name, val)) /\ KeyedRec(BuildDrec(parent, name, id, dtype))
      /\ BuildInode(id, parent, name, val).type # XattrRec
      /\ BuildDrec(parent, name, id, dtype).type # XattrRec
  BY BuiltRecords, AttrTypes
<1> QED
  BY <1>1, KeyedTwo DEF NoXattrs

LEMMA FileNoXattrs ==
    ASSUME NEW id \in Nat, NEW parent \in Nat, NEW name \in 1 .. 10, NEW val
    PROVE  NoXattrs(File(id, parent, name, val))
BY PairNoXattrs DEF File

LEMMA NewAttributes ==
    ASSUME NEW next \in Nat, NEW b
    PROVE  OfType(NewRecords(next, b), XattrRec) = NewXattrs(next)
<1> DEFINE e1 == BuildFileExtent(next, 0, 1, b[1])
           e2 == BuildFileExtent(next + 2, 0, 1, b[2])
           e3 == BuildFileExtent(next + 3, 0, 2, b[3])
           e4 == BuildFileExtent(next + 3, 2 * BlockBytes, 1, b[4])
           e5 == BuildFileExtent(next + 3, 3 * BlockBytes, 2, b[5])
           e6 == BuildFileExtent(Streams(next), 0, RsrcBlocks, b[6])
           d1 == BuildDstreamId(next)
           d2 == BuildDstreamId(next + 2)
           d3 == BuildDstreamId(next + 3)
           x1 == Sizes(next)
           x2 == PackedAttr(next)
           x3 == ForkAttr(next)
           x4 == RsrcFork(next)
           x5 == Target(next)
           link == BuildInode(next + 4, RootDir, Link, [Zeroed EXCEPT !.mode = "link"])
           entry == BuildDrec(RootDir, Link, next + 4, DtLnk)
           p1 == File(next, RootDir, Hello, Plain(28))
           p2 == <<d1, e1>>
           p3 == <<BuildInode(next + 1, RootDir, Docs, [Zeroed EXCEPT !.mode = "dir", !.kids = 2]),
                 BuildDrec(RootDir, Docs, next + 1, DtDir)>>
           p4 == File(next + 2, next + 1, Readme, Plain(1000))
           p5 == <<d2, e2>>
           p6 == File(next + 3, next + 1, BigBin, Plain(14336))
           p7 == <<d3, e3, e4, e5>>
           p8 == File(next + 5, RootDir, PlainTxt, Compressed(39))
           p9 == File(next + 6, RootDir, PackedTxt, Compressed(3000))
           p10 == File(next + 7, RootDir, PackedRsrc, Compressed(100000))
           p11 == <<x1, x2, x3, x4, e6>>
           p12 == <<link, entry, x5>>
<1>1. NewRecords(next, b) =
        p1 \o p2 \o p3 \o p4 \o p5 \o p6 \o p7 \o p8 \o p9 \o p10 \o p11 \o p12
  BY SMT DEF NewRecords, Sizes, PackedAttr, ForkAttr, RsrcFork, Target
<1>2. /\ next + 1 \in Nat /\ next + 2 \in Nat /\ next + 3 \in Nat /\ next + 4 \in Nat
      /\ next + 5 \in Nat /\ next + 6 \in Nat /\ next + 7 \in Nat
      /\ RootDir \in Nat /\ Streams(next) \in Nat
  BY DEF RootDir, Streams
<1>3. /\ Hello \in 1 .. 10 /\ Docs \in 1 .. 10 /\ Readme \in 1 .. 10 /\ BigBin \in 1 .. 10
      /\ PlainTxt \in 1 .. 10 /\ PackedTxt \in 1 .. 10 /\ PackedRsrc \in 1 .. 10 /\ Link \in 1 .. 10
      /\ DecmpfsAttr \in 1 .. 3 /\ RsrcAttr \in 1 .. 3 /\ SymlinkAttr \in 1 .. 3
  BY DEF Hello, Docs, Readme, BigBin, PlainTxt, PackedTxt, PackedRsrc, Link, DecmpfsAttr, RsrcAttr,
     SymlinkAttr
<1>4. \A e \in {e1, e2, e3, e4, e5, e6, d1, d2, d3, link, entry} : KeyedRec(e) /\ e.type # XattrRec
  <2>1. 0 \in Nat /\ 2 * BlockBytes \in Nat /\ 3 * BlockBytes \in Nat
    BY BlockBytesAssumption
  <2>2. /\ KeyedRec(e1) /\ KeyedRec(e2) /\ KeyedRec(e3) /\ KeyedRec(e4) /\ KeyedRec(e5) /\ KeyedRec(e6)
        /\ KeyedRec(d1) /\ KeyedRec(d2) /\ KeyedRec(d3) /\ KeyedRec(link) /\ KeyedRec(entry)
    BY <1>2, <1>3, <2>1, BuiltRecords, Zenon
  <2>3. /\ e1.type # XattrRec /\ e2.type # XattrRec /\ e3.type # XattrRec
        /\ e4.type # XattrRec /\ e5.type # XattrRec /\ e6.type # XattrRec
        /\ d1.type # XattrRec /\ d2.type # XattrRec /\ d3.type # XattrRec
        /\ link.type # XattrRec /\ entry.type # XattrRec
    BY AttrTypes, Zenon
  <2> HIDE DEF e1, e2, e3, e4, e5, e6, d1, d2, d3, link, entry
  <2> QED
    BY <2>2, <2>3
<1>5. \A e \in {x1, x2, x3, x4, x5} : KeyedRec(e) /\ e.type = XattrRec
  <2>1. /\ KeyedRec(x1) /\ KeyedRec(x2) /\ KeyedRec(x3) /\ KeyedRec(x4) /\ KeyedRec(x5)
    BY <1>2, <1>3, BuiltRecords DEF Sizes, PackedAttr, ForkAttr, RsrcFork, Target
  <2>2. /\ x1.type = XattrRec /\ x2.type = XattrRec /\ x3.type = XattrRec
        /\ x4.type = XattrRec /\ x5.type = XattrRec
    BY AttrTypes DEF Sizes, PackedAttr, ForkAttr, RsrcFork, Target
  <2> HIDE DEF x1, x2, x3, x4, x5
  <2> QED
    BY <2>1, <2>2
<1>6. NewXattrs(next) = {x1, x2, x3, x4, x5}
  BY Zenon DEF NewXattrs
<1>7. /\ NoXattrs(p1) /\ NoXattrs(p3) /\ NoXattrs(p4) /\ NoXattrs(p6)
      /\ NoXattrs(p8) /\ NoXattrs(p9) /\ NoXattrs(p10)
  <2>1. NoXattrs(p1)
    BY <1>2, <1>3, FileNoXattrs
  <2>2. NoXattrs(p3)
    BY <1>2, <1>3, PairNoXattrs
  <2>3. NoXattrs(p4)
    BY <1>2, <1>3, FileNoXattrs
  <2>4. NoXattrs(p6)
    BY <1>2, <1>3, FileNoXattrs
  <2>5. NoXattrs(p8)
    BY <1>2, <1>3, FileNoXattrs
  <2>6. NoXattrs(p9)
    BY <1>2, <1>3, FileNoXattrs
  <2>7. NoXattrs(p10)
    BY <1>2, <1>3, FileNoXattrs
  <2> QED
    BY <2>1, <2>2, <2>3, <2>4, <2>5, <2>6, <2>7
<1> HIDE DEF e1, e2, e3, e4, e5, e6, d1, d2, d3, link, entry, x1, x2, x3, x4, x5
<1>8. NoXattrs(p2) /\ NoXattrs(p5)
  BY <1>4, KeyedTwo DEF NoXattrs
<1>9. NoXattrs(p7)
  BY <1>4, KeyedFour DEF NoXattrs
<1>10. Keyed(p11) /\ OfType(p11, XattrRec) = {x1, x2, x3, x4}
  BY <1>4, <1>5, KeyedFive
<1>11. Keyed(p12) /\ OfType(p12, XattrRec) = {x5}
  BY <1>4, <1>5, KeyedThree
<1> HIDE DEF p1, p2, p3, p4, p5, p6, p7, p8, p9, p10, p11, p12
<1>12. NoXattrs(p1 \o p2 \o p3 \o p4 \o p5 \o p6 \o p7 \o p8 \o p9 \o p10)
  BY <1>7, <1>8, <1>9, NoXattrsConcat, Zenon
<1> DEFINE q == p1 \o p2 \o p3 \o p4 \o p5 \o p6 \o p7 \o p8 \o p9 \o p10
<1>13. NewRecords(next, b) = (q \o p11) \o p12
  BY <1>1
<1>14. Keyed(q) /\ OfType(q, XattrRec) = {}
  BY <1>12 DEF NoXattrs
<1> HIDE DEF q
<1>15. Keyed(q \o p11) /\ OfType(q \o p11, XattrRec) = {x1, x2, x3, x4}
  BY <1>10, <1>14, KeyedConcat
<1>16. OfType((q \o p11) \o p12, XattrRec) = {x1, x2, x3, x4} \cup {x5}
  BY <1>11, <1>15, KeyedConcat
<1> QED
  BY <1>6, <1>13, <1>16

\* The records of a tree after an injection.
LEMMA InjectedFacts ==
    ASSUME NEW next \in Nat, next > RootDir, NEW b, NEW s, Keyed(s), \A i \in DOMAIN s : s[i].id < next
    PROVE  LET recs == Injected(s, next, b)
           IN  /\ Keyed(recs)
               /\ OfType(recs, InodeRec) = {Grown(r) : r \in OfType(s, InodeRec)} \cup NewInodes(next)
               /\ OfType(recs, DirRec) = OfType(s, DirRec) \cup NewDrecs(next)
               /\ OfType(recs, FileExtent) = OfType(s, FileExtent) \cup NewExtents(next, b)
               /\ OfType(recs, XattrRec) = OfType(s, XattrRec) \cup NewXattrs(next)
               /\ \A i \in DOMAIN recs : recs[i].id < NextAfter(next)
<1> DEFINE w == WithChildren(s)
           t == NewRecords(next, b)
           u == w \o t
<1>1. /\ Keyed(w) /\ Shaped(s, w)
      /\ OfType(w, InodeRec) = {Grown(r) : r \in OfType(s, InodeRec)}
      /\ OfType(w, DirRec) = OfType(s, DirRec) /\ OfType(w, FileExtent) = OfType(s, FileExtent)
      /\ OfType(w, XattrRec) = OfType(s, XattrRec)
  BY GrownRecords DEF DirRec, InodeRec, FileExtent, XattrRec
<1>2. /\ Keyed(t) /\ OfType(t, InodeRec) = NewInodes(next) /\ OfType(t, DirRec) = NewDrecs(next)
      /\ \A j \in DOMAIN t : NewKey(next, t[j])
  BY NewRecordsPart DEF Part
<1>3. OfType(t, FileExtent) = NewExtents(next, b) /\ OfType(t, XattrRec) = NewXattrs(next)
  BY NewRecordsFacts, NewAttributes
<1> HIDE DEF w, t
<1>4. Keyed(u) /\ \A y : OfType(u, y) = OfType(w, y) \cup OfType(t, y)
  BY <1>1, <1>2, KeyedConcat
<1>5. \A i \in DOMAIN u : u[i].id < NextAfter(next)
  <2>1. /\ DOMAIN u = 1 .. Len(w) + Len(t) /\ DOMAIN w = 1 .. Len(w) /\ DOMAIN t = 1 .. Len(t)
        /\ Len(w) \in Nat /\ Len(t) \in Nat
        /\ \A i \in 1 .. Len(w) + Len(t) : u[i] = IF i <= Len(w) THEN w[i] ELSE t[i - Len(w)]
    BY <1>1, <1>2, KeyedLen, KeyedParts
  <2>2. NextAfter(next) = next + 9 /\ RootDir \in Nat
    BY DEF NextAfter, Streams, RootDir
  <2>3. ASSUME NEW i \in DOMAIN w
        PROVE  w[i].id < NextAfter(next)
    <3>1. w[i].id = s[i].id /\ i \in DOMAIN s
      BY <1>1 DEF Shaped, SameKeys
    <3>2. s[i].id \in Nat /\ s[i].id < next
      BY <3>1 DEF Keyed
    <3> QED
      BY <2>2, <3>1, <3>2
  <2>4. ASSUME NEW i \in DOMAIN t
        PROVE  t[i].id < NextAfter(next)
    <3>1. t[i].id \in next .. next + 8 \/ t[i].id = RootDir
      BY <1>2 DEF NewKey
    <3> QED
      BY <2>2, <3>1
  <2> HIDE DEF u
  <2>5. ASSUME NEW i \in DOMAIN u
        PROVE  (i \in DOMAIN w /\ u[i] = w[i]) \/ (i - Len(w) \in DOMAIN t /\ u[i] = t[i - Len(w)])
    BY <2>1
  <2> QED
    BY <2>3, <2>4, <2>5
<1> HIDE DEF u
<1>6. Keyed(Sorted(u)) /\ \A y : OfType(Sorted(u), y) = OfType(u, y)
  BY <1>4, KeyedSorted
<1>7. \A i \in DOMAIN Sorted(u) : Sorted(u)[i].id < NextAfter(next)
  BY <1>4, <1>5, SortedElements
<1>8. Injected(s, next, b) = Sorted(u)
  BY DEF Injected, u, w, t
<1> QED
  BY <1>1, <1>2, <1>3, <1>4, <1>6, <1>7, <1>8

----------------------------------------------------------------------------
\* The injector's copy is the image with the records of one injection in
\* its trees, and its objects have their checksums.
NewTree == Injected(ReadNode(disk.tree), disk.next, blk)
NewRefs == Sorted(ReadNode(disk.refs) \o NewReferences(disk.next, blk))

Building ==
    pc # "idle" =>
        /\ img.stale = {}
        /\ IF pc \in {"alloc", "tree"} THEN img.tree = disk.tree
           ELSE Fits(disk.tree.toc, NewTree) /\ img.tree = SerializeNode(disk.tree.toc, NewTree)
        /\ pc \in {"count", "write"} =>
              Fits(disk.refs.toc, NewRefs) /\ img.refs = SerializeNode(disk.refs.toc, NewRefs)
        /\ img.files = IF pc = "write" THEN disk.files + 6 ELSE disk.files
        /\ img.dirs = IF pc = "write" THEN disk.dirs + 1 ELSE disk.dirs
        /\ img.links = IF pc = "write" THEN disk.links + 1 ELSE disk.links

TreeInv == Kept(disk) /\ Building

\* What the steps of the proof need of the image on the disk.
LEMMA DiskFacts ==
    ASSUME IInv, SpaceInv, TreeInv, pc # "idle"
    PROVE  /\ disk.kind = "container" /\ WellKept(disk) /\ Regular(disk) /\ HoldsOne(disk)
           /\ Keyed(ReadNode(disk.tree)) /\ Keyed(ReadNode(disk.refs))
           /\ disk.tree.toc \in Nat /\ disk.refs.toc \in Nat
           /\ disk.next \in Nat /\ disk.next > RootDir
<1>1. disk.kind = "container"
  BY DEF SpaceInv, Spending
<1>2. Regular(disk)
  BY <1>1 DEF TreeInv, Kept
<1>3. disk.next > RootDir
  BY <1>2 DEF Regular
<1> QED
  BY <1>1, <1>2, <1>3 DEF SpaceInv, Sound, TreeInv, Kept

\* The tree of the image that is written.
LEMMA WrittenTree ==
    ASSUME IInv, SpaceInv, TreeInv, pc = "write"
    PROVE  LET recs == ReadNode(img.tree)
               I == OfType(recs, InodeRec)
               E == OfType(recs, DirRec)
               old == OfType(ReadNode(disk.tree), InodeRec)
               was == OfType(ReadNode(disk.tree), DirRec)
           IN  /\ recs = NewTree /\ Ascending(recs) /\ Keyed(recs)
               /\ I = {Grown(r) : r \in old} \cup NewInodes(disk.next)
               /\ E = was \cup NewDrecs(disk.next) /\ \A e \in was : e.id # RootDir
               /\ Paired(I, E, img.next)
               /\ OfType(recs, FileExtent)
                    = OfType(ReadNode(disk.tree), FileExtent) \cup NewExtents(disk.next, blk)
               /\ OfType(recs, XattrRec)
                    = OfType(ReadNode(disk.tree), XattrRec) \cup NewXattrs(disk.next)
               /\ \A i \in DOMAIN recs : recs[i].id < img.next
               /\ ~ Fits(img.tree.toc, Injected(recs, img.next, <<0, 0, 0, 0, 0, 0>>))
<1> DEFINE s == ReadNode(disk.tree)
           new == Injected(s, disk.next, blk)
           old == OfType(s, InodeRec)
           E == OfType(s, DirRec)
           z == <<0, 0, 0, 0, 0, 0>>
<1>1. /\ disk.kind = "container" /\ WellKept(disk) /\ Regular(disk) /\ HoldsOne(disk)
      /\ Keyed(s) /\ disk.next \in Nat /\ disk.next > RootDir /\ disk.tree.toc \in Nat
  BY DiskFacts
<1>2. /\ Fits(disk.tree.toc, new) /\ img.tree = SerializeNode(disk.tree.toc, new)
      /\ img.next = NextAfter(disk.next)
  BY DEF TreeInv, Building, NewTree, SpaceInv, Filling
<1>3. /\ \A e \in E : e.id # RootDir
      /\ ~ Fits(TableLen(disk.tree.toc, Len(new)), Injected(new, NextAfter(disk.next), z))
  BY <1>1, <1>2, HoldsNoSecond
<1>4. Ascending(s) /\ \A i \in DOMAIN s : s[i].id < disk.next
  BY <1>1 DEF WellKept
<1>5. /\ Keyed(new)
      /\ OfType(new, InodeRec) = {Grown(r) : r \in old} \cup NewInodes(disk.next)
      /\ OfType(new, DirRec) = E \cup NewDrecs(disk.next)
      /\ OfType(new, FileExtent) = OfType(s, FileExtent) \cup NewExtents(disk.next, blk)
      /\ OfType(new, XattrRec) = OfType(s, XattrRec) \cup NewXattrs(disk.next)
      /\ \A i \in DOMAIN new : new[i].id < NextAfter(disk.next)
  <2>1. Keyed(s) /\ disk.next \in Nat /\ disk.next > RootDir /\ \A i \in DOMAIN s : s[i].id < disk.next
    BY <1>1, <1>4
  <2> HIDE DEF s
  <2> QED
    BY <2>1, InjectedFacts, Zenon
<1>6. Ascending(new)
  <2>1. Keyed(s) /\ disk.next \in Nat
    BY <1>1
  <2> HIDE DEF s
  <2> QED
    BY <2>1, <1>3, <1>4, InjectedAscends, Zenon
<1>7. Paired(old, E, disk.next) /\ \A r \in old : r = [f \in RecFields |-> r[f]]
  BY <1>1, KeptPaired
<1>8. Paired({Grown(r) : r \in old} \cup NewInodes(disk.next), E \cup NewDrecs(disk.next), NextAfter(disk.next))
  <2>1. disk.next \in Nat /\ disk.next > RootDir
    BY <1>1
  <2> HIDE DEF old, E
  <2> QED
    BY <2>1, <1>3, <1>7, PairedGrows, Zenon
<1> HIDE DEF new
<1>9. ReadNode(img.tree) = new
  BY <1>1, <1>2, <1>5, NodeRoundTrip
<1>10. img.tree.toc = TableLen(disk.tree.toc, Len(new))
  BY <1>2 DEF SerializeNode
<1>11. new = NewTree
  BY DEF new, NewTree
<1> HIDE DEF s, old, E, z
<1> QED
  BY <1>2, <1>3, <1>5, <1>6, <1>8, <1>9, <1>10, <1>11, Zenon DEF s, old, E, z

\* The objects that are counted: six files, a directory and a link more.
LEMMA WrittenCounts ==
    ASSUME IInv, SpaceInv, TreeInv, pc = "write", NEW I, I = OfType(ReadNode(img.tree), InodeRec)
    PROVE  /\ img.files = Cardinality(OfMode(I, "file")) /\ img.links = Cardinality(OfMode(I, "link"))
           /\ img.dirs = Cardinality(OfMode(I, "dir")) - 2 /\ img.files # 0
<1> DEFINE old == OfType(ReadNode(disk.tree), InodeRec)
           E == OfType(ReadNode(disk.tree), DirRec)
<1>1. /\ disk.kind = "container" /\ WellKept(disk) /\ Regular(disk)
      /\ Keyed(ReadNode(disk.tree)) /\ disk.next \in Nat
  BY DiskFacts
<1>2. /\ disk.files = Cardinality(OfMode(old, "file")) /\ disk.links = Cardinality(OfMode(old, "link"))
      /\ disk.dirs = Cardinality(OfMode(old, "dir")) - 2
  BY <1>1 DEF WellKept, OfMode
<1>3. Paired(old, E, disk.next) /\ \A r \in old : r = [f \in RecFields |-> r[f]]
  BY <1>1, KeptPaired
<1>4. I = {Grown(r) : r \in old} \cup NewInodes(disk.next)
  BY WrittenTree
<1> HIDE DEF old, E
<1>5. disk.next \in Nat
  BY <1>1
<1>6. /\ Cardinality(OfMode(old, "file")) \in Nat
      /\ Cardinality(OfMode(I, "file")) = Cardinality(OfMode(old, "file")) + 6
  BY <1>3, <1>4, <1>5, ModesGrow, KindsCounted
<1>7. /\ Cardinality(OfMode(old, "dir")) \in Nat
      /\ Cardinality(OfMode(I, "dir")) = Cardinality(OfMode(old, "dir")) + 1
  BY <1>3, <1>4, <1>5, ModesGrow, KindsCounted
<1>8. /\ Cardinality(OfMode(old, "link")) \in Nat
      /\ Cardinality(OfMode(I, "link")) = Cardinality(OfMode(old, "link")) + 1
  BY <1>3, <1>4, <1>5, ModesGrow, KindsCounted
<1>9. /\ img.files = disk.files + 6 /\ img.dirs = disk.dirs + 1 /\ img.links = disk.links + 1
  BY DEF TreeInv, Building
<1> QED
  BY <1>2, <1>6, <1>7, <1>8, <1>9

\* What an injection writes is kept as well as what it read.
LEMMA WrittenKept ==
    ASSUME IInv, SpaceInv, TreeInv, pc = "write"
    PROVE  WellKept(img) /\ Regular(img) /\ HoldsOne(img) /\ Sized(img)
<1> DEFINE recs == ReadNode(img.tree)
           refs == ReadNode(img.refs)
           I == OfType(recs, InodeRec)
           E == OfType(recs, DirRec)
           X == OfType(recs, FileExtent)
           z == <<0, 0, 0, 0, 0, 0>>
<1>1. /\ disk.kind = "container" /\ WellKept(disk) /\ Regular(disk)
      /\ disk.next \in Nat /\ disk.next > RootDir /\ disk.refs.toc \in Nat
      /\ img.next = NextAfter(disk.next) /\ Len(blk) = 6
  BY DiskFacts DEF SpaceInv, Filling, Spending
<1>2. /\ Ascending(recs) /\ Keyed(recs) /\ Paired(I, E, img.next)
      /\ X = OfType(ReadNode(disk.tree), FileExtent) \cup NewExtents(disk.next, blk)
      /\ \A i \in DOMAIN recs : recs[i].id < img.next
      /\ ~ Fits(img.tree.toc, Injected(recs, img.next, z))
  BY WrittenTree
<1>3. /\ img.files = Cardinality(OfMode(I, "file")) /\ img.links = Cardinality(OfMode(I, "link"))
      /\ img.dirs = Cardinality(OfMode(I, "dir")) - 2
  BY WrittenCounts
<1>4. Ascending(refs) /\ OnlyBlocks(refs)
  <2>1. Ascending(NewRefs) /\ OnlyBlocks(NewRefs) /\ Keyed(NewRefs)
    <3>1. Ascending(ReadNode(disk.refs))
      BY <1>1 DEF WellKept
    <3> QED
      BY <1>1, <3>1, ReferencesAscend DEF NewRefs
  <2>2. Fits(disk.refs.toc, NewRefs) /\ img.refs = SerializeNode(disk.refs.toc, NewRefs)
    BY DEF TreeInv, Building
  <2>3. refs = NewRefs
    BY <1>1, <2>1, <2>2, NodeRoundTrip
  <2> QED
    BY <2>1, <2>3
<1>5. img.stale = {}
  BY DEF TreeInv, Building
<1> HIDE DEF recs, refs, I, E, X, z
<1>6. WellKept(img)
  <2>1. /\ \A e \in E : \E r \in I :
              r.id = e.val.file /\ r.val.parent = e.id /\ e.val.dtype = Dtype(r.val.mode)
        /\ \A e \in E : e.name \in DOMAIN Hash /\ e.number = Hash[e.name]
        /\ \A r \in I : Cardinality({e \in E : e.val.file = r.id}) = 1
        /\ \A r \in {r \in I : r.val.mode = "dir"} : r.val.kids = Cardinality({e \in E : e.id = r.id})
    BY <1>2, Zenon DEF Paired
  <2> QED
    BY <1>2, <1>3, <1>4, <1>5, <2>1, Zenon DEF WellKept, OfMode, recs, refs, I, E
<1>7. \A e \in X : e.val.phys \in BlocksOf(e)
  <2>1. ASSUME NEW i \in 1 .. 6
        PROVE  LET e == NewExtent(disk.next, blk, i) IN e.val.phys \in BlocksOf(e)
    <3>1. blk[i] \in Nat /\ Wanted[i] \in Nat \ {0}
      BY <1>1, FirstBlocks, WantedPositive
    <3>2. /\ BlocksOf(NewExtent(disk.next, blk, i)) = Blk(i)
          /\ NewExtent(disk.next, blk, i).val.phys = blk[i]
      BY <3>1, NewBlocks
    <3>3. blk[i] \in Blk(i)
      BY <3>1 DEF Blk, Marked
    <3> QED
      BY <3>2, <3>3, Zenon
  <2>2. \A e \in OfType(ReadNode(disk.tree), FileExtent) : e.val.phys \in BlocksOf(e)
    BY <1>1 DEF Regular
  <2> QED
    BY <1>2, <2>1, <2>2, Zenon DEF NewExtents
<1>8. img.next > RootDir
  BY <1>1 DEF NextAfter, Streams, RootDir
<1>9. \A r \in I : r.number = 0 /\ r.name = 0 /\ r.val = [f \in DOMAIN Zeroed |-> r.val[f]]
  BY <1>2, Zenon DEF Paired, InodeFields
<1>10. Regular(img)
  BY <1>4, <1>7, <1>8, <1>9, Zenon DEF Regular, OnlyBlocks, recs, refs, I, X
<1>11. HoldsOne(img)
  BY <1>2, Zenon DEF HoldsOne, recs, z
<1>12. Sized(img)
  <2> DEFINE old == OfType(ReadNode(disk.tree), InodeRec)
  <2>1. I = {Grown(r) : r \in old} \cup NewInodes(disk.next)
    BY WrittenTree DEF I, recs
  <2>2. /\ \A r \in old : SizedVal(r.val) /\ InodeFields(r)
        /\ \A r \in old : r = [f \in RecFields |-> r[f]]
    <3>1. Sized(disk) /\ Keyed(ReadNode(disk.tree))
      BY <1>1, DiskFacts DEF TreeInv, Kept
    <3> QED
      BY <1>1, <3>1, KeptPaired, Zenon DEF Sized, SizedVal, Regular, InodeFields
  <2>3. \A r \in old : SizedVal(Grown(r).val)
    BY <2>2, GrownSizes
  <2>4. ASSUME NEW k \in 0 .. 7
        PROVE  SizedVal(NewInode(disk.next, k).val)
    BY ValFields, NewSizes, BuiltSizes, Zenon DEF NewInode
  <2> HIDE DEF old
  <2>5. \A r \in I : SizedVal(r.val)
    BY <2>1, <2>3, <2>4 DEF NewInodes
  <2> QED
    BY <2>5, Zenon DEF Sized, SizedVal, I, recs
<1> QED
  BY <1>6, <1>10, <1>11, <1>12

LEMMA TreeInit == FixtureInit => TreeInv
BY KeptAssumption DEF FixtureInit, TreeInv, Kept, Building

LEMMA TreeIdle ==
    ASSUME NEW how, Ends(how), Kept(disk')
    PROVE  TreeInv'
<1>1. pc' = "idle" /\ Kept(disk)'
  BY DEF Ends, Kept
<1> QED
  BY <1>1 DEF TreeInv, Building

\* Steps of a run leave the image on the disk alone, and its allocations once
\* they are made.
LEMMA SameTrees ==
    ASSUME UNCHANGED <<disk, blk>>
    PROVE  NewTree' = NewTree /\ NewRefs' = NewRefs
BY DEF NewTree, NewRefs

LEMMA TreeLoad == TreeInv /\ Load => TreeInv'
<1> SUFFICES ASSUME TreeInv, Load PROVE TreeInv'
  OBVIOUS
<1>1. disk' = disk /\ Kept(disk') /\ Kept(disk)
  BY DEF Load, TreeInv
<1>2. CASE ~ Discovered(disk)
  BY <1>1, <1>2, TreeIdle DEF Load
<1>3. CASE Discovered(disk)
  <2>1. img' = disk /\ pc' = "alloc" /\ disk.kind = "container"
    BY <1>3 DEF Load, Discovered
  <2>2. disk.stale = {}
    BY <1>1, <2>1 DEF Kept, WellKept
  <2>3. Building'
    BY <1>1, <2>1, <2>2 DEF Building
  <2> QED
    BY <1>1, <2>3 DEF TreeInv, Kept
<1> QED
  BY <1>2, <1>3

LEMMA TreeAlloc == IInv /\ TreeInv /\ AllocBlocks => TreeInv'
<1> SUFFICES ASSUME IInv, TreeInv, AllocBlocks PROVE TreeInv'
  OBVIOUS
<1>1. pc = "alloc" /\ disk' = disk /\ Kept(disk')
  BY DEF AllocBlocks, TreeInv
<1>2. CASE Ends("panic")
  BY <1>1, <1>2, TreeIdle
<1>3. CASE ~ Ends("panic")
  <2>1. PICK u, c, e : /\ img' = [img EXCEPT !.used = u, !.chunkFree = c, !.devFree = e,
                                             !.stale = Fixed({"chunk", "spaceman"}, FixedByAlloc)]
                       /\ pc' = "alloc"
    BY <1>1, <1>3 DEF AllocBlocks
  <2>2. /\ img'.tree = img.tree /\ img'.files = img.files /\ img'.dirs = img.dirs
        /\ img'.links = img.links /\ img'.stale = Fixed({"chunk", "spaceman"}, FixedByAlloc)
    <3>1. {"used", "chunkFree", "devFree", "tree", "files", "dirs", "links", "stale"} \subseteq Fields
      BY DEF Fields
    <3> QED
      BY <1>1, <2>1, <3>1, CopyFacts
  <2>3. img'.stale = {}
    BY <1>1, <2>2 DEF Fixed, FixedByAlloc, TreeInv, Building
  <2>4. Building'
    BY <1>1, <2>1, <2>2, <2>3 DEF Building, TreeInv
  <2> QED
    BY <1>1, <2>4 DEF TreeInv, Kept
<1> QED
  BY <1>2, <1>3

LEMMA TreeWriteData == IInv /\ TreeInv /\ WriteData => TreeInv'
<1> SUFFICES ASSUME IInv, TreeInv, WriteData PROVE TreeInv'
  OBVIOUS
<1>1. pc = "alloc" /\ pc' = "tree" /\ disk' = disk /\ Kept(disk')
  BY DEF WriteData, TreeInv
<1>2. PICK c : img' = [img EXCEPT !.content = c]
  BY DEF WriteData
<1>3. /\ img'.tree = img.tree /\ img'.files = img.files /\ img'.dirs = img.dirs
      /\ img'.links = img.links /\ img'.stale = img.stale
  <2>1. {"content", "tree", "files", "dirs", "links", "stale"} \subseteq Fields
    BY DEF Fields
  <2> QED
    BY <1>1, <1>2, <2>1, CopyFacts
<1>4. Building'
  BY <1>1, <1>3 DEF Building, TreeInv
<1> QED
  BY <1>1, <1>4 DEF TreeInv, Kept

LEMMA TreeBuildTree == IInv /\ SpaceInv /\ TreeInv /\ BuildTree => TreeInv'
<1> SUFFICES ASSUME IInv, SpaceInv, TreeInv, BuildTree PROVE TreeInv'
  OBVIOUS
<1>1. pc = "tree" /\ disk' = disk /\ Kept(disk')
  BY DEF BuildTree, TreeInv
<1>2. CASE Ends("panic")
  BY <1>1, <1>2, TreeIdle
<1>3. CASE ~ Ends("panic")
  <2>1. /\ img.tree = disk.tree /\ img.next = disk.next
        /\ img.files = disk.files /\ img.dirs = disk.dirs /\ img.links = disk.links
        /\ img.stale = {}
    BY <1>1 DEF TreeInv, Building, SpaceInv, Filling
  <2>2. Sorted(WithChildren(ReadNode(img.tree)) \o NewRecords(img.next, blk)) = NewTree
    BY <2>1, Zenon DEF NewTree, Injected
  <2>3. /\ Fits(img.tree.toc, NewTree)
        /\ img' = [img EXCEPT !.tree = SerializeNode(@.toc, NewTree), !.stale = Fixed({"tree"}, {"tree"})]
        /\ pc' = "refs" /\ blk' = blk
    BY <1>3, <2>2, Zenon DEF BuildTree
  <2>4. /\ img'.tree = SerializeNode(img.tree.toc, NewTree) /\ img'.files = img.files
        /\ img'.dirs = img.dirs /\ img'.links = img.links
        /\ img'.stale = Fixed({"tree"}, {"tree"})
    <3>1. {"tree", "files", "dirs", "links", "stale"} \subseteq Fields
      BY DEF Fields
    <3> QED
      BY <1>1, <2>3, <3>1, CopyFacts
  <2>5. img'.stale = {}
    BY <2>1, <2>4 DEF Fixed
  <2>6. NewTree' = NewTree
    BY <1>1, <2>3, SameTrees
  <2>7. Building'
    BY <1>1, <2>1, <2>3, <2>4, <2>5, <2>6 DEF Building
  <2> QED
    BY <1>1, <2>7 DEF TreeInv, Kept
<1> QED
  BY <1>2, <1>3

LEMMA TreeBuildReferences == IInv /\ SpaceInv /\ TreeInv /\ BuildReferences => TreeInv'
<1> SUFFICES ASSUME IInv, SpaceInv, TreeInv, BuildReferences PROVE TreeInv'
  OBVIOUS
<1>1. pc = "refs" /\ disk' = disk /\ Kept(disk')
  BY DEF BuildReferences, TreeInv
<1>2. CASE Ends("panic")
  BY <1>1, <1>2, TreeIdle
<1>3. CASE ~ Ends("panic")
  <2>1. /\ img.refs = disk.refs /\ img.next = disk.next
        /\ img.files = disk.files /\ img.dirs = disk.dirs /\ img.links = disk.links
        /\ Fits(disk.tree.toc, NewTree) /\ img.tree = SerializeNode(disk.tree.toc, NewTree)
        /\ img.stale = {}
    BY <1>1 DEF TreeInv, Building, SpaceInv, Filling
  <2>2. Sorted(ReadNode(img.refs) \o NewReferences(img.next, blk)) = NewRefs
    BY <2>1, Zenon DEF NewRefs
  <2>3. /\ Fits(img.refs.toc, NewRefs)
        /\ img' = [img EXCEPT !.refs = SerializeNode(@.toc, NewRefs), !.stale = Fixed({"refs"}, {"refs"})]
        /\ pc' = "count" /\ blk' = blk
    BY <1>3, <2>2, Zenon DEF BuildReferences
  <2>4. /\ img'.refs = SerializeNode(img.refs.toc, NewRefs) /\ img'.tree = img.tree
        /\ img'.files = img.files /\ img'.dirs = img.dirs /\ img'.links = img.links
        /\ img'.stale = Fixed({"refs"}, {"refs"})
    <3>1. {"refs", "tree", "files", "dirs", "links", "stale"} \subseteq Fields
      BY DEF Fields
    <3> QED
      BY <1>1, <2>3, <3>1, CopyFacts
  <2>5. img'.stale = {}
    BY <2>1, <2>4 DEF Fixed
  <2>6. NewTree' = NewTree /\ NewRefs' = NewRefs
    BY <1>1, <2>3, SameTrees
  <2>7. Building'
    BY <1>1, <2>1, <2>3, <2>4, <2>5, <2>6 DEF Building
  <2> QED
    BY <1>1, <2>7 DEF TreeInv, Kept
<1> QED
  BY <1>2, <1>3

LEMMA TreeCount == IInv /\ TreeInv /\ Count => TreeInv'
<1> SUFFICES ASSUME IInv, TreeInv, Count PROVE TreeInv'
  OBVIOUS
<1>1. /\ pc = "count" /\ pc' = "write" /\ UNCHANGED <<disk, blk>> /\ Kept(disk')
      /\ img' = [img EXCEPT !.next = NextAfter(@), !.files = @ + 6, !.dirs = @ + 1,
                            !.links = @ + 1, !.allocCount = @ + Total, !.alloced = @ + Total,
                            !.stale = Fixed({"volume"}, {"volume"})]
  BY DEF Count, TreeInv
<1>2. /\ img.files = disk.files /\ img.dirs = disk.dirs /\ img.links = disk.links
      /\ Fits(disk.tree.toc, NewTree) /\ img.tree = SerializeNode(disk.tree.toc, NewTree)
      /\ Fits(disk.refs.toc, NewRefs) /\ img.refs = SerializeNode(disk.refs.toc, NewRefs)
      /\ img.stale = {}
  BY <1>1 DEF TreeInv, Building
<1>3. /\ img'.tree = img.tree /\ img'.refs = img.refs
      /\ img'.files = img.files + 6 /\ img'.dirs = img.dirs + 1 /\ img'.links = img.links + 1
      /\ img'.stale = Fixed({"volume"}, {"volume"})
  <2>1. {"tree", "refs", "next", "files", "dirs", "links", "allocCount", "alloced", "stale"} \subseteq Fields
    BY DEF Fields
  <2> QED
    BY <1>1, <2>1, CopyFacts
<1>4. img'.stale = {}
  BY <1>2, <1>3 DEF Fixed
<1>5. NewTree' = NewTree /\ NewRefs' = NewRefs
  BY <1>1, SameTrees
<1>6. Building'
  BY <1>1, <1>2, <1>3, <1>4, <1>5 DEF Building
<1> QED
  BY <1>1, <1>6 DEF TreeInv, Kept

LEMMA TreeStep == IInv /\ SpaceInv /\ TreeInv /\ [Inject]_fixVars => TreeInv'
<1> SUFFICES ASSUME IInv, SpaceInv, TreeInv, [Inject]_fixVars PROVE TreeInv'
  OBVIOUS
<1>1. CASE LoadFails
  <2>1. Ends("panic") /\ disk' = disk
    BY <1>1 DEF LoadFails
  <2> QED
    BY <2>1, TreeIdle DEF TreeInv
<1>2. CASE WriteFails
  <2>1. Ends("panic") /\ disk' = Torn
    BY <1>2 DEF WriteFails
  <2>2. Kept(disk')
    BY <2>1 DEF Kept, Torn
  <2> QED
    BY <2>1, <2>2, TreeIdle
<1>3. CASE WriteImage
  <2>1. pc = "write" /\ disk' = img /\ Ends("ok")
    BY <1>3 DEF WriteImage
  <2>2. Kept(disk')
    BY <2>1, WrittenKept DEF Kept
  <2> QED
    BY <2>1, <2>2, TreeIdle
<1>4. CASE UNCHANGED fixVars
  BY <1>4 DEF fixVars, TreeInv, Kept, Building, NewTree, NewRefs
<1> QED
  BY <1>1, <1>2, <1>3, <1>4, TreeLoad, TreeAlloc, TreeWriteData, TreeBuildTree,
     TreeBuildReferences, TreeCount DEF Inject

LEMMA TreeInductive == InjectSpec => []TreeInv
BY TreeInit, TreeStep, Inductive, SpaceInductive, PTL DEF InjectSpec

(* What the injector leaves is what a checker accepts, after any number of *)
(* injections into images of any content and size: keys ascend and are     *)
(* unique, entries and inodes belong together, children and objects are    *)
(* counted, the next id is unused and every checksum is current            *)
(* (main.rs:93-95, 601-863).                                               *)
THEOREM TreesSound == InjectSpec => []TreeSound
<1>1. TreeInv => TreeSound
  BY DEF TreeInv, Kept, TreeSound, Readable
<1> QED
  BY <1>1, TreeInductive, PTL
=============================================================================
