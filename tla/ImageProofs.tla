---------------------------- MODULE ImageProofs -----------------------------
(***************************************************************************)
(* Proofs about an image of any size and layout, from the injector to the  *)
(* mounted volume, in the composition of Cli.                              *)
(*                                                                         *)
(* First the buffer of an open directory: what has to be found is when the *)
(* buffer is known to be whole, not whenever it is made, for a fill that   *)
(* failed leaves it half full, but whenever the driver holds a marker.     *)
(* Then why the injector may give up, what an enumeration delivers, and    *)
(* that the entries of a directory have names of their own in a tree that  *)
(* InjectorProofs shows sound, so that every listing is complete.  At the  *)
(* end the composition: the types of all its parts, where the paths of the *)
(* mounted volume lead, that its files read back, and that the tools print *)
(* all of it.                                                              *)
(***************************************************************************)
EXTENDS Cli, InjectorProofs

Whole == Buffer(Filled(Len(Entries)))

BufferInv ==
    /\ inode # Closed => pc = "idle" /\ runs = MaxRuns
    /\ inode = Closed => marker = NoMarker
    /\ inode # Closed /\ marker # NoMarker => buffer = Whole
    /\ reply.op = "list" => inode # Closed
    /\ PageFromWholeFill

mountView == <<disk, pc, runs, inode, buffer, marker, reply>>

(* The listing of an open directory is a function of the image and the     *)
(* inode, and an image with a mounted volume does not change.              *)
LEMMA EntriesStable ==
    ASSUME disk' = disk, inode' = inode
    PROVE  /\ Entries' = Entries
           /\ \A k : Filled(k)' = Filled(k)
           /\ Whole' = Whole
<1>1. Entries' = Entries
  BY DEF Entries, VolumeRecords, Volume
<1>2. \A k : Filled(k)' = Filled(k)
  BY <1>1 DEF Filled
<1>3. Whole' = Whole
  BY <1>1 DEF Whole, Filled
<1> QED
  BY <1>1, <1>2, <1>3

LEMMA BufferInvUnchanged == BufferInv /\ UNCHANGED mountView => BufferInv'
<1> SUFFICES ASSUME BufferInv, UNCHANGED mountView PROVE BufferInv'
  OBVIOUS
<1>1. Entries' = Entries /\ Whole' = Whole
  BY EntriesStable DEF mountView
<1>2. Filled(Len(Entries))' = Filled(Len(Entries))
  BY <1>1 DEF Filled
<1> QED
  BY <1>1, <1>2 DEF BufferInv, mountView, PageFromWholeFill

LEMMA BufferInvInit == Init => BufferInv
  BY DEF Init, MountInit, BufferInv, PageFromWholeFill, Closed, NoMarker

(* The injector is done when a volume is mounted, so that it cannot move   *)
(* the image under an open handle.                                         *)
LEMMA BufferInvInject == BufferInv /\ Inject /\ UNCHANGED mountVars => BufferInv'
<1> SUFFICES ASSUME BufferInv, Inject, UNCHANGED mountVars PROVE BufferInv'
  OBVIOUS
<1>1. inode = Closed
  <2>1. SUFFICES ASSUME pc = "idle", runs = MaxRuns PROVE FALSE
    BY <2>1 DEF BufferInv
  <2>2. ~ (runs < MaxRuns)
    BY <2>1, BoundsAssumption
  <2> QED
    BY <2>1, <2>2 DEF Inject, Load, LoadFails, AllocBlocks, WriteData, BuildTree,
       BuildReferences, Count, WriteImage, WriteFails
<1> QED
  BY <1>1 DEF BufferInv, mountVars, PageFromWholeFill

LEMMA BufferInvMount == BufferInv /\ MountStep /\ UNCHANGED fixVars => BufferInv'
<1> SUFFICES ASSUME BufferInv, MountStep, UNCHANGED fixVars PROVE BufferInv'
  OBVIOUS
<1> USE DEF fixVars
<1>1. ASSUME NEW path \in Paths, Open(path) PROVE BufferInv'
  <2>1. marker' = NoMarker /\ pc' = "idle" /\ runs' = MaxRuns /\ reply'.op = "open"
    BY <1>1 DEF BufferInv, Open, Mounted
  <2> QED
    BY <2>1 DEF BufferInv, PageFromWholeFill
<1>2. ASSUME OpenFails PROVE BufferInv'
  BY <1>2 DEF OpenFails, BufferInv, Answer, PageFromWholeFill
<1>3. ASSUME Close PROVE BufferInv'
  BY <1>3 DEF Close, BufferInv, Answer, PageFromWholeFill
<1>4. ASSUME GetFileInfo \/ Refuse PROVE BufferInv'
  <2>1. UNCHANGED <<inode, buffer, marker>> /\ reply'.op # "list"
    BY <1>4 DEF GetFileInfo, Refuse, Answer
  <2>2. Whole' = Whole
    BY <2>1, EntriesStable
  <2> QED
    BY <2>1, <2>2 DEF BufferInv, PageFromWholeFill
<1>5. ASSUME ListRefused PROVE BufferInv'
  <2>1. UNCHANGED <<inode, buffer, marker>> /\ reply'.status # "ok" /\ inode # Closed
    BY <1>5 DEF ListRefused, Answer
  <2>2. Whole' = Whole
    BY <2>1, EntriesStable
  <2> QED
    BY <2>1, <2>2 DEF BufferInv, PageFromWholeFill
<1>6. ASSUME NEW rewind \in BOOLEAN, FillFails(rewind) PROVE BufferInv'
  <2>1. inode # Closed /\ inode' = inode /\ reply'.status # "ok"
    BY <1>6 DEF FillFails, Answer
  <2>2. marker' = NoMarker
    <3>1. marker' = Place(rewind) /\ (~ buffer.made \/ Place(rewind) = NoMarker)
      BY <1>6 DEF FillFails, Acquired
    <3>2. CASE marker = NoMarker
      BY <3>1, <3>2 DEF Place
    <3>3. CASE marker # NoMarker
      <4>1. buffer.made
        BY <2>1, <3>3 DEF BufferInv, Whole, Buffer
      <4> QED
        BY <3>1, <4>1
    <3> QED
      BY <3>2, <3>3
  <2> QED
    BY <2>1, <2>2 DEF BufferInv, PageFromWholeFill
<1>7. ASSUME NEW rewind \in BOOLEAN, ReadDirectory(rewind) PROVE BufferInv'
  <2> DEFINE from == Place(rewind)
             now == IF Acquired(from) THEN Filled(Len(Entries)) ELSE buffer.entries
  <2>1. inode # Closed /\ inode' = inode /\ buffer' = Buffer(now)
    BY <1>7 DEF ReadDirectory
  <2>2. now = Filled(Len(Entries))
    <3>1. CASE Acquired(from)
      BY <3>1
    <3>2. CASE ~ Acquired(from)
      <4>1. marker # NoMarker
        BY <3>2 DEF Acquired, Place
      <4>2. buffer.entries = Filled(Len(Entries))
        BY <2>1, <4>1 DEF BufferInv, Whole, Buffer
      <4> QED
        BY <3>2, <4>2
    <3> QED
      BY <3>1, <3>2
  <2>3. Entries' = Entries /\ Whole' = Whole
    BY <2>1, EntriesStable
  <2>4. buffer' = Whole'
    BY <2>1, <2>2, <2>3 DEF Whole
  <2>5. PageFromWholeFill'
    BY <2>4 DEF PageFromWholeFill, Whole, Buffer
  <2> QED
    BY <2>1, <2>4, <2>5 DEF BufferInv
<1> QED
  BY <1>1, <1>2, <1>3, <1>4, <1>5, <1>6, <1>7 DEF MountStep

LEMMA BufferInvNext == BufferInv /\ [Next]_vars => BufferInv'
<1> SUFFICES ASSUME BufferInv, [Next]_vars PROVE BufferInv'
  OBVIOUS
<1>1. CASE Inject /\ UNCHANGED <<mountVars, cliVars>>
  BY <1>1, BufferInvInject
<1>2. CASE MountStep /\ status = "idle" /\ UNCHANGED <<fixVars, cliVars>>
  BY <1>2, BufferInvMount
<1>3. CASE CliStep /\ UNCHANGED <<fixVars, mountVars>>
  BY <1>3, BufferInvUnchanged DEF mountView, fixVars, mountVars
<1>4. CASE UNCHANGED vars
  BY <1>4, BufferInvUnchanged DEF mountView, vars, fixVars, mountVars
<1> QED
  BY <1>1, <1>2, <1>3, <1>4 DEF Next

(* A listing never serves a page out of a buffer that a failed fill left   *)
(* half full, whatever volume is mounted, whichever fills fail and however *)
(* the enumeration is continued or rewound (fs.rs:190-219).                *)
THEOREM PagesAreWhole == Spec => []PageFromWholeFill
<1>1. BufferInv => PageFromWholeFill
  BY DEF BufferInv
<1> QED
  BY <1>1, BufferInvInit, BufferInvNext, PTL DEF Spec

(* Nothing but the injector changes the image: what is proved of the       *)
(* injector alone holds with the mount and the tool beside it.             *)
THEOREM OnlyInjectorWrites == Spec => InjectSpec
<1>1. Init => FixtureInit
  BY DEF Init
<1>2. [Next]_vars => [Inject]_fixVars
  BY DEF Next, vars
<1> QED
  BY <1>1, <1>2, PTL DEF Spec, InjectSpec

(* The two free counts are the bitmap's in every image that is mounted or  *)
(* printed (alloc_blocks, fixture main.rs:543-577).                        *)
THEOREM MountedCountsMatch == Spec => []FreeCountsMatch
BY OnlyInjectorWrites, CountsFollowBitmap, PTL

(* The same of every image that is mounted or printed.                     *)
THEOREM MountedAccounted == Spec => []SpaceAccounted
BY OnlyInjectorWrites, ExtentsAccounted, PTL

(* The same of every image that is mounted or printed.                     *)
THEOREM MountedTreesSound == Spec => []TreeSound
BY OnlyInjectorWrites, TreesSound, PTL

----------------------------------------------------------------------------
\* Why the injector may give up.
Reason == ~ Discovered(disk) \/ disk.files > 0 \/ Runs(disk.used, Total) = {}

\* As long as no call has failed, every image is a formatted or an injected
\* one, and the copy has the room that the image had.
Undisturbed ==
    /\ disk \in Formatted \/ (disk.kind = "container" /\ disk.files \in Nat \ {0})
    /\ pc # "idle" => /\ Discovered(disk)
                      /\ img.files = IF pc = "write" THEN disk.files + 6 ELSE disk.files
    /\ pc = "alloc" /\ Runs(disk.used, Total) # {} =>
          Runs(img.used, Total - Spent[Len(blk) + 1]) # {}
    /\ exit = "panic" => Reason

GiveInv == faults \in Nat /\ (faults = 0 => Undisturbed)

LEMMA FilesCounted ==
    ASSUME Undisturbed, disk.kind = "container"
    PROVE  disk.files \in Nat /\ (disk.files = 0 => HasRoom(disk))
BY AccountedAssumption DEF Undisturbed

LEMMA GiveInit == Init => GiveInv
<1> SUFFICES ASSUME FixtureInit PROVE GiveInv
  BY DEF Init
<1> QED
  BY DEF FixtureInit, GiveInv, Undisturbed

\* A run that gives up for a reason.
LEMMA GivenUp ==
    ASSUME Undisturbed, disk' = disk, Ends("panic"), Reason
    PROVE  Undisturbed'
BY DEF Undisturbed, Ends, Reason

LEMMA GiveLoad == Undisturbed /\ Load => Undisturbed'
<1> SUFFICES ASSUME Undisturbed, Load PROVE Undisturbed'
  OBVIOUS
<1>1. disk' = disk /\ (disk \in Formatted \/ (disk.kind = "container" /\ disk.files \in Nat \ {0}))
  BY DEF Load, Undisturbed
<1>2. CASE ~ Discovered(disk)
  BY <1>1, <1>2, GivenUp DEF Load, Reason
<1>3. CASE Discovered(disk)
  <2>1. img' = disk /\ pc' = "alloc" /\ blk' = <<>> /\ exit' = "none"
    BY <1>3 DEF Load
  <2>2. Len(blk') = 0 /\ Total - Spent[Len(blk') + 1] = Total
    BY <2>1, SpentFacts
  <2>3. Discovered(disk')
    BY <1>1, <1>3
  <2> QED
    BY <1>1, <2>1, <2>2, <2>3 DEF Undisturbed
<1> QED
  BY <1>2, <1>3

\* What is still wanted after each allocation.
LEMMA StillWanted ==
    ASSUME NEW k \in 0 .. 5
    PROVE  \E r \in Nat : /\ Total - Spent[k + 1] = Wanted[k + 1] + r
                          /\ Total - Spent[k + 1 + 1] = r
<1> DEFINE r == RsrcBlocks
           s == <<0, 1, 2, 4, 5, 7, 7 + r>>
           w == <<1, 1, 2, 1, 2, r>>
<1>1. r \in Nat
  BY BlocksAssumption
<1> HIDE DEF r
<1>2. /\ s[1] = 0 /\ s[2] = 1 /\ s[3] = 2 /\ s[4] = 4 /\ s[5] = 5 /\ s[6] = 7 /\ s[7] = 7 + r
      /\ w[1] = 1 /\ w[2] = 1 /\ w[3] = 2 /\ w[4] = 1 /\ w[5] = 2 /\ w[6] = r
  OBVIOUS
<1> HIDE DEF s, w
<1>3. 0 .. 5 = {0, 1, 2, 3, 4, 5}
  OBVIOUS
<1>4. \A j \in {0, 1, 2, 3, 4, 5} :
         /\ (7 + r) - s[j + 1 + 1] \in Nat
         /\ (7 + r) - s[j + 1] = w[j + 1] + ((7 + r) - s[j + 1 + 1])
  BY <1>1, <1>2
<1>5. Spent = s /\ Wanted = w /\ Total = 7 + r
  BY DEF Spent, Wanted, Total, s, w, r
<1> QED
  BY <1>3, <1>4, <1>5

LEMMA GiveAlloc == IInv /\ Undisturbed /\ AllocBlocks => Undisturbed'
<1> SUFFICES ASSUME IInv, Undisturbed, AllocBlocks, NEW k, k = Len(blk) PROVE Undisturbed'
  OBVIOUS
<1> DEFINE n == Wanted[k + 1]
           free == Runs(img.used, n)
<1>1. /\ disk' = disk /\ pc = "alloc" /\ k \in 0 .. 5 /\ k + 1 \in 1 .. 6
      /\ blk \in Seq(AllBlocks)
  <2>1. disk' = disk /\ pc = "alloc" /\ Len(blk) < Len(Wanted) /\ blk \in Seq(AllBlocks)
    BY DEF AllocBlocks, IInv, BlkOK
  <2>2. Len(Wanted) = 6
    BY WantedPositive
  <2>3. k \in Nat /\ k < 6
    BY <2>1, <2>2
  <2>4. k \in 0 .. 5 /\ k + 1 \in 1 .. 6
    BY <2>3
  <2> QED
    BY <2>1, <2>4
<1>2. PICK r \in Nat : Total - Spent[k + 1] = n + r /\ Total - Spent[k + 1 + 1] = r
  BY <1>1, StillWanted
<1>3. n \in Nat \ {0}
  BY <1>1, WantedPositive
<1>4. Runs(disk.used, Total) # {} => Runs(img.used, n + r) # {}
  <2>1. Runs(disk.used, Total) # {} => Runs(img.used, Total - Spent[Len(blk) + 1]) # {}
    BY <1>1 DEF Undisturbed
  <2> QED
    BY <1>2, <2>1, Zenon
<1>5. CASE free = {}
  <2>1. Ends("panic")
    BY <1>5, Zenon DEF AllocBlocks
  <2> HIDE DEF n
  <2>2. Reason
    BY <1>2, <1>3, <1>4, <1>5, RoomLeft DEF Reason
  <2> QED
    BY <1>1, <2>1, <2>2, GivenUp
<1>6. CASE free # {}
  <2>1. PICK s \in free :
        /\ \A q \in free : s <= q
        /\ img' = [img EXCEPT !.used = @ \cup Marked(s, n),
                              !.chunkFree = @ - n, !.devFree = @ - n,
                              !.stale = Fixed({"chunk", "spaceman"}, FixedByAlloc)]
        /\ blk' = Append(blk, s) /\ pc' = pc /\ exit' = exit
    BY <1>6, Zenon DEF AllocBlocks
  <2> HIDE DEF n
  <2>2. img'.used = img.used \cup Marked(s, n) /\ img'.files = img.files
    <3>1. {"used", "chunkFree", "devFree", "stale", "files"} \subseteq Fields
      BY DEF Fields
    <3>2. img = [f \in Fields |-> img[f]]
      BY <1>1, CopyFacts
    <3> QED
      BY <2>1, <3>1, <3>2
  <2>3. Runs(disk.used, Total) # {} => Runs(img'.used, r) # {}
    <3>1. s \in Runs(img.used, n) /\ \A q \in Runs(img.used, n) : s <= q
      BY <2>1
    <3> HIDE DEF free
    <3>2. Runs(img.used, n + r) # {} => Runs(img.used \cup Marked(s, n), r) # {}
      BY <1>3, <3>1, RoomLeft
    <3> QED
      BY <1>4, <2>2, <3>2, Zenon
  <2>4. Total - Spent[Len(blk') + 1] = r
    <3>1. Len(blk') = k + 1
      BY <1>1, <2>1
    <3> QED
      BY <1>2, <3>1
  <2>5. Runs(disk.used, Total) # {} => Runs(img'.used, Total - Spent[Len(blk') + 1]) # {}
    BY <2>3, <2>4, Zenon
  <2>6. /\ disk \in Formatted \/ (disk.kind = "container" /\ disk.files \in Nat \ {0})
        /\ Discovered(disk) /\ img.files = disk.files
        /\ exit = "panic" => Reason
    BY <1>1 DEF Undisturbed
  <2>7. Reason' = Reason /\ Discovered(disk)' = Discovered(disk)
    BY <1>1 DEF Reason
  <2> HIDE DEF free
  <2> QED
    BY <1>1, <2>1, <2>2, <2>5, <2>6, <2>7 DEF Undisturbed
<1> QED
  BY <1>5, <1>6

LEMMA GiveWriteData == IInv /\ Undisturbed /\ WriteData => Undisturbed'
<1> SUFFICES ASSUME IInv, Undisturbed, WriteData PROVE Undisturbed'
  OBVIOUS
<1>1. pc = "alloc" /\ pc' = "tree" /\ disk' = disk /\ exit' = exit
  BY DEF WriteData
<1>2. PICK c : img' = [img EXCEPT !.content = c]
  BY DEF WriteData
<1>3. img'.files = img.files
  <2>1. "files" \in Fields
    BY DEF Fields
  <2> QED
    BY <1>1, <1>2, <2>1, CopyFacts
<1> QED
  BY <1>1, <1>3 DEF Undisturbed, Reason

LEMMA GiveBuildTree == IInv /\ SpaceInv /\ Undisturbed /\ BuildTree => Undisturbed'
<1> SUFFICES ASSUME IInv, SpaceInv, Undisturbed, BuildTree PROVE Undisturbed'
  OBVIOUS
<1> DEFINE recs == Sorted(WithChildren(ReadNode(img.tree)) \o NewRecords(img.next, blk))
<1>1. pc = "tree" /\ disk' = disk
  BY DEF BuildTree
<1>2. CASE Fits(img.tree.toc, recs)
  <2>1. PICK t, x : img' = [img EXCEPT !.tree = t, !.stale = x]
    BY <1>2 DEF BuildTree
  <2>2. pc' = "refs" /\ exit' = exit
    BY <1>2 DEF BuildTree
  <2>3. img'.files = img.files
    <3>1. {"files", "tree", "stale"} \subseteq Fields
      BY DEF Fields
    <3> QED
      BY <1>1, <2>1, <3>1, CopyFacts
  <2> QED
    BY <1>1, <2>2, <2>3 DEF Undisturbed, Reason
<1>3. CASE ~ Fits(img.tree.toc, recs)
  <2>1. Ends("panic")
    BY <1>3 DEF BuildTree
  <2>2. /\ disk.kind = "container" /\ img.tree = disk.tree /\ img.next = disk.next
        /\ Keyed(ReadNode(disk.tree)) /\ disk.next \in Nat
    BY <1>1 DEF SpaceInv, Spending, Filling, Sound
  <2>3. ~ HasRoom(disk)
    <3>1. ~ Fits(disk.tree.toc, Sorted(WithChildren(ReadNode(disk.tree)) \o NewRecords(disk.next, blk)))
      BY <1>3, <2>2, Zenon
    <3> QED
      BY <2>2, <3>1, TreeFits
  <2>4. Reason
    BY <2>2, <2>3, FilesCounted DEF Reason
  <2> QED
    BY <1>1, <2>1, <2>4, GivenUp
<1> QED
  BY <1>2, <1>3

LEMMA GiveBuildReferences == IInv /\ SpaceInv /\ Undisturbed /\ BuildReferences => Undisturbed'
<1> SUFFICES ASSUME IInv, SpaceInv, Undisturbed, BuildReferences PROVE Undisturbed'
  OBVIOUS
<1> DEFINE recs == Sorted(ReadNode(img.refs) \o NewReferences(img.next, blk))
<1>1. pc = "refs" /\ disk' = disk
  BY DEF BuildReferences
<1>2. CASE Fits(img.refs.toc, recs)
  <2>1. PICK t, x : img' = [img EXCEPT !.refs = t, !.stale = x]
    BY <1>2 DEF BuildReferences
  <2>2. pc' = "count" /\ exit' = exit
    BY <1>2 DEF BuildReferences
  <2>3. img'.files = img.files
    <3>1. {"files", "refs", "stale"} \subseteq Fields
      BY DEF Fields
    <3> QED
      BY <1>1, <2>1, <3>1, CopyFacts
  <2> QED
    BY <1>1, <2>2, <2>3 DEF Undisturbed, Reason
<1>3. CASE ~ Fits(img.refs.toc, recs)
  <2>1. Ends("panic")
    BY <1>3 DEF BuildReferences
  <2>2. /\ disk.kind = "container" /\ img.refs = disk.refs /\ img.next = disk.next
        /\ Keyed(ReadNode(disk.refs)) /\ disk.next \in Nat
    BY <1>1 DEF SpaceInv, Spending, Filling, Sound
  <2>3. \A i \in 1 .. 6 : blk[i] \in Nat
    BY <1>1, FirstBlocks DEF SpaceInv, Spending
  <2>4. ~ HasRoom(disk)
    <3>1. ~ Fits(disk.refs.toc, Sorted(ReadNode(disk.refs) \o NewReferences(disk.next, blk)))
      BY <1>3, <2>2, Zenon
    <3> QED
      BY <2>2, <2>3, <3>1, ReferencesFit
  <2>5. Reason
    BY <2>2, <2>4, FilesCounted DEF Reason
  <2> QED
    BY <1>1, <2>1, <2>5, GivenUp
<1> QED
  BY <1>2, <1>3

LEMMA GiveCount == IInv /\ Undisturbed /\ Count => Undisturbed'
<1> SUFFICES ASSUME IInv, Undisturbed, Count PROVE Undisturbed'
  OBVIOUS
<1>1. /\ pc = "count" /\ pc' = "write" /\ disk' = disk /\ exit' = exit
      /\ img' = [img EXCEPT !.next = NextAfter(@), !.files = @ + 6, !.dirs = @ + 1,
                            !.links = @ + 1, !.allocCount = @ + Total, !.alloced = @ + Total,
                            !.stale = Fixed({"volume"}, {"volume"})]
  BY DEF Count
<1>2. img'.files = img.files + 6
  <2>1. {"next", "files", "dirs", "links", "allocCount", "alloced", "stale"} \subseteq Fields
    BY DEF Fields
  <2> QED
    BY <1>1, <2>1, CopyFacts
<1> QED
  BY <1>1, <1>2 DEF Undisturbed, Reason

LEMMA GiveWriteImage == IInv /\ SpaceInv /\ Undisturbed /\ WriteImage => Undisturbed'
<1> SUFFICES ASSUME IInv, SpaceInv, Undisturbed, WriteImage PROVE Undisturbed'
  OBVIOUS
<1>1. pc = "write" /\ disk' = img /\ pc' = "idle" /\ exit' = "ok"
  BY DEF WriteImage, Ends
<1>2. disk.kind = "container" /\ img.kind = "container" /\ img.files = disk.files + 6
  BY <1>1 DEF SpaceInv, Spending, Undisturbed, IInv
<1>3. img.files \in Nat \ {0}
  BY <1>2, FilesCounted
<1> QED
  BY <1>1, <1>2, <1>3 DEF Undisturbed

\* Calls only fail more often.
LEMMA FaultsGrow ==
    ASSUME faults \in Nat, [Next]_vars
    PROVE  faults' \in Nat /\ faults' >= faults
<1>1. CASE Inject
  <2>1. CASE LoadFails \/ WriteFails
    BY <2>1 DEF LoadFails, WriteFails
  <2>2. /\ Load => faults' = faults
        /\ AllocBlocks => faults' = faults
        /\ WriteData => faults' = faults
        /\ BuildTree => faults' = faults
        /\ BuildReferences => faults' = faults
        /\ Count => faults' = faults
        /\ WriteImage => faults' = faults
    BY Zenon DEF Load, AllocBlocks, WriteData, BuildTree, BuildReferences, Count, WriteImage
  <2> QED
    BY <1>1, <2>1, <2>2 DEF Inject
<1>2. CASE MountStep
  BY <1>2 DEF MountStep, Open, OpenFails, Close, GetFileInfo, Refuse, ListRefused, FillFails,
     ReadDirectory, Fault
<1>3. CASE CliStep
  BY <1>3 DEF CliStep, Begin, Abort, PrintEntry, PrintTree, EndDir, Fault
<1>4. CASE UNCHANGED vars
  BY <1>4 DEF vars
<1> QED
  BY <1>1, <1>2, <1>3, <1>4 DEF Next

LEMMA GiveStep == IInv /\ SpaceInv /\ GiveInv /\ [Next]_vars => GiveInv'
<1> SUFFICES ASSUME IInv, SpaceInv, GiveInv, [Next]_vars, faults' = 0 PROVE Undisturbed'
  BY FaultsGrow DEF GiveInv
<1>1. faults \in Nat /\ faults = 0 /\ Undisturbed
  BY FaultsGrow DEF GiveInv
<1>2. CASE Inject
  <2>1. CASE LoadFails
    BY <1>1, <2>1 DEF LoadFails
  <2>2. CASE WriteFails
    BY <1>1, <2>2 DEF WriteFails
  <2> QED
    BY <1>1, <1>2, <2>1, <2>2, GiveLoad, GiveAlloc, GiveWriteData, GiveBuildTree,
       GiveBuildReferences, GiveCount, GiveWriteImage DEF Inject
<1>3. CASE UNCHANGED fixVars
  BY <1>1, <1>3 DEF fixVars, Undisturbed, Reason
<1> QED
  BY <1>2, <1>3 DEF Next, vars

(* Unless a call fails, the injector only gives up on an image that is not *)
(* a container it can use, that it has filled before, or that has no room  *)
(* for the blocks in a row, whatever the holes in it: the first runs it    *)
(* finds leave enough for the next ones, and the records it then builds    *)
(* fit the nodes (main.rs:576, 380).                                       *)
THEOREM GivesUpOnlyForAReason == Spec => []GivesUpForAReason
<1>1. Spec => [](IInv /\ SpaceInv)
  BY OnlyInjectorWrites, Inductive, SpaceInductive, PTL
<1>2. Spec => []GiveInv
  BY <1>1, GiveInit, GiveStep, PTL DEF Spec
<1>3. GiveInv => GivesUpForAReason
  BY DEF GiveInv, Undisturbed, Reason, Runs, GivesUpForAReason
<1> QED
  BY <1>2, <1>3, PTL

----------------------------------------------------------------------------
(* A directory that a tree in key order can hold: its entries have names,  *)
(* no two the same.                                                        *)
Named(entries) ==
    /\ entries \in Seq({entries[i] : i \in DOMAIN entries})
    /\ \A i \in DOMAIN entries : entries[i].name \in Nat \ {NoMarker}
    /\ \A i, j \in DOMAIN entries : i # j => entries[i].name # entries[j].name

\* Names that ascend.
Climbing(w) ==
    /\ \A i \in 1 .. Len(w) : w[i].name \in Nat \ {NoMarker}
    /\ \A i, j \in 1 .. Len(w) : i < j => w[i].name < w[j].name

LEMMA ByNameFacts ==
    ASSUME NEW es, Named(es)
    PROVE  LET S == {es[i] : i \in DOMAIN es}
               w == ByName(es)
           IN  /\ w \in Seq(S) /\ Len(w) = Len(es) /\ Len(es) \in Nat
               /\ Climbing(w)
               /\ S = {w[i] : i \in DOMAIN w}
<1> DEFINE S == {es[i] : i \in DOMAIN es}
           D == 1 .. Len(es)
           E == {p \in (DOMAIN es) \X (DOMAIN es) :
                   LET a == es[p[1]].name  b == es[p[2]].name IN a < b \/ (a = b /\ p[1] < p[2])}
           w == ByName(es)
<1>1. es \in Seq(S) /\ DOMAIN es = D /\ Len(es) \in Nat
  BY DEF Named
<1>2. /\ \A i \in D : es[i].name \in Nat /\ es[i].name # NoMarker
      /\ \A i, j \in D : i # j => es[i].name # es[j].name
  BY <1>1 DEF Named
<1>3. \A j, k \in D : <<j, k>> \in E <=> es[j].name < es[k].name
  <2> TAKE j, k \in D
  <2>1. <<j, k>> \in E <=> (es[j].name < es[k].name \/ (es[j].name = es[k].name /\ j < k))
    BY <1>1
  <2>2. ~ (es[j].name = es[k].name /\ j < k)
    <3> SUFFICES ASSUME es[j].name = es[k].name, j < k PROVE FALSE
      OBVIOUS
    <3>1. j # k
      BY <1>1
    <3> QED
      BY <1>2, <3>1
  <2> QED
    BY <2>1, <2>2
<1>4. w = Arranged(es, E)
  BY DEF ByName
<1> HIDE DEF S, D, E, w
<1>5. PICK p \in [D -> D] :
         /\ Arranged(es, E) = [i \in D |-> es[p[i]]]
         /\ \A k \in D : \E i \in D : p[i] = k
         /\ \A i, j \in D : i < j => <<p[i], p[j]>> \in E
  <2>1. \A j, k \in D : j # k => <<j, k>> \in E \/ <<k, j>> \in E
    BY <1>2, <1>3
  <2>2. \A k \in D : <<k, k>> \notin E
    BY <1>2, <1>3
  <2>3. \A i, j, k \in D : <<i, j>> \in E /\ <<j, k>> \in E => <<i, k>> \in E
    BY <1>2, <1>3
  <2>4. PICK p \in [D -> D] :
           /\ \A t : DOMAIN t = D => Arranged(t, E) = [i \in D |-> t[p[i]]]
           /\ \A k \in D : \E i \in D : p[i] = k
           /\ \A i, j \in D : i < j => <<p[i], p[j]>> \in E
    BY <1>1, <2>1, <2>2, <2>3, ArrangedFacts DEF D
  <2> QED
    BY <1>1, <2>4
<1>6. w = [i \in D |-> es[p[i]]]
  BY <1>4, <1>5
<1>7. \A i \in D : w[i] = es[p[i]] /\ p[i] \in D
  BY <1>6
<1>8. \A i \in D : es[i] \in S
  BY <1>1 DEF S
<1>9. w \in Seq(S) /\ Len(w) = Len(es) /\ DOMAIN w = D
  <2>1. w \in [1 .. Len(es) -> S]
    BY <1>6, <1>7, <1>8 DEF D
  <2> QED
    BY <1>1, <2>1 DEF D
<1>10. Climbing(w)
  <2>1. \A i \in D : w[i].name \in Nat \ {NoMarker}
    BY <1>2, <1>7
  <2>2. ASSUME NEW i \in D, NEW j \in D, i < j PROVE w[i].name < w[j].name
    <3>1. <<p[i], p[j]>> \in E
      BY <1>5, <2>2
    <3>2. p[i] \in D /\ p[j] \in D /\ w[i] = es[p[i]] /\ w[j] = es[p[j]]
      BY <1>7
    <3>3. es[p[i]].name < es[p[j]].name
      BY <1>3, <3>1, <3>2
    <3> QED
      BY <3>2, <3>3
  <2> QED
    BY <1>9, <2>1, <2>2 DEF Climbing, D
<1>11. S = {w[i] : i \in DOMAIN w}
  <2>1. \A i \in DOMAIN w : w[i] \in S
    BY <1>7, <1>8, <1>9
  <2>2. \A i \in D : \E j \in D : w[j] = es[i]
    BY <1>5, <1>7
  <2> QED
    BY <1>1, <1>9, <2>1, <2>2 DEF S
<1> QED
  BY <1>1, <1>9, <1>10, <1>11 DEF S, w

LEMMA Stretch ==
    ASSUME NEW S, NEW s \in Seq(S), NEW f \in Nat, NEW b \in Nat, f <= b, b <= Len(s)
    PROVE  /\ SubSeq(s, f + 1, b) \in Seq(S) /\ Len(SubSeq(s, f + 1, b)) = b - f
           /\ \A i \in 1 .. b - f : SubSeq(s, f + 1, b)[i] = s[f + i]
<1>1. \A i \in f + 1 .. b : i \in 1 .. Len(s)
  OBVIOUS
<1>2. \A i \in f + 1 .. b : s[i] \in S
  BY <1>1, ElementOfSeq
<1>3. /\ SubSeq(s, f + 1, b) \in Seq(S)
      /\ Len(SubSeq(s, f + 1, b)) = IF f + 1 <= b THEN b - (f + 1) + 1 ELSE 0
      /\ \A i \in 1 .. b - (f + 1) + 1 : SubSeq(s, f + 1, b)[i] = s[f + 1 + i - 1]
  BY <1>2, SubSeqProperties
<1>4. b - (f + 1) + 1 = b - f /\ (~ f + 1 <= b => b - f = 0)
  OBVIOUS
<1>5. \A i \in 1 .. b - f : f + 1 + i - 1 = f + i
  OBVIOUS
<1> QED
  BY <1>3, <1>4, <1>5

\* What lies behind a marker, and the page that is taken from it.
LEMMA BehindMarker ==
    ASSUME NEW S, NEW w \in Seq(S), Climbing(w), NEW c \in 0 .. Len(w),
           NEW from, from = IF c = 0 THEN NoMarker ELSE w[c].name
    PROVE  Behind(w, from) = SubSeq(w, c + 1, Len(w))
<1> DEFINE below == {i \in DOMAIN w : w[i].name <= from}
<1>1. Len(w) \in Nat /\ DOMAIN w = 1 .. Len(w) /\ c \in Nat /\ c <= Len(w)
  OBVIOUS
<1>2. below = 1 .. c
  <2>1. ASSUME NEW i \in 1 .. Len(w) PROVE w[i].name <= from <=> i <= c
    <3>1. w[i].name \in Nat /\ w[i].name # 0
      BY DEF Climbing, NoMarker
    <3>2. CASE c = 0
      BY <3>1, <3>2 DEF NoMarker
    <3>3. CASE c # 0
      <4>1. c \in 1 .. Len(w) /\ from = w[c].name /\ w[c].name \in Nat
        BY <1>1, <3>3 DEF Climbing
      <4>2. CASE i < c
        BY <3>1, <4>1, <4>2 DEF Climbing
      <4>3. CASE c < i
        <5>1. w[c].name < w[i].name
          BY <4>1, <4>3 DEF Climbing
        <5> QED
          BY <1>1, <3>1, <4>1, <4>3, <5>1
      <4>4. CASE i = c
        BY <1>1, <3>1, <4>1, <4>4
      <4> QED
        BY <1>1, <4>2, <4>3, <4>4
    <3> QED
      BY <3>2, <3>3
  <2> QED
    BY <1>1, <2>1
<1> HIDE DEF below
<1>3. Cardinality(below) = c
  <2>1. 1 \in Int /\ c \in Int
    BY <1>1
  <2>2. Cardinality(1 .. c) = IF 1 > c THEN 0 ELSE c - 1 + 1
    BY <2>1, FS_Interval, Zenon
  <2> QED
    BY <1>1, <1>2, <2>2
<1>4. 1 + Cardinality(below) = c + 1
  BY <1>1, <1>3
<1> QED
  BY <1>4, Zenon DEF Behind, below

LEMMA NextPage ==
    ASSUME NEW S, NEW w \in Seq(S), NEW c \in 0 .. Len(w), NEW m \in 0 .. Len(w) - c
    PROVE  LET rest == SubSeq(w, c + 1, Len(w))
               page == SubSeq(rest, 1, m)
           IN  /\ Len(rest) = Len(w) - c
               /\ Len(page) = m
               /\ m > 0 => page[m] = w[c + m]
               /\ SubSeq(w, 1, c) \o page = SubSeq(w, 1, c + m)
<1> DEFINE rest == SubSeq(w, c + 1, Len(w))
           page == SubSeq(rest, 1, m)
           same == SubSeq(w, c + 1, c + m)
<1>1. Len(w) \in Nat /\ c \in Nat /\ c <= Len(w) /\ m \in Nat /\ m <= Len(w) - c
      /\ c + m \in Nat /\ c <= c + m /\ c + m <= Len(w) /\ c + m - c = m
  OBVIOUS
<1>2. /\ rest \in Seq(S) /\ Len(rest) = Len(w) - c
      /\ \A i \in 1 .. Len(w) - c : rest[i] = w[c + i]
  BY <1>1, Stretch
<1>3. /\ same \in Seq(S) /\ Len(same) = c + m - c
      /\ \A i \in 1 .. c + m - c : same[i] = w[c + i]
  BY <1>1, Stretch
<1> HIDE DEF rest, same
<1>4. /\ page \in Seq(S) /\ Len(page) = m
      /\ \A i \in 1 .. m : page[i] = rest[i]
  <2>1. 0 \in Nat /\ 0 <= m /\ m <= Len(rest)
    BY <1>1, <1>2
  <2>2. /\ SubSeq(rest, 0 + 1, m) \in Seq(S) /\ Len(SubSeq(rest, 0 + 1, m)) = m - 0
        /\ \A i \in 1 .. m - 0 : SubSeq(rest, 0 + 1, m)[i] = rest[0 + i]
    BY <1>1, <1>2, <2>1, Stretch
  <2>3. 0 + 1 = 1 /\ m - 0 = m /\ \A i \in 1 .. m : 0 + i = i
    BY <1>1
  <2> QED
    BY <2>2, <2>3
<1> HIDE DEF page
<1>5. ASSUME NEW i \in 1 .. m PROVE page[i] = w[c + i]
  <2>1. i \in 1 .. Len(w) - c
    BY <1>1
  <2> QED
    BY <1>2, <1>4, <2>1
<1>6. page = same
  <2>1. Len(page) = Len(same) /\ \A i \in 1 .. Len(page) : page[i] = same[i]
    BY <1>1, <1>3, <1>4, <1>5
  <2> QED
    BY <1>3, <1>4, <2>1, SeqEqual
<1>7. SubSeq(w, 1, c) \o same = SubSeq(w, 1, c + m)
  <2>1. 1 \in 1 .. Len(w) + 1 /\ c \in 1 - 1 .. Len(w) /\ c + m \in c .. Len(w)
    BY <1>1
  <2> QED
    BY <2>1, ConcatAdjacentSubSeq, Zenon DEF same
<1>8. m > 0 => page[m] = w[c + m]
  BY <1>1, <1>5
<1> QED
  BY <1>2, <1>4, <1>6, <1>7, <1>8, Zenon DEF rest, page

(* What was delivered is the sorted listing up to the marker; behind the   *)
(* last page it is all of it.                                              *)
ListInv ==
    /\ inode = Closed => given = <<>>
    /\ inode # Closed /\ Named(Entries) =>
          LET w == ByName(Entries) IN
          /\ \E c \in 0 .. Len(w) :
                /\ given = SubSeq(w, 1, c)
                /\ marker = IF c = 0 THEN NoMarker ELSE w[c].name
          /\ reply.op = "list" /\ reply.status = "ok" /\ reply.end => given = w

LEMMA ListingOfAll == Named(Entries) => Filled(Len(Entries)) = ByName(Entries)
<1> SUFFICES ASSUME Named(Entries) PROVE Filled(Len(Entries)) = ByName(Entries)
  OBVIOUS
<1> DEFINE es == Entries
           S == {es[i] : i \in DOMAIN es}
<1>1. es \in Seq(S)
  BY DEF Named
<1> HIDE DEF es, S
<1>2. SubSeq(es, 1, Len(es)) = es
  BY <1>1, SubSeqFull
<1> QED
  BY <1>2, Zenon DEF Filled, es

LEMMA NothingGiven ==
    ASSUME NEW es, Named(es)
    PROVE  \E c \in 0 .. Len(ByName(es)) :
              /\ <<>> = SubSeq(ByName(es), 1, c)
              /\ NoMarker = IF c = 0 THEN NoMarker ELSE ByName(es)[c].name
<1>1. Len(ByName(es)) \in Nat
  BY ByNameFacts
<1>2. SubSeq(ByName(es), 1, 0) = <<>>
  BY SubSeqEmpty
<1>3. 0 \in 0 .. Len(ByName(es))
  BY <1>1
<1> QED
  BY <1>2, <1>3

LEMMA ListInvInit == Init => ListInv
  BY DEF Init, MountInit, ListInv

LEMMA ListInvQuiet ==
    ASSUME ListInv, UNCHANGED <<disk, inode, marker, given>>,
           reply' = reply \/ ~ (reply'.op = "list" /\ reply'.status = "ok")
    PROVE  ListInv'
<1>1. Entries' = Entries
  BY EntriesStable
<1>2. Named(Entries)' = Named(Entries) /\ ByName(Entries)' = ByName(Entries)
  BY <1>1 DEF Named, ByName
<1>3. (inode = Closed)' = (inode = Closed)
  OBVIOUS
<1> QED
  BY <1>2, <1>3, Zenon DEF ListInv

LEMMA ListInvRead ==
    ASSUME BufferInv, ListInv, NEW rewind \in BOOLEAN, ReadDirectory(rewind), UNCHANGED disk
    PROVE  ListInv'
<1> DEFINE from == Place(rewind)
           now == IF Acquired(from) THEN Filled(Len(Entries)) ELSE buffer.entries
           w == ByName(Entries)
           n == Len(w)
           S == {Entries[i] : i \in DOMAIN Entries}
<1>1. inode # Closed /\ inode' = inode /\ Entries' = Entries
  BY EntriesStable DEF ReadDirectory
<1>2. SUFFICES ASSUME Named(Entries)
               PROVE  /\ \E c \in 0 .. n : /\ given' = SubSeq(w, 1, c)
                                            /\ marker' = IF c = 0 THEN NoMarker ELSE w[c].name
                      /\ reply'.op = "list" /\ reply'.status = "ok" /\ reply'.end => given' = w
  <2>1. Named(Entries)' = Named(Entries) /\ ByName(Entries)' = ByName(Entries)
    BY <1>1 DEF Named, ByName
  <2> QED
    BY <1>1, <2>1, Zenon DEF ListInv
<1>3. w \in Seq(S) /\ n \in Nat /\ Climbing(w)
  BY <1>2, ByNameFacts
<1>4. now = w
  <2>1. CASE Acquired(from)
    BY <1>2, <2>1, ListingOfAll
  <2>2. CASE ~ Acquired(from)
    <3>1. marker # NoMarker
      BY <2>2 DEF Acquired, Place
    <3>2. buffer.entries = Filled(Len(Entries))
      BY <1>1, <3>1 DEF BufferInv, Whole, Buffer
    <3> QED
      BY <1>2, <2>2, <3>2, ListingOfAll
  <2> QED
    BY <2>1, <2>2
<1>5. PICK c \in 0 .. n :
         /\ Restarted(from) = SubSeq(w, 1, c)
         /\ from = IF c = 0 THEN NoMarker ELSE w[c].name
  <2>1. PICK d \in 0 .. n : /\ given = SubSeq(w, 1, d)
                            /\ marker = IF d = 0 THEN NoMarker ELSE w[d].name
    BY <1>1, <1>2 DEF ListInv
  <2>2. SubSeq(w, 1, 0) = <<>> /\ 0 \in 0 .. n
    BY <1>3, SubSeqEmpty
  <2> HIDE DEF w, n, S
  <2>3. CASE from = NoMarker
    BY <2>2, <2>3 DEF Restarted
  <2>4. CASE from # NoMarker
    BY <2>1, <2>4 DEF Place, Restarted
  <2> QED
    BY <2>3, <2>4
<1> DEFINE rest == SubSeq(w, c + 1, n)
<1>6. Behind(w, from) = rest
  <2> HIDE DEF from, w, S
  <2> QED
    BY <1>3, <1>5, BehindMarker
<1>7. PICK size \in PageSizes :
         LET page == SubSeq(rest, 1, IF size < Len(rest) THEN size ELSE Len(rest)) IN
         /\ given' = Restarted(from) \o page
         /\ marker' = IF page = <<>> THEN from ELSE page[Len(page)].name
         /\ reply' = [op |-> "list", status |-> "ok", end |-> page = rest]
  <2>1. PICK size \in PageSizes :
         LET page == SubSeq(Behind(now, from), 1,
                            IF size < Len(Behind(now, from)) THEN size ELSE Len(Behind(now, from))) IN
         /\ given' = Restarted(from) \o page
         /\ marker' = IF page = <<>> THEN from ELSE page[Len(page)].name
         /\ reply' = [op |-> "list", status |-> "ok", end |-> page = Behind(now, from)]
    BY Zenon DEF ReadDirectory
  <2> HIDE DEF rest, now, w, from
  <2> QED
    BY <1>4, <1>6, <2>1, Zenon
<1> DEFINE m == IF size < Len(rest) THEN size ELSE Len(rest)
           page == SubSeq(rest, 1, m)
<1>8. Len(rest) = n - c
  <2>1. 0 \in 0 .. Len(w) - c
    BY <1>3
  <2> HIDE DEF w, S
  <2> QED
    BY <1>3, <2>1, NextPage
<1> HIDE DEF S, rest
<1>9. m \in 0 .. n - c /\ (m = Len(rest) \/ m < n - c)
  <2>1. size \in Nat
    BY PageSizesAssumption
  <2> HIDE DEF n
  <2> QED
    BY <1>3, <1>5, <1>8, <2>1
<1> HIDE DEF m
<1>10. /\ Len(page) = m
       /\ m > 0 => page[m] = w[c + m]
       /\ SubSeq(w, 1, c) \o page = SubSeq(w, 1, c + m)
  <2> HIDE DEF w
  <2> QED
    BY <1>3, <1>9, NextPage DEF rest
<1>11. /\ given' = Restarted(from) \o page
       /\ marker' = IF page = <<>> THEN from ELSE page[Len(page)].name
       /\ reply' = [op |-> "list", status |-> "ok", end |-> page = rest]
  BY <1>7, Zenon DEF m
<1> HIDE DEF page, w, from
<1>12. given' = SubSeq(w, 1, c + m)
  BY <1>5, <1>10, <1>11
<1>13. marker' = IF c + m = 0 THEN NoMarker ELSE w[c + m].name
  <2>1. CASE m = 0
    <3>1. page = <<>>
      <4>1. page = SubSeq(rest, 1, 0)
        BY <2>1 DEF page
      <4> QED
        BY <4>1, SubSeqEmpty
    <3>2. c + m = c
      BY <1>3, <1>5, <2>1 DEF n
    <3> QED
      BY <1>5, <1>11, <3>1, <3>2
  <2>2. CASE m # 0
    <3>1. m > 0 /\ c + m # 0
      BY <1>3, <1>5, <1>9, <2>2 DEF n
    <3>2. page # <<>>
      BY <1>10, <3>1
    <3> QED
      BY <1>10, <1>11, <3>1, <3>2
  <2> QED
    BY <2>1, <2>2
<1>14. c + m \in 0 .. n
  BY <1>3, <1>5, <1>9 DEF n
<1>15. ASSUME reply'.end PROVE given' = w
  <2>1. page = rest
    BY <1>11, <1>15
  <2>2. m = n - c
    BY <1>8, <1>10, <2>1
  <2>3. c + m = n
    BY <1>3, <1>5, <2>2 DEF n
  <2> QED
    BY <1>3, <1>12, <2>3, SubSeqFull DEF n
<1> QED
  BY <1>12, <1>13, <1>14, <1>15

LEMMA ListInvMount == BufferInv /\ ListInv /\ MountStep /\ UNCHANGED fixVars => ListInv'
<1> SUFFICES ASSUME BufferInv, ListInv, MountStep, UNCHANGED fixVars PROVE ListInv'
  OBVIOUS
<1> USE DEF fixVars
<1>1. ASSUME NEW path \in Paths, Open(path) PROVE ListInv'
  <2>1. marker' = NoMarker /\ given' = <<>> /\ reply'.op = "open"
    BY <1>1 DEF Open, BufferInv, ListInv
  <2>2. Named(Entries)' =>
           \E c \in 0 .. Len(ByName(Entries')) :
              /\ <<>> = SubSeq(ByName(Entries'), 1, c)
              /\ NoMarker = IF c = 0 THEN NoMarker ELSE ByName(Entries')[c].name
    BY NothingGiven
  <2> QED
    BY <2>1, <2>2 DEF ListInv
<1>2. ASSUME OpenFails PROVE ListInv'
  BY <1>2, ListInvQuiet DEF OpenFails, Answer
<1>3. ASSUME Close PROVE ListInv'
  BY <1>3 DEF Close, ListInv
<1>4. ASSUME GetFileInfo \/ Refuse \/ ListRefused PROVE ListInv'
  <2>1. UNCHANGED <<disk, inode, marker, given>> /\ ~ (reply'.op = "list" /\ reply'.status = "ok")
    BY <1>4 DEF GetFileInfo, Refuse, ListRefused, Answer
  <2> QED
    BY <2>1, ListInvQuiet
<1>5. ASSUME NEW rewind \in BOOLEAN, FillFails(rewind) PROVE ListInv'
  <2>1. inode # Closed /\ inode' = inode /\ reply'.status # "ok"
    BY <1>5 DEF FillFails, Answer
  <2>2. Place(rewind) = NoMarker
    <3>1. ~ buffer.made \/ Place(rewind) = NoMarker
      BY <1>5 DEF FillFails, Acquired
    <3>2. CASE marker = NoMarker
      BY <3>2 DEF Place
    <3>3. CASE marker # NoMarker
      <4>1. buffer.made
        BY <2>1, <3>3 DEF BufferInv, Whole, Buffer
      <4> QED
        BY <3>1, <4>1
    <3> QED
      BY <3>2, <3>3
  <2>3. marker' = NoMarker /\ given' = <<>>
    BY <1>5, <2>2 DEF FillFails, Restarted
  <2>4. Named(Entries)' =>
           \E c \in 0 .. Len(ByName(Entries')) :
              /\ <<>> = SubSeq(ByName(Entries'), 1, c)
              /\ NoMarker = IF c = 0 THEN NoMarker ELSE ByName(Entries')[c].name
    BY NothingGiven
  <2> QED
    BY <2>1, <2>3, <2>4 DEF ListInv
<1>6. ASSUME NEW rewind \in BOOLEAN, ReadDirectory(rewind) PROVE ListInv'
  BY <1>6, ListInvRead
<1> QED
  BY <1>1, <1>2, <1>3, <1>4, <1>5, <1>6 DEF MountStep

LEMMA ListInvNext == BufferInv /\ ListInv /\ [Next]_vars => ListInv'
<1> SUFFICES ASSUME BufferInv, ListInv, [Next]_vars PROVE ListInv'
  OBVIOUS
<1>1. CASE Inject /\ UNCHANGED <<mountVars, cliVars>>
  <2>1. inode = Closed
    <3>1. SUFFICES ASSUME pc = "idle", runs = MaxRuns PROVE FALSE
      BY <3>1 DEF BufferInv
    <3>2. ~ (runs < MaxRuns)
      BY <3>1, BoundsAssumption
    <3> QED
      BY <1>1, <3>1, <3>2 DEF Inject, Load, LoadFails, AllocBlocks, WriteData, BuildTree,
         BuildReferences, Count, WriteImage, WriteFails
  <2> QED
    BY <1>1, <2>1 DEF ListInv, mountVars
<1>2. CASE MountStep /\ status = "idle" /\ UNCHANGED <<fixVars, cliVars>>
  BY <1>2, ListInvMount
<1>3. CASE CliStep /\ UNCHANGED <<fixVars, mountVars>>
  BY <1>3, ListInvQuiet DEF fixVars, mountVars
<1>4. CASE UNCHANGED vars
  BY <1>4, ListInvQuiet DEF vars, fixVars, mountVars
<1> QED
  BY <1>1, <1>2, <1>3, <1>4 DEF Next

(* An enumeration that reaches its end has delivered every entry of the    *)
(* directory once, in the order of names, for a directory of any size with *)
(* pages of any sizes, whichever fills failed before and however it was    *)
(* rewound (fs.rs:190-219), if no two entries have the same name.          *)
THEOREM EnumerationComplete == Spec => [](Named(Entries) => ListingComplete)
<1>1. BufferInv /\ ListInv /\ Named(Entries) => ListingComplete
  <2> SUFFICES ASSUME BufferInv, ListInv, Named(Entries),
                      reply.op = "list", reply.status = "ok", reply.end
               PROVE  /\ Len(given) = Len(Entries)
                      /\ \A i, j \in DOMAIN given : i < j => given[i].name < given[j].name
                      /\ {Entries[k] : k \in DOMAIN Entries} = {given[i] : i \in DOMAIN given}
    BY DEF ListingComplete
  <2>1. given = ByName(Entries)
    BY DEF BufferInv, ListInv
  <2> DEFINE w == ByName(Entries)
             S == {Entries[i] : i \in DOMAIN Entries}
  <2>2. w \in Seq(S) /\ Len(w) = Len(Entries) /\ Climbing(w) /\ S = {w[i] : i \in DOMAIN w}
    BY ByNameFacts
  <2> HIDE DEF w, S
  <2>3. \A i, j \in DOMAIN w : i < j => w[i].name < w[j].name
    BY <2>2 DEF Climbing
  <2> QED
    BY <2>1, <2>2, <2>3, Zenon DEF w, S
<1> QED
  BY <1>1, BufferInvInit, BufferInvNext, ListInvInit, ListInvNext, PTL DEF Spec

----------------------------------------------------------------------------
\* The search for an object's records, in a tree of any size.
\* Where the search begins and where it stops.
Between(s, recs, id, type, lo, hi) ==
    /\ \A p \in DOMAIN recs : p < lo => PrefixBefore(recs[p], id, type)
    /\ lo \in DOMAIN recs => ~ PrefixBefore(recs[lo], id, type)
    /\ \A p \in lo .. hi - 1 : p \in DOMAIN recs /\ recs[p].id = id /\ recs[p].type = type
    /\ hi \in DOMAIN recs => recs[hi].id # id \/ recs[hi].type # type
    /\ Len(s) = hi - lo /\ DOMAIN s = 1 .. hi - lo
    /\ \A i \in 1 .. hi - lo : s[i] = recs[lo - 1 + i]

LEMMA ScanBounds ==
    ASSUME NEW recs, Keyed(recs), NEW id, NEW type
    PROVE  \E lo \in 1 .. Len(recs) + 1 : \E hi \in lo .. Len(recs) + 1 :
              Between(Scan(recs, id, type), recs, id, type, lo, hi)
<1> DEFINE end == Len(recs) + 1
           A == {p \in 1 .. end : p < end => ~ PrefixBefore(recs[p], id, type)}
           lo == First(A)
           B == {p \in lo .. end : p < end => recs[p].id # id \/ recs[p].type # type}
           hi == First(B)
<1>1. Len(recs) \in Nat /\ DOMAIN recs = 1 .. Len(recs)
  BY KeyedLen
<1>2. A \in SUBSET Nat /\ end \in A
  BY <1>1
<1>3. lo \in A /\ \A m \in A : lo <= m
  <2> HIDE DEF A
  <2> QED
    BY <1>2, LeastNumber
<1>4. lo \in 1 .. end
  BY <1>3
<1>5. \A p \in DOMAIN recs : p < lo => PrefixBefore(recs[p], id, type)
  BY <1>1, <1>3, <1>4
<1>6. lo \in DOMAIN recs => ~ PrefixBefore(recs[lo], id, type)
  BY <1>1, <1>3
<1> HIDE DEF A, lo
<1>7. B \in SUBSET Nat /\ end \in B
  BY <1>1, <1>4
<1>8. hi \in B /\ \A m \in B : hi <= m
  <2> HIDE DEF B
  <2> QED
    BY <1>7, LeastNumber
<1>9. hi \in lo .. end
  BY <1>8
<1>10. hi \in DOMAIN recs => recs[hi].id # id \/ recs[hi].type # type
  BY <1>1, <1>8
<1>11. ASSUME NEW p \in lo .. hi - 1
       PROVE  p \in DOMAIN recs /\ recs[p].id = id /\ recs[p].type = type
  <2>1. p \in lo .. end /\ p < hi /\ p < end /\ p \in Nat /\ hi \in Nat
    BY <1>1, <1>4, <1>9
  <2>2. p \notin B
    BY <1>8, <2>1
  <2> QED
    BY <1>1, <1>4, <2>1, <2>2
<1> HIDE DEF B, hi
<1>12. PICK f \in Nat : lo = f + 1
  <2>1. lo - 1 \in Nat /\ lo = (lo - 1) + 1
    BY <1>1, <1>4
  <2> QED
    BY <2>1
<1>13. PICK b \in Nat : b = hi - 1 /\ f <= b /\ b <= Len(recs)
  <2>1. hi - 1 \in Nat /\ f <= hi - 1 /\ hi - 1 <= Len(recs)
    BY <1>1, <1>4, <1>9, <1>12
  <2> QED
    BY <2>1
<1>14. /\ Len(SubSeq(recs, f + 1, b)) = b - f
       /\ \A i \in 1 .. b - f : SubSeq(recs, f + 1, b)[i] = recs[f + i]
       /\ SubSeq(recs, f + 1, b) \in Seq({recs[i] : i \in DOMAIN recs})
  BY <1>13, Stretch DEF Keyed
<1>15. Scan(recs, id, type) = SubSeq(recs, f + 1, b)
  BY <1>12, <1>13, Zenon DEF Scan, lo, hi, A, B
<1> DEFINE s == SubSeq(recs, f + 1, b)
<1>16. Len(s) = b - f /\ DOMAIN s = 1 .. b - f /\ \A i \in 1 .. b - f : s[i] = recs[f + i]
  BY <1>14, LenProperties
<1>17. Scan(recs, id, type) = s
  BY <1>15 DEF s
<1> HIDE DEF s
<1>18. b - f = hi - lo /\ \A i : lo - 1 + i = f + i
  BY <1>1, <1>4, <1>9, <1>12, <1>13
<1>19. /\ Len(s) = hi - lo /\ DOMAIN s = 1 .. hi - lo
       /\ \A i \in 1 .. hi - lo : s[i] = recs[lo - 1 + i]
  BY <1>16, <1>18
<1> QED
  BY <1>4, <1>5, <1>6, <1>9, <1>10, <1>11, <1>17, <1>19, Zenon DEF Between

\* The records of s are neighbours in recs, all with the given id and type.
TakenFrom(s, recs, id, type) ==
    \E k \in Nat : \A i \in DOMAIN s :
        /\ k + i \in DOMAIN recs /\ s[i] = recs[k + i]
        /\ recs[k + i].id = id /\ recs[k + i].type = type

LEMMA ScanFacts ==
    ASSUME NEW recs, Keyed(recs), NEW id, NEW type
    PROVE  LET s == Scan(recs, id, type)
           IN  Len(s) \in Nat /\ DOMAIN s = 1 .. Len(s) /\ TakenFrom(s, recs, id, type)
<1> DEFINE s == Scan(recs, id, type)
<1>0. PICK lo \in 1 .. Len(recs) + 1 : \E hi \in lo .. Len(recs) + 1 : Between(s, recs, id, type, lo, hi)
  BY ScanBounds, Zenon
<1>p. PICK hi \in lo .. Len(recs) + 1 : Between(s, recs, id, type, lo, hi)
  BY <1>0
<1> HIDE DEF s
<1>1. /\ \A p \in lo .. hi - 1 : p \in DOMAIN recs /\ recs[p].id = id /\ recs[p].type = type
      /\ Len(s) = hi - lo /\ DOMAIN s = 1 .. hi - lo
      /\ \A i \in 1 .. hi - lo : s[i] = recs[lo - 1 + i]
  BY <1>p, Zenon DEF Between
<1>2. Len(recs) \in Nat /\ lo - 1 \in Nat /\ hi - lo \in Nat
  BY KeyedLen
<1>3. \A i \in 1 .. hi - lo : lo - 1 + i \in lo .. hi - 1
  BY <1>2
<1>4. Len(s) \in Nat /\ DOMAIN s = 1 .. Len(s)
  BY <1>1, <1>2
<1>5. \A i \in DOMAIN s : /\ (lo - 1) + i \in DOMAIN recs /\ s[i] = recs[(lo - 1) + i]
                          /\ recs[(lo - 1) + i].id = id /\ recs[(lo - 1) + i].type = type
  BY <1>1, <1>3
<1>6. TakenFrom(s, recs, id, type)
  BY <1>2, <1>5, Zenon DEF TakenFrom
<1> QED
  BY <1>4, <1>6, Zenon DEF s

\* A scan of a tree whose keys ascend misses nothing.
LEMMA ScanAll ==
    ASSUME NEW recs, Keyed(recs), Ascending(recs), NEW id \in Nat, NEW type \in Nat,
           NEW r \in OfType(recs, type), r.id = id
    PROVE  LET s == Scan(recs, id, type) IN \E i \in DOMAIN s : s[i] = r
<1> DEFINE s == Scan(recs, id, type)
<1>0. PICK lo \in 1 .. Len(recs) + 1 : \E hi \in lo .. Len(recs) + 1 : Between(s, recs, id, type, lo, hi)
  BY ScanBounds, Zenon
<1>p. PICK hi \in lo .. Len(recs) + 1 : Between(s, recs, id, type, lo, hi)
  BY <1>0
<1> HIDE DEF s
<1>1. /\ \A p \in DOMAIN recs : p < lo => PrefixBefore(recs[p], id, type)
      /\ lo \in DOMAIN recs => ~ PrefixBefore(recs[lo], id, type)
      /\ hi \in DOMAIN recs => recs[hi].id # id \/ recs[hi].type # type
      /\ DOMAIN s = 1 .. hi - lo
      /\ \A i \in 1 .. hi - lo : s[i] = recs[lo - 1 + i]
  BY <1>p, Zenon DEF Between
<1>2. PICK p \in DOMAIN recs : r = recs[p] /\ recs[p].type = type
  BY DEF OfType
<1>3. /\ Len(recs) \in Nat /\ DOMAIN recs = 1 .. Len(recs)
      /\ \A q \in DOMAIN recs : recs[q].id \in Nat /\ recs[q].type \in Nat
  BY KeyedLen DEF Keyed
<1>4. ~ PrefixBefore(recs[p], id, type)
  BY <1>2, <1>3 DEF PrefixBefore
<1>5. lo <= p
  BY <1>1, <1>2, <1>3, <1>4
<1>6. lo \in DOMAIN recs
  BY <1>2, <1>3, <1>5
<1>7. ASSUME hi <= p PROVE FALSE
  <2>1. hi \in DOMAIN recs /\ hi # p
    BY <1>1, <1>2, <1>3, <1>6, <1>7
  <2>2. Before(recs[hi], recs[p])
    BY <1>2, <1>3, <1>7, <2>1 DEF Ascending
  <2>3. ~ PrefixBefore(recs[hi], id, type)
    <3>1. CASE hi = lo
      BY <1>1, <1>6, <3>1
    <3>2. CASE hi # lo
      <4>1. Before(recs[lo], recs[hi])
        BY <1>3, <1>6, <2>1, <3>2 DEF Ascending
      <4> QED
        BY <1>1, <1>3, <1>6, <2>1, <4>1 DEF Before, PrefixBefore
    <3> QED
      BY <3>1, <3>2
  <2> QED
    BY <1>1, <1>2, <1>3, <2>1, <2>2, <2>3 DEF Before, PrefixBefore
<1>8. p - lo + 1 \in 1 .. hi - lo /\ lo - 1 + (p - lo + 1) = p
  BY <1>2, <1>3, <1>5, <1>7
<1> QED
  BY <1>1, <1>2, <1>8 DEF s

\* No two entries of a directory of a sound tree have the same name.
LEMMA DirectoryNamed ==
    ASSUME NEW d, WellKept(d), Keyed(ReadNode(d.tree)), NEW dir
    PROVE  LET s == ReadDirInode(ReadNode(d.tree), dir)
           IN  /\ Len(s) \in Nat /\ DOMAIN s = 1 .. Len(s)
               /\ \A i \in DOMAIN s : s[i].name \in Nat \ {0}
               /\ \A i, j \in DOMAIN s : i < j => s[i].name # s[j].name
<1> DEFINE recs == ReadNode(d.tree)
           t == Scan(recs, dir, DirRec)
           s == ReadDirInode(recs, dir)
<1>1. /\ Ascending(recs)
      /\ \A e \in OfType(recs, DirRec) : e.name \in DOMAIN Hash /\ e.number = Hash[e.name]
  BY DEF WellKept
<1>2. Keyed(recs)
  OBVIOUS
<1> HIDE DEF recs
<1>3. Len(t) \in Nat /\ DOMAIN t = 1 .. Len(t)
  BY <1>2, ScanFacts
<1>4. PICK k \in Nat : \A i \in DOMAIN t :
          /\ k + i \in DOMAIN recs /\ t[i] = recs[k + i]
          /\ recs[k + i].id = dir /\ recs[k + i].type = DirRec
  <2>1. TakenFrom(t, recs, dir, DirRec)
    BY <1>2, ScanFacts, Zenon
  <2> HIDE DEF t
  <2> QED
    BY <2>1, Zenon DEF TakenFrom
<1> HIDE DEF t
<1>5. s = [i \in DOMAIN t |-> [name |-> t[i].name, file |-> t[i].val.file, dtype |-> t[i].val.dtype]]
  BY DEF ReadDirInode, t
<1> HIDE DEF s
<1>6. DOMAIN s = 1 .. Len(t) /\ \A i \in DOMAIN s : s[i].name = t[i].name
  BY <1>3, <1>5
<1>7. Len(s) = Len(t)
  BY <1>3, <1>5
<1>8. ASSUME NEW i \in DOMAIN t
      PROVE  t[i].name \in DOMAIN Hash /\ t[i].number = Hash[t[i].name]
  <2>1. t[i] \in OfType(recs, DirRec)
    BY <1>4 DEF OfType
  <2> QED
    BY <1>1, <2>1
<1>9. \A i \in DOMAIN t : t[i].name \in Nat \ {0} /\ t[i].number \in Nat
  BY <1>8, HashAssumption
<1>10. ASSUME NEW i \in DOMAIN t, NEW j \in DOMAIN t, i < j
       PROVE  t[i].name # t[j].name
  <2>1. k + i < k + j
    BY <1>3, <1>10
  <2>2. Before(t[i], t[j])
    BY <1>1, <1>4, <2>1 DEF Ascending
  <2>3. t[i].id = t[j].id /\ t[i].type = t[j].type /\ t[i].type \in Nat
    BY <1>4 DEF DirRec
  <2>4. t[i].id \in Nat
    BY <1>2, <1>4 DEF Keyed
  <2>5. t[i].number < t[j].number \/ t[i].name < t[j].name
    BY <2>2, <2>3, <2>4 DEF Before, PrefixBefore
  <2> SUFFICES ASSUME t[i].name = t[j].name PROVE FALSE
    OBVIOUS
  <2>6. t[i].number = t[j].number
    BY <1>8
  <2> QED
    BY <1>9, <2>5, <2>6
<1> QED
  BY <1>3, <1>6, <1>7, <1>9, <1>10 DEF s, recs

\* The entries of a listing, which are those of the directory.
LEMMA EntriesNamed ==
    ASSUME WellKept(Volume), Keyed(VolumeRecords)
    PROVE  Named(Entries)
<1> DEFINE s == ReadDirInode(VolumeRecords, inode.id)
           info(i) == FileInfo(Inode(VolumeRecords, s[i].file))
<1>1. /\ Len(s) \in Nat /\ DOMAIN s = 1 .. Len(s)
      /\ \A i \in DOMAIN s : s[i].name \in Nat \ {0}
      /\ \A i, j \in DOMAIN s : i < j => s[i].name # s[j].name
  BY DirectoryNamed DEF VolumeRecords
<1>2. Entries = [i \in DOMAIN s |-> [name |-> s[i].name, info |-> info(i)]]
  BY DEF Entries
<1> HIDE DEF s, info
<1>3. DOMAIN Entries = 1 .. Len(s) /\ \A i \in DOMAIN Entries : Entries[i].name = s[i].name
  BY <1>1, <1>2
<1>4. Entries \in Seq({Entries[i] : i \in DOMAIN Entries})
  BY <1>1, <1>2
<1>5. ASSUME NEW i \in DOMAIN Entries, NEW j \in DOMAIN Entries, i # j
      PROVE  Entries[i].name # Entries[j].name
  <2>1. i \in 1 .. Len(s) /\ j \in 1 .. Len(s)
    BY <1>3
  <2>2. i < j \/ j < i
    BY <2>1, <1>5
  <2> QED
    BY <1>1, <1>3, <2>1, <2>2
<1> QED
  BY <1>1, <1>3, <1>4, <1>5 DEF Named, NoMarker

\* The volume that is mounted: the image itself or one in a partition of an
\* image that no run of the injector has changed.
VolumeInv ==
    /\ disk.kind = "container" \/ disk \in Formatted \/ disk = Torn
    /\ inode # Closed => Volume.kind = "container"

LEMMA MountedPart ==
    ASSUME VolumeInv, Volume.kind = "container", disk.kind # "container"
    PROVE  \E i \in DOMAIN disk.parts :
              disk \in Formatted /\ disk.parts[i].apfs /\ disk.parts[i].image = Volume
<1> DEFINE apfs == {i \in DOMAIN disk.parts : disk.parts[i].apfs}
           first == CHOOSE i \in apfs : \A j \in apfs : i <= j
<1>1. NoImage.kind # "container"
  BY DEF NoImage
<1>2. Volume = IF apfs = {} THEN NoImage ELSE disk.parts[first].image
  BY Zenon DEF Volume, OpenContainer
<1>3. apfs # {}
  BY <1>1, <1>2
<1>4. Torn.parts = <<>>
  BY DEF Torn
<1>5. disk \in Formatted
  BY <1>3, <1>4 DEF VolumeInv
<1>6. apfs \in SUBSET Nat
  BY <1>5, KeptAssumption
<1>7. first = First(apfs)
  BY DEF First
<1>8. first \in apfs
  <2> HIDE DEF apfs, first
  <2> QED
    BY <1>3, <1>6, <1>7, LeastNumber
<1> HIDE DEF first
<1> QED
  BY <1>2, <1>3, <1>5, <1>8

LEMMA VolumeSound ==
    ASSUME SpaceInv, TreeInv, VolumeInv, Volume.kind = "container"
    PROVE  WellKept(Volume) /\ Keyed(VolumeRecords) /\ Sized(Volume)
<1>1. CASE disk.kind = "container"
  <2>1. Volume = disk
    BY <1>1 DEF Volume, OpenContainer
  <2>2. WellKept(disk) /\ Keyed(ReadNode(disk.tree)) /\ Sized(disk)
    BY <1>1 DEF TreeInv, Kept, SpaceInv, Sound
  <2> QED
    BY <2>1, <2>2 DEF VolumeRecords
<1>2. CASE disk.kind # "container"
  <2>1. PICK i \in DOMAIN disk.parts :
          disk \in Formatted /\ disk.parts[i].apfs /\ disk.parts[i].image = Volume
    BY <1>2, MountedPart
  <2>2. /\ WellKept(disk.parts[i].image) /\ Sized(disk.parts[i].image)
        /\ Keyed(ReadNode(disk.parts[i].image.tree))
    BY <1>2, <2>1, KeptAssumption
  <2> QED
    BY <2>1, <2>2, Zenon DEF VolumeRecords
<1> QED
  BY <1>1, <1>2

LEMMA VolumeInit == Init => VolumeInv
BY DEF Init, FixtureInit, MountInit, VolumeInv

LEMMA VolumeStep == IInv /\ BufferInv /\ VolumeInv /\ [Next]_vars => VolumeInv'
<1> SUFFICES ASSUME IInv, BufferInv, VolumeInv, [Next]_vars PROVE VolumeInv'
  OBVIOUS
<1>1. CASE Inject /\ UNCHANGED <<mountVars, cliVars>>
  <2>1. inode = Closed
    <3>1. SUFFICES ASSUME pc = "idle", runs = MaxRuns PROVE FALSE
      BY <3>1 DEF BufferInv
    <3>2. ~ (runs < MaxRuns)
      BY <3>1, BoundsAssumption
    <3> QED
      BY <1>1, <3>1, <3>2 DEF Inject, Load, LoadFails, AllocBlocks, WriteData, BuildTree,
         BuildReferences, Count, WriteImage, WriteFails
  <2>2. disk' = disk \/ disk' = Torn \/ (disk' = img /\ img.kind = "container")
    BY <1>1 DEF Inject, Load, LoadFails, AllocBlocks, WriteData, BuildTree, BuildReferences, Count,
       WriteImage, WriteFails, IInv
  <2>3. disk'.kind = "container" \/ disk' \in Formatted \/ disk' = Torn
    BY <2>2 DEF VolumeInv
  <2> QED
    BY <1>1, <2>1, <2>3 DEF VolumeInv, mountVars
<1>2. CASE MountStep /\ status = "idle" /\ UNCHANGED <<fixVars, cliVars>>
  <2>1. disk' = disk /\ Volume' = Volume
    BY <1>2 DEF fixVars, Volume
  <2>2. inode' # Closed => inode # Closed \/ Mounted
    BY <1>2 DEF MountStep, Open, OpenFails, Close, GetFileInfo, Refuse, ListRefused, FillFails, ReadDirectory
  <2> QED
    BY <2>1, <2>2 DEF VolumeInv, Mounted
<1>3. CASE UNCHANGED <<fixVars, mountVars>>
  <2>1. disk' = disk /\ Volume' = Volume /\ inode' = inode
    BY <1>3 DEF fixVars, mountVars, Volume
  <2> QED
    BY <2>1 DEF VolumeInv
<1> QED
  BY <1>1, <1>2, <1>3 DEF Next, vars

(* An enumeration that reaches its end has delivered every entry of the    *)
(* directory once, in the order of names, with the attributes of the inode *)
(* it names, of a directory of any size in any image the injector leaves,  *)
(* whichever fills failed before (fs.rs:190-219): the entries have names   *)
(* of their own since the tree is sound.                                   *)
THEOREM ListsEverything == Spec => []ListingComplete
<1>1. SpaceInv /\ TreeInv /\ VolumeInv /\ BufferInv => Named(Entries) \/ ListingComplete
  <2> SUFFICES ASSUME SpaceInv, TreeInv, VolumeInv, BufferInv, reply.op = "list"
               PROVE  Named(Entries)
    BY DEF ListingComplete
  <2>1. inode # Closed
    BY DEF BufferInv
  <2> QED
    BY <2>1, VolumeSound, EntriesNamed DEF VolumeInv
<1>2. Spec => []IInv /\ []SpaceInv /\ []TreeInv
  BY OnlyInjectorWrites, Inductive, SpaceInductive, TreeInductive, PTL
<1>3. Spec => []BufferInv
  BY BufferInvInit, BufferInvNext, PTL DEF Spec
<1>4. Spec => []VolumeInv
  BY <1>2, <1>3, VolumeInit, VolumeStep, PTL DEF Spec
<1> QED
  BY <1>1, <1>2, <1>3, <1>4, EnumerationComplete, PTL
----------------------------------------------------------------------------
\* An inode of a sound tree is found by its number.
LEMMA InodeRead ==
    ASSUME NEW recs, Keyed(recs), Ascending(recs), NEW r \in OfType(recs, InodeRec), NEW id, r.id = id
    PROVE  \E q \in OfType(recs, InodeRec) : q.id = id /\ Inode(recs, id) = ParseInode(q)
<1> DEFINE s == Scan(recs, id, InodeRec)
<1>1. id \in Nat /\ InodeRec \in Nat
  BY DEF OfType, Keyed, InodeRec
<1>2. PICK i \in DOMAIN s : s[i] = r
  BY <1>1, ScanAll
<1>3. Len(s) \in Nat /\ DOMAIN s = 1 .. Len(s)
  BY ScanFacts
<1>4. PICK k \in Nat : \A j \in DOMAIN s :
         /\ k + j \in DOMAIN recs /\ s[j] = recs[k + j]
         /\ recs[k + j].id = id /\ recs[k + j].type = InodeRec
  <2>1. TakenFrom(s, recs, id, InodeRec)
    BY ScanFacts, Zenon
  <2> HIDE DEF s
  <2> QED
    BY <2>1, Zenon DEF TakenFrom
<1> HIDE DEF s
<1>5. 1 \in DOMAIN s /\ s # <<>>
  BY <1>2, <1>3
<1>6. s[1] \in OfType(recs, InodeRec) /\ s[1].id = id
  BY <1>4, <1>5 DEF OfType
<1>7. Inode(recs, id) = ParseInode(s[1])
  BY <1>5, Zenon DEF Inode, s
<1> QED
  BY <1>6, <1>7

InfoType == [id : Nat, dir : BOOLEAN, size : Nat]

\* Every entry of a directory names an inode that is found.
LEMMA FilesFound ==
    ASSUME NEW d, WellKept(d), Keyed(ReadNode(d.tree)), Sized(d), NEW dir
    PROVE  LET recs == ReadNode(d.tree)
               s == ReadDirInode(recs, dir)
           IN  \A i \in DOMAIN s : \E q \in OfType(recs, InodeRec) :
                  /\ q.id \in Nat /\ SizedVal(q.val)
                  /\ q.id = s[i].file /\ Inode(recs, s[i].file) = ParseInode(q)
<1> DEFINE recs == ReadNode(d.tree)
           t == Scan(recs, dir, DirRec)
           s == ReadDirInode(recs, dir)
<1>1. /\ Ascending(recs) /\ Keyed(recs)
      /\ \A e \in OfType(recs, DirRec) : \E r \in OfType(recs, InodeRec) : r.id = e.val.file
      /\ \A r \in OfType(recs, InodeRec) : SizedVal(r.val)
  BY DEF WellKept, Sized, SizedVal
<1> HIDE DEF recs
<1>2. PICK k \in Nat : \A i \in DOMAIN t :
         /\ k + i \in DOMAIN recs /\ t[i] = recs[k + i]
         /\ recs[k + i].id = dir /\ recs[k + i].type = DirRec
  <2>1. TakenFrom(t, recs, dir, DirRec)
    BY <1>1, ScanFacts, Zenon
  <2> HIDE DEF t
  <2> QED
    BY <2>1, Zenon DEF TakenFrom
<1>3. s = [i \in DOMAIN t |-> [name |-> t[i].name, file |-> t[i].val.file, dtype |-> t[i].val.dtype]]
  BY DEF ReadDirInode
<1> HIDE DEF s, t
<1>4. ASSUME NEW i \in DOMAIN s
      PROVE  \E q \in OfType(recs, InodeRec) :
                  /\ q.id \in Nat /\ SizedVal(q.val)
                  /\ q.id = s[i].file /\ Inode(recs, s[i].file) = ParseInode(q)
  <2>1. i \in DOMAIN t /\ s[i].file = t[i].val.file
    BY <1>3
  <2>2. t[i] \in OfType(recs, DirRec)
    BY <1>2, <2>1 DEF OfType
  <2>3. PICK r \in OfType(recs, InodeRec) : r.id = s[i].file
    BY <1>1, <2>1, <2>2
  <2>4. PICK q \in OfType(recs, InodeRec) : q.id = s[i].file /\ Inode(recs, s[i].file) = ParseInode(q)
    BY <1>1, <2>3, InodeRead
  <2>5. q.id \in Nat /\ SizedVal(q.val)
    BY <1>1 DEF OfType, Keyed
  <2> QED
    BY <2>4, <2>5
<1> QED
  BY <1>4 DEF s, recs

LEMMA EntriesTyped ==
    ASSUME WellKept(Volume), Keyed(VolumeRecords), Sized(Volume), NEW i \in DOMAIN Entries
    PROVE  Entries[i] \in [name : Nat, info : InfoType]
<1> DEFINE s == ReadDirInode(VolumeRecords, inode.id)
           f == Inode(VolumeRecords, s[i].file)
           isDir == f.mode = "dir"
<1>1. \A j \in DOMAIN s : s[j].name \in Nat \ {0}
  BY DirectoryNamed DEF VolumeRecords
<1>2. Entries = [j \in DOMAIN s |->
                   [name |-> s[j].name, info |-> FileInfo(Inode(VolumeRecords, s[j].file))]]
  BY DEF Entries
<1>3. \A j \in DOMAIN s : \E q \in OfType(VolumeRecords, InodeRec) :
         /\ q.id \in Nat /\ SizedVal(q.val)
         /\ q.id = s[j].file /\ Inode(VolumeRecords, s[j].file) = ParseInode(q)
  BY FilesFound DEF VolumeRecords
<1> HIDE DEF s
<1>4. i \in DOMAIN s /\ s[i].name \in Nat
  BY <1>1, <1>2
<1>5. PICK q : q.id \in Nat /\ SizedVal(q.val) /\ f = ParseInode(q)
  BY <1>3, <1>4
<1>6. f.id \in Nat /\ f.size \in Nat /\ isDir \in BOOLEAN
  <2>1. f.id \in Nat /\ f.size \in Nat
    BY <1>5 DEF ParseInode, SizedVal
  <2> QED
    BY <2>1
<1>7. Entries[i] = [name |-> s[i].name, info |-> [id |-> f.id, dir |-> isDir, size |-> f.size]]
  BY <1>2, <1>4 DEF FileInfo
<1> HIDE DEF f, isDir
<1> QED
  BY <1>4, <1>6, <1>7 DEF InfoType

\* What was delivered comes out of the listing.
LEMMA GivenTyped ==
    ASSUME SpaceInv, TreeInv, VolumeInv, BufferInv, ListInv
    PROVE  marker \in Nat /\ given \in Seq([name : Nat, info : InfoType])
<1> DEFINE w == ByName(Entries)
           T == [name : Nat, info : InfoType]
<1>1. CASE inode = Closed
  <2>1. marker = NoMarker /\ given = <<>>
    BY <1>1 DEF BufferInv, ListInv
  <2> QED
    BY <2>1 DEF NoMarker
<1>2. CASE inode # Closed
  <2>1. WellKept(Volume) /\ Keyed(VolumeRecords) /\ Sized(Volume) /\ Named(Entries)
    BY <1>2, VolumeSound, EntriesNamed DEF VolumeInv
  <2>2. PICK c \in 0 .. Len(w) : /\ given = SubSeq(w, 1, c)
                                 /\ marker = IF c = 0 THEN NoMarker ELSE w[c].name
    BY <1>2, <2>1 DEF ListInv
  <2> DEFINE S == {Entries[i] : i \in DOMAIN Entries}
  <2>3. w \in Seq(S) /\ Len(w) \in Nat /\ Climbing(w)
    BY <2>1, ByNameFacts
  <2>4. S \subseteq T
    BY <2>1, EntriesTyped
  <2> HIDE DEF w, S, T
  <2>5. w \in Seq(T)
    BY <2>3, <2>4
  <2>6. \A i \in 1 .. c : w[i] \in T
    BY <2>2, <2>3, <2>5, ElementOfSeq
  <2>7. given \in Seq(T)
    BY <2>2, <2>6, SubSeqProperties
  <2>8. marker \in Nat
    <3>1. CASE c = 0
      BY <2>2, <3>1 DEF NoMarker
    <3>2. CASE c # 0
      <4>1. c \in 1 .. Len(w)
        BY <2>2, <2>3, <3>2
      <4> QED
        BY <2>2, <2>3, <3>2, <4>1 DEF Climbing
    <3> QED
      BY <3>1, <3>2
  <2> QED
    BY <2>7, <2>8 DEF T
<1> QED
  BY <1>1, <1>2

\* What is left of the type invariant.
StackInv == (\E S : stack \in Seq(S)) /\ (stack # <<>> <=> status = "running")

TypeInv ==
    /\ pc \in {"idle", "alloc", "tree", "refs", "count", "write"}
    /\ exit \in {"none", "ok", "panic"}
    /\ pc = "idle" => img = NoImage
    /\ runs \in 0 .. MaxRuns /\ faults \in 0 .. MaxFaults
    /\ inode.status \in {"ok", "closed"}
    /\ status \in {"idle", "running", "ok", "error"}
    /\ StackInv

LEMMA TypeInit == Init => TypeInv
<1> SUFFICES ASSUME Init PROVE TypeInv
  OBVIOUS
<1>1. stack \in Seq({})
  BY DEF Init
<1> QED
  BY <1>1, BoundsAssumption
     DEF Init, FixtureInit, MountInit, TypeInv, StackInv, Closed

LEMMA TypeInject == TypeInv /\ Inject /\ UNCHANGED <<mountVars, cliVars>> => TypeInv'
<1> SUFFICES ASSUME TypeInv, Inject, UNCHANGED <<mountVars, cliVars>> PROVE TypeInv'
  OBVIOUS
<1>1. StackInv' /\ inode' = inode /\ status' = status
  BY DEF TypeInv, StackInv, mountVars, cliVars
<1>2. runs' \in 0 .. MaxRuns
  <2>1. runs' = runs \/ (runs < MaxRuns /\ runs' = runs + 1)
    BY Zenon DEF Inject, Load, LoadFails, AllocBlocks, WriteData, BuildTree,
       BuildReferences, Count, WriteImage, WriteFails
  <2> QED
    BY <2>1, BoundsAssumption DEF TypeInv
<1>3. faults' \in 0 .. MaxFaults
  <2>1. faults' = faults \/ (faults < MaxFaults /\ faults' = faults + 1)
    BY Zenon DEF Inject, Load, LoadFails, AllocBlocks, WriteData, BuildTree,
       BuildReferences, Count, WriteImage, WriteFails
  <2> QED
    BY <2>1, BoundsAssumption DEF TypeInv
<1> DEFINE Moves == /\ pc' \in {"idle", "alloc", "tree", "refs", "count", "write"}
                    /\ exit' \in {"none", "ok", "panic"}
                    /\ pc' = "idle" => img' = NoImage
<1>4. ASSUME NEW how \in {"ok", "panic"}, Ends(how) PROVE Moves
  BY <1>4 DEF Ends
<1>5. ASSUME pc' \in {"alloc", "tree", "refs", "count", "write"}, exit' = exit \/ exit' = "none"
      PROVE  Moves
  BY <1>5 DEF TypeInv
<1> HIDE DEF Moves
<1>6. ASSUME Load PROVE Moves
  BY <1>4, <1>5, <1>6 DEF Load
<1>7. ASSUME LoadFails PROVE Moves
  BY <1>4, <1>7 DEF LoadFails
<1>8. ASSUME AllocBlocks PROVE Moves
  BY <1>4, <1>5, <1>8, Zenon DEF AllocBlocks
<1>9. ASSUME WriteData PROVE Moves
  BY <1>5, <1>9 DEF WriteData
<1>10. ASSUME BuildTree PROVE Moves
  <2>1. Ends("panic") \/ (pc' = "refs" /\ exit' = exit)
    BY <1>10, Zenon DEF BuildTree
  <2> QED
    BY <1>4, <1>5, <2>1
<1>11. ASSUME BuildReferences PROVE Moves
  <2>1. Ends("panic") \/ (pc' = "count" /\ exit' = exit)
    BY <1>11, Zenon DEF BuildReferences
  <2> QED
    BY <1>4, <1>5, <2>1
<1>12. ASSUME Count PROVE Moves
  BY <1>5, <1>12 DEF Count
<1>13. ASSUME WriteImage PROVE Moves
  BY <1>4, <1>13 DEF WriteImage
<1>14. ASSUME WriteFails PROVE Moves
  BY <1>4, <1>14 DEF WriteFails
<1>15. Moves
  BY <1>6, <1>7, <1>8, <1>9, <1>10, <1>11, <1>12, <1>13, <1>14 DEF Inject
<1> QED
  BY <1>1, <1>2, <1>3, <1>15 DEF TypeInv, Moves

\* A path that is found gives an inode.
LEMMA TypeMount == TypeInv /\ MountStep /\ UNCHANGED <<fixVars, cliVars>> => TypeInv'
<1> SUFFICES ASSUME TypeInv, MountStep, UNCHANGED <<fixVars, cliVars>> PROVE TypeInv'
  OBVIOUS
<1>1. StackInv' /\ status' = status /\ UNCHANGED <<pc, exit, img, runs>>
  BY DEF TypeInv, StackInv, fixVars, cliVars
<1>2. faults' \in 0 .. MaxFaults
  BY BoundsAssumption DEF TypeInv, MountStep, Open, OpenFails, Close, GetFileInfo, Refuse,
     ListRefused, FillFails, ReadDirectory, Fault
<1>3. inode'.status \in {"ok", "closed"}
  <2>1. Closed.status = "closed"
    BY DEF Closed
  <2>2. \/ inode' = inode \/ inode' = Closed
        \/ \E path \in Paths : Resolve(path).status = "ok" /\ inode' = Resolve(path)
    BY DEF MountStep, Open, OpenFails, Close, GetFileInfo, Refuse, ListRefused, FillFails, ReadDirectory
  <2> QED
    BY <2>1, <2>2 DEF TypeInv
<1> QED
  BY <1>1, <1>2, <1>3 DEF TypeInv

LEMMA StackStep == StackInv /\ CliStep => StackInv' /\ status' \in {status, "running", "ok", "error"}
<1> SUFFICES ASSUME StackInv, CliStep
             PROVE  StackInv' /\ status' \in {status, "running", "ok", "error"}
  OBVIOUS
<1>0. ASSUME NEW s \in {"ok", "error"}, Exit(s)
      PROVE  StackInv' /\ status' \in {status, "running", "ok", "error"}
  <2>1. stack' \in Seq({})
    BY <1>0 DEF Exit
  <2> QED
    BY <1>0, <2>1 DEF Exit, StackInv
<1>1. ASSUME NEW x, stack' = <<x>>, status' = "running"
      PROVE  StackInv' /\ status' \in {status, "running", "ok", "error"}
  <2>1. <<x>> \in Seq({x}) /\ <<x>> # <<>>
    OBVIOUS
  <2> QED
    BY <1>1, <2>1 DEF StackInv
<1>2. PICK S : stack \in Seq(S)
  BY DEF StackInv
<1> DEFINE T == S \cup {Tail(Top)}
<1>3. ASSUME status = "running"
      PROVE  /\ stack # <<>> /\ Len(stack) \in Nat \ {0}
             /\ Popped \in Seq(T) /\ Popped # <<>> /\ Len(Popped) = Len(stack)
  <2>1. stack # <<>>
    BY <1>3 DEF StackInv
  <2>2. Len(stack) \in Nat \ {0}
    BY <1>2, <2>1
  <2>3. stack \in Seq(T) /\ Tail(Top) \in T
    BY <1>2
  <2>4. Popped = [stack EXCEPT ![Len(stack)] = Tail(Top)]
    BY DEF Popped, Top
  <2> HIDE DEF T
  <2>5. Popped \in Seq(T) /\ Len(Popped) = Len(stack)
    BY <2>2, <2>3, <2>4, ExceptSeq
  <2> QED
    BY <2>1, <2>2, <2>5
<1>4. ASSUME status = "running", stack' = Popped, status' = status
      PROVE  StackInv' /\ status' \in {status, "running", "ok", "error"}
  BY <1>3, <1>4 DEF StackInv
<1>5. ASSUME NEW op \in {"ls", "cat", "tree", "info", "dump-fstree"}, NEW path \in Paths, Begin(op, path)
      PROVE  StackInv' /\ status' \in {status, "running", "ok", "error"}
  <2>1. \/ Exit("ok") \/ Exit("error")
        \/ stack' = <<ReadDirInode(VolumeRecords, RootDir)>> /\ status' = "running"
        \/ /\ stack' = <<ReadDir(VolumeRecords, Volume.fold, path).entries>>
           /\ status' = "running"
    BY <1>5, Zenon DEF Begin
  <2> QED
    BY <1>0, <1>1, <2>1
<1>6. CASE Abort
  BY <1>0, <1>6 DEF Abort
<1>7. CASE PrintEntry
  <2>1. status = "running" /\ (Exit("error") \/ (stack' = Popped /\ status' = status))
    BY <1>7 DEF PrintEntry
  <2> QED
    BY <1>0, <1>4, <2>1
<1>8. CASE PrintTree
  <2>1. /\ status = "running" /\ status' = status
        /\ stack' = Popped \/ \E x : stack' = Append(Popped, x)
    BY <1>8 DEF PrintTree, Opened
  <2>2. ASSUME NEW x, stack' = Append(Popped, x)
        PROVE  StackInv'
    <3> DEFINE U == T \cup {x}
    <3>1. Popped \in Seq(U) /\ x \in U
      BY <1>3, <2>1
    <3> HIDE DEF U
    <3>2. Append(Popped, x) \in Seq(U) /\ Append(Popped, x) # <<>>
      BY <3>1, AppendProperties
    <3> QED
      BY <2>1, <2>2, <3>2 DEF StackInv
  <2> QED
    BY <1>4, <2>1, <2>2
<1>9. CASE EndDir
  <2>1. /\ status = "running"
        /\ \/ Exit("ok")
           \/ /\ Len(stack) # 1 /\ status' = status
              /\ stack' = SubSeq(stack, 1, Len(stack) - 1)
    BY <1>9 DEF EndDir
  <2>2. ASSUME Len(stack) # 1, status' = status, stack' = SubSeq(stack, 1, Len(stack) - 1)
        PROVE  StackInv'
    <3>1. PICK n \in Nat \ {0} : n = Len(stack) - 1 /\ n <= Len(stack)
      BY <1>3, <2>1, <2>2
    <3>2. \A i \in 1 .. n : stack[i] \in S
      BY <1>2, <3>1, ElementOfSeq
    <3>3. SubSeq(stack, 1, n) \in Seq(S) /\ Len(SubSeq(stack, 1, n)) = n
      BY <3>1, <3>2, SubSeqProperties
    <3>4. stack' # <<>>
      BY <2>2, <3>1, <3>3
    <3> QED
      BY <2>1, <2>2, <3>1, <3>3, <3>4 DEF StackInv
  <2> QED
    BY <1>0, <2>1, <2>2
<1> QED
  BY <1>5, <1>6, <1>7, <1>8, <1>9 DEF CliStep

LEMMA TypeCli == TypeInv /\ CliStep /\ UNCHANGED <<fixVars, mountVars>> => TypeInv'
<1> SUFFICES ASSUME TypeInv, CliStep, UNCHANGED <<fixVars, mountVars>> PROVE TypeInv'
  OBVIOUS
<1>1. UNCHANGED <<pc, exit, img, runs, inode>>
  BY DEF fixVars, mountVars
<1>2. faults' \in 0 .. MaxFaults
  BY BoundsAssumption DEF TypeInv, CliStep, Begin, Abort, PrintEntry, PrintTree, EndDir, Fault
<1>3. StackInv' /\ status' \in {"idle", "running", "ok", "error"}
  BY StackStep DEF TypeInv
<1> QED
  BY <1>1, <1>2, <1>3 DEF TypeInv

LEMMA TypeStep == TypeInv /\ [Next]_vars => TypeInv'
<1>1. TypeInv /\ UNCHANGED vars => TypeInv'
  BY DEF TypeInv, StackInv, vars, fixVars, mountVars, cliVars
<1> QED
  BY <1>1, TypeInject, TypeMount, TypeCli DEF Next

(* The injector, the mount and the tool keep their types: the blocks it    *)
(* allocates are blocks of the image, and what a listing delivers are      *)
(* names with the attributes of inodes that exist (main.rs:543-577,        *)
(* fs.rs:190-219, cli main.rs:122-139).                                    *)
THEOREM TypesCorrect == Spec => []TypeOK
<1>1. IInv /\ SpaceInv /\ TreeInv /\ VolumeInv /\ BufferInv /\ ListInv /\ TypeInv => TypeOK
  <2> SUFFICES ASSUME IInv, SpaceInv, TreeInv, VolumeInv, BufferInv, ListInv, TypeInv PROVE TypeOK
    OBVIOUS
  <2>1. marker \in Nat /\ given \in Seq([name : Nat, info : [id : Nat, dir : BOOLEAN, size : Nat]])
    BY GivenTyped DEF InfoType
  <2>2. blk \in Seq(0 .. Blocks - 1) /\ Len(blk) <= Len(Wanted)
    BY DEF IInv, BlkOK, AllBlocks
  <2>3. img.kind \in {"none", "container"} /\ (img.kind = "none" <=> pc = "idle")
    BY DEF IInv, TypeInv, NoImage
  <2> QED
    BY <2>1, <2>2, <2>3 DEF TypeInv, StackInv, TypeOK
<1>2. Spec => []IInv /\ []SpaceInv /\ []TreeInv
  BY OnlyInjectorWrites, Inductive, SpaceInductive, TreeInductive, PTL
<1>3. Spec => []BufferInv /\ []ListInv
  BY BufferInvInit, BufferInvNext, ListInvInit, ListInvNext, PTL DEF Spec
<1>4. Spec => []VolumeInv
  BY <1>2, <1>3, VolumeInit, VolumeStep, PTL DEF Spec
<1>5. Spec => []TypeInv
  BY TypeInit, TypeStep, PTL DEF Spec
<1> QED
  BY <1>1, <1>2, <1>3, <1>4, <1>5, PTL
----------------------------------------------------------------------------
\* What a search for a name in a directory finds.
LEMMA ChildFound ==
    ASSUME NEW recs, Keyed(recs), Ascending(recs), NEW fold, NEW dir \in Nat, NEW name, NEW file,
           \A e \in OfType(recs, DirRec) : e.id = dir /\ SameName(fold, e.name, name) => e.val.file = file
    PROVE  LookupChild(recs, fold, dir, name) =
              IF \E e \in OfType(recs, DirRec) : e.id = dir /\ SameName(fold, e.name, name) THEN file ELSE 0
<1> DEFINE t == Scan(recs, dir, DirRec)
           s == ReadDirInode(recs, dir)
           hits == {i \in DOMAIN s : SameName(fold, s[i].name, name)}
           E == OfType(recs, DirRec)
<1>1. DirRec \in Nat
  BY DEF DirRec
<1>2. PICK k \in Nat : \A i \in DOMAIN t :
         /\ k + i \in DOMAIN recs /\ t[i] = recs[k + i]
         /\ recs[k + i].id = dir /\ recs[k + i].type = DirRec
  <2>1. TakenFrom(t, recs, dir, DirRec)
    BY ScanFacts, Zenon
  <2> HIDE DEF t
  <2> QED
    BY <2>1, Zenon DEF TakenFrom
<1>3. \A e \in E : e.id = dir => \E i \in DOMAIN t : t[i] = e
  BY <1>1, ScanAll
<1>4. DOMAIN t = 1 .. Len(t) /\ Len(t) \in Nat
  BY ScanFacts
<1>5. \A i \in DOMAIN t : t[i] \in E /\ t[i].id = dir
  BY <1>2 DEF OfType
<1>6. s = [i \in DOMAIN t |-> [name |-> t[i].name, file |-> t[i].val.file, dtype |-> t[i].val.dtype]]
  BY DEF ReadDirInode
<1> HIDE DEF t, E
<1>7. /\ DOMAIN s = DOMAIN t
      /\ \A i \in DOMAIN t : s[i].name = t[i].name /\ s[i].file = t[i].val.file
  BY <1>6
<1>8. LookupChild(recs, fold, dir, name) = IF hits = {} THEN 0 ELSE s[First(hits)].file
  BY Zenon DEF LookupChild
<1> HIDE DEF s
<1>9. CASE \E e \in E : e.id = dir /\ SameName(fold, e.name, name)
  <2>1. hits # {} /\ hits \in SUBSET Nat
    BY <1>3, <1>4, <1>7, <1>9
  <2> HIDE DEF hits
  <2>2. First(hits) \in hits
    BY <2>1, LeastNumber
  <2>3. s[First(hits)].file = file
    BY <1>5, <1>7, <2>2 DEF E, hits
  <2> QED
    BY <1>8, <1>9, <2>1, <2>3 DEF E
<1>10. CASE ~ \E e \in E : e.id = dir /\ SameName(fold, e.name, name)
  <2>1. hits = {}
    BY <1>5, <1>7, <1>10
  <2> QED
    BY <1>8, <1>10, <2>1 DEF E
<1> QED
  BY <1>9, <1>10

\* The objects that a walk along a path passes.
Walked(at, recs, fold, path) ==
    at = [i \in 0 .. Len(path) |->
            IF i = 0 THEN RootDir
            ELSE IF at[i - 1] = 0 THEN 0 ELSE LookupChild(recs, fold, at[i - 1], path[i])]

LEMMA SomeWalk ==
    ASSUME NEW recs, NEW fold, NEW path, NEW g, Walked(g, recs, fold, path)
    PROVE  \E at : /\ Walked(at, recs, fold, path)
                   /\ LookupPath(recs, fold, path) =
                         IF at[Len(path)] = 0 THEN NotFound ELSE Inode(recs, at[Len(path)])
<1> DEFINE at == CHOOSE at : Walked(at, recs, fold, path)
<1>1. Walked(at, recs, fold, path)
  OBVIOUS
<1>2. LookupPath(recs, fold, path) = IF at[Len(path)] = 0 THEN NotFound ELSE Inode(recs, at[Len(path)])
  BY Zenon DEF LookupPath, Walked
<1> QED
  BY <1>1, <1>2

\* A volume with nothing below the directories of its root directory.
OneBelow(recs, fold, path) == LookupChild(recs, fold, RootDir, path[1])
TwoBelow(recs, fold, path) ==
    IF OneBelow(recs, fold, path) = 0 THEN 0
    ELSE LookupChild(recs, fold, OneBelow(recs, fold, path), path[2])

LEMMA ShallowPath ==
    ASSUME NEW recs, NEW fold, NEW S, NEW path \in Seq(S),
           \/ TwoBelow(recs, fold, path) = 0
           \/ LookupChild(recs, fold, TwoBelow(recs, fold, path), path[3]) = 0
    PROVE  /\ Len(path) = 0 => LookupPath(recs, fold, path) = Inode(recs, RootDir)
           /\ Len(path) = 1 => LookupPath(recs, fold, path) =
                 IF OneBelow(recs, fold, path) = 0 THEN NotFound
                 ELSE Inode(recs, OneBelow(recs, fold, path))
           /\ Len(path) = 2 => LookupPath(recs, fold, path) =
                 IF TwoBelow(recs, fold, path) = 0 THEN NotFound
                 ELSE Inode(recs, TwoBelow(recs, fold, path))
           /\ Len(path) > 2 => LookupPath(recs, fold, path) = NotFound
<1> DEFINE n == Len(path)
           one == OneBelow(recs, fold, path)
           two == TwoBelow(recs, fold, path)
           Next1(x, i) == IF x = 0 THEN 0 ELSE LookupChild(recs, fold, x, path[i])
           g == [i \in 0 .. n |-> IF i = 0 THEN RootDir ELSE IF i = 1 THEN one ELSE IF i = 2 THEN two ELSE 0]
<1>1. n \in Nat /\ RootDir # 0
  BY DEF RootDir
<1>2. one = Next1(RootDir, 1) /\ two = Next1(one, 2) /\ Next1(two, 3) = 0 /\ \A i : Next1(0, i) = 0
  BY <1>1 DEF OneBelow, TwoBelow
<1>3. \A at : Walked(at, recs, fold, path) <=>
                 at = [i \in 0 .. n |-> IF i = 0 THEN RootDir ELSE Next1(at[i - 1], i)]
  BY Zenon DEF Walked
<1> HIDE DEF one, two, Next1, n
<1>4. Walked(g, recs, fold, path)
  <2>1. ASSUME NEW i \in 0 .. n
        PROVE  g[i] = IF i = 0 THEN RootDir ELSE Next1(g[i - 1], i)
    <3>1. CASE i = 0
      BY <3>1
    <3>2. CASE i = 1
      <4>1. g[i] = one /\ g[i - 1] = RootDir
        BY <1>1, <3>2
      <4> QED
        BY <1>2, <3>2, <4>1
    <3>3. CASE i = 2
      <4>1. g[i] = two /\ g[i - 1] = one
        BY <1>1, <3>3
      <4> QED
        BY <1>2, <3>3, <4>1
    <3>4. CASE i = 3
      <4>1. g[i] = 0 /\ g[i - 1] = two
        BY <1>1, <3>4
      <4> QED
        BY <1>2, <3>4, <4>1
    <3>5. CASE i > 3
      <4>1. g[i] = 0 /\ g[i - 1] = 0 /\ i # 0
        BY <1>1, <3>5
      <4> QED
        BY <1>2, <4>1
    <3> QED
      BY <1>1, <3>1, <3>2, <3>3, <3>4, <3>5
  <2>2. g = [i \in 0 .. n |-> IF i = 0 THEN RootDir ELSE Next1(g[i - 1], i)]
    BY <2>1
  <2> QED
    BY <1>3, <2>2
<1> HIDE DEF g
<1>5. PICK at : /\ Walked(at, recs, fold, path)
                /\ LookupPath(recs, fold, path) = IF at[n] = 0 THEN NotFound ELSE Inode(recs, at[n])
  BY <1>4, SomeWalk, Zenon DEF n
<1>6. at = [i \in 0 .. n |-> IF i = 0 THEN RootDir ELSE Next1(at[i - 1], i)]
  BY <1>3, <1>5
<1>7. /\ at[0] = RootDir
      /\ \A i \in 1 .. n : i - 1 \in 0 .. n /\ at[i] = Next1(at[i - 1], i)
  BY <1>1, <1>6
<1>8. n >= 1 => at[1] = one
  BY <1>1, <1>2, <1>7
<1>9. n >= 2 => at[2] = two
  BY <1>1, <1>2, <1>7, <1>8
<1>10. n >= 3 => at[3] = 0
  BY <1>1, <1>2, <1>7, <1>9
<1>11. ASSUME n > 2 PROVE at[n] = 0
  <2> DEFINE S3 == {i \in 3 .. n : at[i] # 0}
  <2>1. SUFFICES ASSUME at[n] # 0 PROVE FALSE
    OBVIOUS
  <2>2. S3 \in SUBSET Nat /\ S3 # {}
    BY <1>1, <1>11, <2>1
  <2>3. PICK m \in S3 : \A i \in S3 : m <= i
    <3> HIDE DEF S3
    <3> QED
      BY <2>2, LeastNumber
  <2>4. m # 3 /\ m \in 3 .. n
    BY <1>1, <1>10
  <2>5. m - 1 \in 3 .. n /\ m \in 1 .. n
    BY <1>1, <2>4
  <2>6. at[m - 1] = 0
    BY <1>1, <2>3, <2>5
  <2>7. at[m] = 0
    BY <1>2, <1>7, <2>5, <2>6
  <2> QED
    BY <2>7
<1> DEFINE found == LookupPath(recs, fold, path)
<1>12. found = IF at[n] = 0 THEN NotFound ELSE Inode(recs, at[n])
  BY <1>5
<1> HIDE DEF found
<1>13. n = 0 => found = Inode(recs, RootDir)
  BY <1>1, <1>7, <1>12
<1>14. n = 1 => found = IF one = 0 THEN NotFound ELSE Inode(recs, one)
  BY <1>8, <1>12
<1>15. n = 2 => found = IF two = 0 THEN NotFound ELSE Inode(recs, two)
  BY <1>9, <1>12
<1>16. n > 2 => found = NotFound
  BY <1>11, <1>12
<1> QED
  BY <1>13, <1>14, <1>15, <1>16, Zenon DEF n, one, two, found

\* How a name is spelled in the volume, and what an injection lays down there.
Sp(fold, name) == IF fold THEN name % Upper ELSE name

LaidAt(I, E, n) ==
    /\ n \in Nat /\ n > RootDir
    /\ \A k \in 0 .. 7 : NewInode(n, k) \in I /\ NewDrec(n, k) \in E
    /\ \A k \in 0 .. 7 : \A r \in I : r.id = n + k => r = NewInode(n, k)
    /\ \A e \in E : e.id = RootDir \/ e.id \in n .. n + 7 => \E k \in 0 .. 7 : e = NewDrec(n, k)

LEMMA NewNames ==
    /\ \A k \in 0 .. 7 : NewName(k) \in 1 .. 10
    /\ \A j, k \in 0 .. 7 : NewName(j) = NewName(k) => j = k
    /\ \A n, k : NewParent(n, k) = IF k \in {2, 3} THEN n + 1 ELSE RootDir
<1>1. \A j, k \in 0 .. 7 : NewName(j) = NewName(k) => j = k
  <2>1. /\ NewName(0) = 3 /\ NewName(1) = 2 /\ NewName(2) = 9 /\ NewName(3) = 1
        /\ NewName(4) = 4 /\ NewName(5) = 7 /\ NewName(6) = 6 /\ NewName(7) = 5
    BY NewTables DEF Hello, Docs, Readme, BigBin, Link, PlainTxt, PackedTxt, PackedRsrc
  <2>2. ASSUME NEW j \in {0, 1, 2, 3, 4, 5, 6, 7}, NEW k \in {0, 1, 2, 3, 4, 5, 6, 7},
               NewName(j) = NewName(k)
        PROVE  j = k
    BY <2>1, <2>2
  <2> QED
    BY <2>2, Eight, Zenon
<1> QED
  BY <1>1, ModeOf DEF NewParent

LEMMA SpelledName ==
    ASSUME NEW k \in 0 .. 7, NEW fold, NEW name
    PROVE  SameName(fold, NewName(k), name) <=> NewName(k) = Sp(fold, name)
<1>1. NewName(k) \in 1 .. 10
  BY ModeOf
<1>2. NewName(k) % Upper = NewName(k)
  BY <1>1 DEF Upper
<1> QED
  BY <1>2 DEF SameName, Sp

LEMMA LaidChild ==
    ASSUME NEW recs, Keyed(recs), Ascending(recs), NEW fold, NEW n, NEW name,
           LaidAt(OfType(recs, InodeRec), OfType(recs, DirRec), n),
           NEW dir, dir = RootDir \/ dir \in n .. n + 7
    PROVE  /\ \A k \in 0 .. 7 : NewParent(n, k) = dir /\ NewName(k) = Sp(fold, name)
                                  => LookupChild(recs, fold, dir, name) = n + k
           /\ (\A k \in 0 .. 7 : NewParent(n, k) = dir => NewName(k) # Sp(fold, name))
                 => LookupChild(recs, fold, dir, name) = 0
<1> DEFINE E == OfType(recs, DirRec)
           Hit(e) == e.id = dir /\ SameName(fold, e.name, name)
<1>1. dir \in Nat /\ n \in Nat
  BY DEF LaidAt, RootDir
<1>2. \A k \in 0 .. 7 : NewDrec(n, k) \in E
  BY DEF LaidAt
<1>3. \A e \in E : e.id = dir => \E k \in 0 .. 7 : e = NewDrec(n, k)
  BY DEF LaidAt
<1>4. \A k \in 0 .. 7 : /\ NewDrec(n, k).id = NewParent(n, k) /\ NewDrec(n, k).name = NewName(k)
                        /\ NewDrec(n, k).val.file = n + k
  BY NewDrecFacts
<1>5. \A k \in 0 .. 7 : Hit(NewDrec(n, k)) <=> NewParent(n, k) = dir /\ NewName(k) = Sp(fold, name)
  BY <1>4, SpelledName
<1>6. \A e \in E : Hit(e) => \E k \in 0 .. 7 : e = NewDrec(n, k)
  BY <1>3
<1>7. ASSUME NEW k \in 0 .. 7, Hit(NewDrec(n, k))
      PROVE  LookupChild(recs, fold, dir, name) = n + k
  <2>1. ASSUME NEW e \in E, Hit(e) PROVE e.val.file = n + k
    <3>1. PICK j \in 0 .. 7 : e = NewDrec(n, j)
      BY <1>6, <2>1
    <3>2. NewName(j) = NewName(k)
      BY <1>5, <1>7, <2>1, <3>1
    <3>3. j = k
      BY <3>2, NewNames
    <3> QED
      BY <1>4, <3>1, <3>3
  <2>2. \E e \in E : Hit(e)
    BY <1>2, <1>7
  <2> QED
    BY <1>1, <2>1, <2>2, ChildFound
<1>8. ASSUME \A k \in 0 .. 7 : ~ Hit(NewDrec(n, k))
      PROVE  LookupChild(recs, fold, dir, name) = 0
  <2>1. \A e \in E : ~ Hit(e)
    BY <1>6, <1>8
  <2> QED
    BY <1>1, <2>1, ChildFound
<1> HIDE DEF Hit
<1> QED
  BY <1>5, <1>7, <1>8

\* Where the injector puts its objects, and when a path is spelled like that.
PathOf(k) == IF k \in {2, 3} THEN <<Docs, NewName(k)>> ELSE <<NewName(k)>>
Spells(fold, a, b) == Len(a) = Len(b) /\ \A i \in DOMAIN a : a[i] = Sp(fold, b[i])

LEMMA SpellsPath ==
    ASSUME NEW k \in 0 .. 7, NEW fold, NEW path
    PROVE  Spells(fold, PathOf(k), path) <=>
              IF k \in {2, 3}
              THEN Len(path) = 2 /\ Docs = Sp(fold, path[1]) /\ NewName(k) = Sp(fold, path[2])
              ELSE Len(path) = 1 /\ NewName(k) = Sp(fold, path[1])
<1>1. ASSUME NEW x, NEW y
      PROVE  Spells(fold, <<x, y>>, path) <=>
                Len(path) = 2 /\ x = Sp(fold, path[1]) /\ y = Sp(fold, path[2])
  <2>1. Len(<<x, y>>) = 2 /\ DOMAIN <<x, y>> = {1, 2} /\ <<x, y>>[1] = x /\ <<x, y>>[2] = y
    OBVIOUS
  <2> QED
    BY <2>1 DEF Spells
<1>2. ASSUME NEW x
      PROVE  Spells(fold, <<x>>, path) <=> Len(path) = 1 /\ x = Sp(fold, path[1])
  <2>1. Len(<<x>>) = 1 /\ DOMAIN <<x>> = {1} /\ <<x>>[1] = x
    OBVIOUS
  <2> QED
    BY <2>1 DEF Spells
<1>3. CASE k \in {2, 3}
  <2>1. PathOf(k) = <<Docs, NewName(k)>>
    BY <1>3 DEF PathOf
  <2> QED
    BY <1>1, <1>3, <2>1
<1>4. CASE k \notin {2, 3}
  <2>1. PathOf(k) = <<NewName(k)>>
    BY <1>4 DEF PathOf
  <2> QED
    BY <1>2, <1>4, <2>1
<1> QED
  BY <1>3, <1>4

\* A path leads to what the injector wrote under it, and to nothing else.
LEMMA LaidPath ==
    ASSUME NEW recs, Keyed(recs), Ascending(recs), NEW fold, NEW n, NEW path \in Seq(Nat),
           LaidAt(OfType(recs, InodeRec), OfType(recs, DirRec), n)
    PROVE  /\ Len(path) = 0 => LookupPath(recs, fold, path) = Inode(recs, RootDir)
           /\ \A k \in 0 .. 7 : Spells(fold, PathOf(k), path)
                                  => LookupPath(recs, fold, path) = Inode(recs, n + k)
           /\ Len(path) # 0 /\ (\A k \in 0 .. 7 : ~ Spells(fold, PathOf(k), path))
                 => LookupPath(recs, fold, path) = NotFound
<1> DEFINE one == OneBelow(recs, fold, path)
           two == TwoBelow(recs, fold, path)
           found == LookupPath(recs, fold, path)
           p1 == Sp(fold, path[1])
           p2 == Sp(fold, path[2])
           Child(x, i) == LookupChild(recs, fold, x, path[i])
           Under(x, i) == {k \in 0 .. 7 : NewParent(n, k) = x /\ NewName(k) = Sp(fold, path[i])}
<1>1. n \in Nat /\ n > RootDir /\ RootDir = 2 /\ Len(path) \in Nat
  BY DEF LaidAt, RootDir
<1>2. ASSUME NEW x, x = RootDir \/ x \in n .. n + 7, NEW i
      PROVE  /\ \A k \in Under(x, i) : Child(x, i) = n + k
             /\ Under(x, i) = {} => Child(x, i) = 0
  <2> DEFINE name == path[i]
  <2>1. /\ \A k \in 0 .. 7 : NewParent(n, k) = x /\ NewName(k) = Sp(fold, name)
                                => LookupChild(recs, fold, x, name) = n + k
        /\ (\A k \in 0 .. 7 : NewParent(n, k) = x => NewName(k) # Sp(fold, name))
               => LookupChild(recs, fold, x, name) = 0
    <3> HIDE DEF name
    <3> QED
      BY <1>2, LaidChild, Zenon
  <2> QED
    BY <2>1
<1>3. one = Child(RootDir, 1) /\ two = IF one = 0 THEN 0 ELSE Child(one, 2)
  BY DEF OneBelow, TwoBelow
<1>4. \A k \in 0 .. 7 : Spells(fold, PathOf(k), path) <=>
         IF k \in {2, 3} THEN Len(path) = 2 /\ Docs = p1 /\ NewName(k) = p2
         ELSE Len(path) = 1 /\ NewName(k) = p1
  BY SpellsPath
<1>5. \A k \in 0 .. 7 : /\ NewParent(n, k) = RootDir <=> k \notin {2, 3}
                        /\ NewParent(n, k) = n + 1 <=> k \in {2, 3}
                        /\ NewParent(n, k) \in {RootDir, n + 1}
  BY <1>1 DEF NewParent
<1>6. /\ Under(RootDir, 1) = {k \in 0 .. 7 : k \notin {2, 3} /\ NewName(k) = p1}
      /\ Under(n + 1, 2) = {k \in 0 .. 7 : k \in {2, 3} /\ NewName(k) = p2}
      /\ \A x \in n .. n + 7 : \A i : x # n + 1 => Under(x, i) = {}
  BY <1>1, <1>5
<1>7. NewName(1) = Docs /\ \A k \in 0 .. 7 : NewName(k) = Docs => k = 1
  <2>1. NewName(1) = Docs /\ 1 \in 0 .. 7
    BY NewTables
  <2> QED
    BY <2>1, NewNames
<1> HIDE DEF one, two, found, p1, p2, Child, Under
<1>8. /\ \A k \in 0 .. 7 : k \notin {2, 3} /\ NewName(k) = p1 => one = n + k
      /\ (\A k \in 0 .. 7 : k \in {2, 3} \/ NewName(k) # p1) => one = 0
  <2>1. /\ \A k \in Under(RootDir, 1) : one = n + k
        /\ Under(RootDir, 1) = {} => one = 0
    BY <1>2, <1>3
  <2> QED
    BY <1>6, <2>1
<1>9. /\ p1 = Docs => one = n + 1
      /\ p1 # Docs => one = 0 \/ (one \in n .. n + 7 /\ one # n + 1)
  <2>1. p1 = Docs => one = n + 1
    BY <1>7, <1>8
  <2>2. ASSUME p1 # Docs, NEW k \in 0 .. 7, k \notin {2, 3}, NewName(k) = p1
        PROVE  one \in n .. n + 7 /\ one # n + 1
    <3>1. one = n + k /\ k # 1
      BY <1>7, <1>8, <2>2
    <3> QED
      BY <1>1, <3>1
  <2> QED
    BY <1>8, <2>1, <2>2
<1>10. ASSUME p1 # Docs PROVE two = 0
  BY <1>2, <1>3, <1>6, <1>9, <1>10
<1>11. ASSUME p1 = Docs
       PROVE  /\ \A k \in {2, 3} : NewName(k) = p2 => two = n + k
              /\ NewName(2) # p2 /\ NewName(3) # p2 => two = 0
  <2>1. one = n + 1 /\ one # 0 /\ n + 1 \in n .. n + 7
    BY <1>1, <1>9, <1>11
  <2>2. two = Child(n + 1, 2)
    BY <1>3, <2>1
  <2> QED
    BY <1>2, <1>6, <2>1, <2>2
<1>12. two = 0 \/ Child(two, 3) = 0
  <2>1. two = 0 \/ two \in {n + 2, n + 3}
    BY <1>10, <1>11
  <2>2. \A x \in {n + 2, n + 3} : x \in n .. n + 7 /\ x # n + 1
    BY <1>1
  <2> QED
    BY <1>2, <1>6, <2>1, <2>2
<1>13. /\ Len(path) = 0 => found = Inode(recs, RootDir)
       /\ Len(path) = 1 => found = IF one = 0 THEN NotFound ELSE Inode(recs, one)
       /\ Len(path) = 2 => found = IF two = 0 THEN NotFound ELSE Inode(recs, two)
       /\ Len(path) > 2 => found = NotFound
  BY <1>12, ShallowPath, Zenon DEF one, two, found, Child
<1>14. \A k \in 0 .. 7 : n + k # 0
  BY <1>1
<1>15. ASSUME NEW k \in 0 .. 7, Spells(fold, PathOf(k), path)
       PROVE  found = Inode(recs, n + k)
  <2>1. CASE k \in {2, 3}
    <3>1. Len(path) = 2 /\ two = n + k
      BY <1>4, <1>11, <1>15, <2>1
    <3> QED
      BY <1>13, <1>14, <3>1
  <2>2. CASE k \notin {2, 3}
    <3>1. Len(path) = 1 /\ one = n + k
      BY <1>4, <1>8, <1>15, <2>2
    <3> QED
      BY <1>13, <1>14, <3>1
  <2> QED
    BY <2>1, <2>2
<1>16. ASSUME Len(path) # 0, \A k \in 0 .. 7 : ~ Spells(fold, PathOf(k), path)
       PROVE  found = NotFound
  <2>1. CASE Len(path) = 1
    <3>1. one = 0
      BY <1>4, <1>8, <1>16, <2>1
    <3> QED
      BY <1>13, <2>1, <3>1
  <2>2. CASE Len(path) = 2
    <3>1. two = 0
      <4>1. p1 = Docs => NewName(2) # p2 /\ NewName(3) # p2
        <5>1. 2 \in 0 .. 7 /\ 3 \in 0 .. 7
          OBVIOUS
        <5> QED
          BY <1>4, <1>16, <2>2, <5>1
      <4> QED
        BY <1>10, <1>11, <4>1
    <3> QED
      BY <1>13, <2>2, <3>1
  <2>3. CASE Len(path) > 2
    BY <1>13, <2>3
  <2>4. Len(path) = 1 \/ Len(path) = 2 \/ Len(path) > 2
    <3>1. \A m \in Nat : m # 0 => m = 1 \/ m = 2 \/ m > 2
      OBVIOUS
    <3> QED
      BY <1>1, <1>16, <3>1, Zenon
  <2> QED
    BY <2>1, <2>2, <2>3, <2>4
<1> QED
  BY <1>13, <1>15, <1>16 DEF found

\* An inode of the root directory, and what a volume that is mounted holds.
RootMade(I) ==
    /\ \E r \in I : r.id = RootDir
    /\ \A r \in I : r.id = RootDir => r.val.mode = "dir" /\ Shown(r.val) = 0

Laid(d) ==
    LET I == OfType(ReadNode(d.tree), InodeRec)
        E == OfType(ReadNode(d.tree), DirRec)
    IN  /\ RootMade(I)
        /\ IF d.files = 0 THEN \A e \in E : e.id # RootDir ELSE \E n : LaidAt(I, E, n)

LEMMA EmptyLaid ==
    ASSUME NEW d, EmptyVolume(d)
    PROVE  Laid(d)
<1>1. \A v : v.stream = 0 /\ ~ v.compressed => Shown(v) = 0
  BY DEF Shown
<1> QED
  BY <1>1 DEF EmptyVolume, Laid, RootMade, RootParent, RootDir

\* What an injection writes is laid down there.
LEMMA WrittenThere ==
    ASSUME IInv, SpaceInv, TreeInv, Laid(disk), pc = "write"
    PROVE  LET I == OfType(ReadNode(img.tree), InodeRec)
               E == OfType(ReadNode(img.tree), DirRec)
           IN  RootMade(I) /\ LaidAt(I, E, disk.next) /\ img.files # 0
<1> DEFINE n == disk.next
           old == OfType(ReadNode(disk.tree), InodeRec)
           was == OfType(ReadNode(disk.tree), DirRec)
           I == OfType(ReadNode(img.tree), InodeRec)
           E == OfType(ReadNode(img.tree), DirRec)
<1>1. n \in Nat /\ n > RootDir /\ RootDir = 2 /\ img.files # 0
  BY DiskFacts, WrittenCounts DEF RootDir
<1>2. /\ I = {Grown(r) : r \in old} \cup NewInodes(n) /\ E = was \cup NewDrecs(n)
      /\ \A e \in was : e.id # RootDir
      /\ \A r, q \in I : r.id = q.id => r = q
  <2>1. Paired(I, E, img.next)
    BY WrittenTree
  <2> QED
    BY <2>1, WrittenTree DEF Paired
<1>3. /\ \A r \in old : r.id \in Nat /\ InodeFields(r) /\ r = [f \in RecFields |-> r[f]]
      /\ \A r \in old : SizedVal(r.val)
      /\ \A e \in was : e.id \in Nat /\ e.id < n
  <2>1. /\ disk.kind = "container" /\ WellKept(disk) /\ Regular(disk) /\ Keyed(ReadNode(disk.tree))
        /\ Sized(disk)
    BY DiskFacts DEF TreeInv, Kept
  <2>2. Paired(old, was, n) /\ \A r \in old : r = [f \in RecFields |-> r[f]]
    BY <2>1, KeptPaired
  <2> QED
    BY <2>1, <2>2 DEF Paired, Sized, SizedVal
<1>4. RootMade(old)
  BY DEF Laid
<1> HIDE DEF n, old, was, I, E
<1>5. \A r \in old : /\ Grown(r).id = r.id /\ Grown(r).val.mode = r.val.mode
                     /\ Shown(Grown(r).val) = Shown(r.val)
  BY <1>3, GrownFacts, GrownSizes
<1>6. \A k \in 0 .. 7 : /\ NewInode(n, k).id = n + k /\ NewInode(n, k) \in NewInodes(n)
                        /\ NewDrec(n, k) \in NewDrecs(n)
  BY NewInodeFacts DEF NewInodes, NewDrecs
<1>7. RootMade(I)
  <2>1. PICK r \in old : r.id = RootDir
    BY <1>4 DEF RootMade
  <2>2. Grown(r) \in I /\ Grown(r).id = RootDir
    BY <1>2, <1>5, <2>1
  <2>3. ASSUME NEW q \in I, q.id = RootDir
        PROVE  q.val.mode = "dir" /\ Shown(q.val) = 0
    <3>1. q = Grown(r)
      BY <1>2, <2>2, <2>3
    <3> QED
      BY <1>4, <1>5, <2>1, <3>1 DEF RootMade
  <2> QED
    BY <2>2, <2>3 DEF RootMade
<1>8. LaidAt(I, E, n)
  <2>1. \A k \in 0 .. 7 : NewInode(n, k) \in I /\ NewDrec(n, k) \in E
    BY <1>2, <1>6
  <2>2. \A k \in 0 .. 7 : \A r \in I : r.id = n + k => r = NewInode(n, k)
    BY <1>2, <1>6, <2>1
  <2>3. ASSUME NEW e \in E, e.id = RootDir \/ e.id \in n .. n + 7
        PROVE  \E k \in 0 .. 7 : e = NewDrec(n, k)
    <3>1. e \notin was
      BY <1>1, <1>2, <1>3, <2>3
    <3> QED
      BY <1>2, <3>1 DEF NewDrecs
  <2> QED
    BY <1>1, <2>1, <2>2, <2>3 DEF LaidAt
<1> QED
  BY <1>1, <1>7, <1>8, Zenon DEF n, I, E

LEMMA WrittenLaid ==
    ASSUME IInv, SpaceInv, TreeInv, Laid(disk), pc = "write"
    PROVE  Laid(img)
BY WrittenThere, Zenon DEF Laid

LaidInv == disk.kind = "container" => Laid(disk)

LEMMA LaidInit == FixtureInit => LaidInv
BY EmptyAssumption, EmptyLaid DEF FixtureInit, LaidInv

LEMMA LaidStep == IInv /\ SpaceInv /\ TreeInv /\ LaidInv /\ [Inject]_fixVars => LaidInv'
<1> SUFFICES ASSUME IInv, SpaceInv, TreeInv, LaidInv, [Inject]_fixVars PROVE LaidInv'
  OBVIOUS
<1>1. CASE WriteImage
  <2>1. pc = "write" /\ disk' = img
    BY <1>1 DEF WriteImage
  <2>2. disk.kind = "container"
    BY <2>1 DEF SpaceInv, Spending
  <2>3. Laid(img)
    BY <2>1, <2>2, WrittenLaid DEF LaidInv
  <2> QED
    BY <2>1, <2>3 DEF LaidInv
<1>2. CASE WriteFails
  BY <1>2 DEF WriteFails, LaidInv, Torn
<1>3. CASE disk' = disk
  BY <1>3 DEF LaidInv
<1>4. ASSUME Load \/ LoadFails \/ AllocBlocks \/ WriteData PROVE disk' = disk
  BY <1>4, Zenon DEF Load, LoadFails, AllocBlocks, WriteData
<1>5. ASSUME BuildTree \/ BuildReferences \/ Count PROVE disk' = disk
  BY <1>5 DEF BuildTree, BuildReferences, Count
<1>6. ASSUME UNCHANGED fixVars PROVE disk' = disk
  BY <1>6 DEF fixVars
<1> QED
  BY <1>1, <1>2, <1>3, <1>4, <1>5, <1>6 DEF Inject

LEMMA VolumeLaid ==
    ASSUME LaidInv, VolumeInv, Volume.kind = "container"
    PROVE  Laid(Volume)
<1>1. CASE disk.kind = "container"
  BY <1>1 DEF LaidInv, Volume, OpenContainer
<1>2. CASE disk.kind # "container"
  <2>1. PICK i \in DOMAIN disk.parts :
          disk \in Formatted /\ disk.parts[i].apfs /\ disk.parts[i].image = Volume
    BY <1>2, MountedPart
  <2>2. EmptyVolume(Volume)
    BY <1>2, <2>1, EmptyAssumption
  <2> QED
    BY <2>2, EmptyLaid
<1> QED
  BY <1>1, <1>2

\* What was promised, in the order of the objects.
PromisedAt(k) == Promise(PathOf(k), NewMode(k) = "dir", NewSize(k))

LEMMA PromisedIs ==
    Promised = {Promise(<<>>, TRUE, 0)} \cup
               IF Volume.files = 0 THEN {} ELSE {PromisedAt(k) : k \in 0 .. 7}
<1> DEFINE hello == 28
           readme == 1000
           big == 14336
           plain == 39
           packed == 3000
           rsrc == 100000
<1>1. /\ PathOf(0) = <<Hello>> /\ PathOf(1) = <<Docs>> /\ PathOf(2) = <<Docs, Readme>>
      /\ PathOf(3) = <<Docs, BigBin>> /\ PathOf(4) = <<Link>> /\ PathOf(5) = <<PlainTxt>>
      /\ PathOf(6) = <<PackedTxt>> /\ PathOf(7) = <<PackedRsrc>>
  BY NewTables DEF PathOf
<1>2. /\ NewSize(0) = hello /\ NewSize(1) = 0 /\ NewSize(2) = readme /\ NewSize(3) = big
      /\ NewSize(4) = 0 /\ NewSize(5) = plain /\ NewSize(6) = packed /\ NewSize(7) = rsrc
  BY DEF NewSize
<1>3. /\ (NewMode(0) = "dir") = FALSE /\ (NewMode(1) = "dir") = TRUE /\ (NewMode(2) = "dir") = FALSE
      /\ (NewMode(3) = "dir") = FALSE /\ (NewMode(4) = "dir") = FALSE /\ (NewMode(5) = "dir") = FALSE
      /\ (NewMode(6) = "dir") = FALSE /\ (NewMode(7) = "dir") = FALSE
  BY NewTables
<1>4. {PromisedAt(k) : k \in 0 .. 7} =
         {PromisedAt(0), PromisedAt(1), PromisedAt(2), PromisedAt(3),
          PromisedAt(4), PromisedAt(5), PromisedAt(6), PromisedAt(7)}
  BY Eight
<1>5. Promised = {Promise(<<>>, TRUE, 0)} \cup IF Volume.files = 0 THEN {} ELSE
        {Promise(<<Hello>>, FALSE, hello), Promise(<<Docs>>, TRUE, 0),
         Promise(<<Docs, Readme>>, FALSE, readme), Promise(<<Docs, BigBin>>, FALSE, big),
         Promise(<<PlainTxt>>, FALSE, plain), Promise(<<PackedTxt>>, FALSE, packed),
         Promise(<<PackedRsrc>>, FALSE, rsrc), Promise(<<Link>>, FALSE, 0)}
  BY DEF Promised
<1> HIDE DEF hello, readme, big, plain, packed, rsrc
<1>6. /\ PromisedAt(0) = Promise(<<Hello>>, FALSE, hello)
      /\ PromisedAt(1) = Promise(<<Docs>>, TRUE, 0)
      /\ PromisedAt(2) = Promise(<<Docs, Readme>>, FALSE, readme)
      /\ PromisedAt(3) = Promise(<<Docs, BigBin>>, FALSE, big)
  BY <1>1, <1>2, <1>3, Zenon DEF PromisedAt
<1>7. /\ PromisedAt(4) = Promise(<<Link>>, FALSE, 0)
      /\ PromisedAt(5) = Promise(<<PlainTxt>>, FALSE, plain)
      /\ PromisedAt(6) = Promise(<<PackedTxt>>, FALSE, packed)
      /\ PromisedAt(7) = Promise(<<PackedRsrc>>, FALSE, rsrc)
  BY <1>1, <1>2, <1>3, Zenon DEF PromisedAt
<1>8. {PromisedAt(k) : k \in 0 .. 7} =
        {Promise(<<Hello>>, FALSE, hello), Promise(<<Docs>>, TRUE, 0),
         Promise(<<Docs, Readme>>, FALSE, readme), Promise(<<Docs, BigBin>>, FALSE, big),
         Promise(<<PlainTxt>>, FALSE, plain), Promise(<<PackedTxt>>, FALSE, packed),
         Promise(<<PackedRsrc>>, FALSE, rsrc), Promise(<<Link>>, FALSE, 0)}
  <2> DEFINE a0 == PromisedAt(0)
             a1 == PromisedAt(1)
             a2 == PromisedAt(2)
             a3 == PromisedAt(3)
             a4 == PromisedAt(4)
             a5 == PromisedAt(5)
             a6 == PromisedAt(6)
             a7 == PromisedAt(7)
  <2>1. {PromisedAt(k) : k \in 0 .. 7} = {a0, a1, a2, a3, a4, a5, a6, a7}
    BY <1>4
  <2>2. /\ a0 = Promise(<<Hello>>, FALSE, hello) /\ a1 = Promise(<<Docs>>, TRUE, 0)
        /\ a2 = Promise(<<Docs, Readme>>, FALSE, readme) /\ a3 = Promise(<<Docs, BigBin>>, FALSE, big)
        /\ a4 = Promise(<<Link>>, FALSE, 0) /\ a5 = Promise(<<PlainTxt>>, FALSE, plain)
        /\ a6 = Promise(<<PackedTxt>>, FALSE, packed) /\ a7 = Promise(<<PackedRsrc>>, FALSE, rsrc)
    BY <1>6, <1>7
  <2> HIDE DEF a0, a1, a2, a3, a4, a5, a6, a7
  <2>3. {a0, a1, a2, a3, a4, a5, a6, a7} = {a0, a1, a2, a3, a5, a6, a7, a4}
    OBVIOUS
  <2> QED
    BY <2>1, <2>2, <2>3, Zenon
<1> QED
  BY <1>5, <1>8, Zenon

LEMMA SamePathIs == \A a, b : SamePath(a, b) <=> Spells(Volume.fold, a, b)
BY DEF SamePath, Spells, Spelled, Sp

\* The inodes that a path may lead to.
LEMMA RootRead ==
    ASSUME NEW recs, Keyed(recs), Ascending(recs), RootMade(OfType(recs, InodeRec))
    PROVE  LET i == Inode(recs, RootDir) IN i.status = "ok" /\ i.mode = "dir" /\ i.size = 0
<1>1. PICK r \in OfType(recs, InodeRec) : r.id = RootDir
  BY DEF RootMade
<1>2. PICK q \in OfType(recs, InodeRec) : q.id = RootDir /\ Inode(recs, RootDir) = ParseInode(q)
  BY <1>1, InodeRead
<1>3. q.val.mode = "dir" /\ Shown(q.val) = 0
  BY <1>2 DEF RootMade
<1> QED
  BY <1>2, <1>3 DEF ParseInode, Shown

LEMMA ObjectRead ==
    ASSUME NEW recs, Keyed(recs), Ascending(recs), NEW n, NEW k \in 0 .. 7,
           LaidAt(OfType(recs, InodeRec), OfType(recs, DirRec), n)
    PROVE  LET i == Inode(recs, n + k)
           IN  /\ i.status = "ok" /\ i.mode = NewMode(k) /\ i.size = NewSize(k)
               /\ i.id = n + k /\ i.private = n + k
<1> DEFINE id == n + k
<1>1. NewInode(n, k) \in OfType(recs, InodeRec) /\ NewInode(n, k).id = id
  BY NewInodeFacts DEF LaidAt
<1>2. PICK q \in OfType(recs, InodeRec) : q.id = id /\ Inode(recs, id) = ParseInode(q)
  <2> HIDE DEF id
  <2> QED
    BY <1>1, InodeRead
<1>3. q = NewInode(n, k)
  BY <1>2 DEF LaidAt
<1>4. /\ q.id = n + k /\ q.val.private = n + k
      /\ q.val.mode = NewMode(k) /\ Shown(q.val) = NewSize(k)
  <2>1. /\ NewVal(k) = [f \in DOMAIN Zeroed |-> NewVal(k)[f]]
        /\ SizedVal(NewVal(k)) /\ Shown(NewVal(k)) = NewSize(k)
    BY ValFields, NewSizes
  <2>2. Shown(NewInode(n, k).val) = Shown(NewVal(k))
    BY <2>1, BuiltSizes DEF NewInode
  <2> QED
    BY <1>3, <2>1, <2>2, NewInodeFacts
<1> QED
  BY <1>2, <1>4 DEF ParseInode, Shown

\* An open answers with what was promised under the path.
Right(want, found) ==
    IF want = {} THEN found.status = "NotFound"
    ELSE found.status = "ok" /\ \E p \in want : (found.mode = "dir") = p.dir /\ found.size = p.size

LEMMA OpenedRight ==
    ASSUME WellKept(Volume), Keyed(VolumeRecords), Laid(Volume), NEW path \in Seq(Nat)
    PROVE  Right({p \in Promised : SamePath(p.path, path)}, Resolve(path))
<1> DEFINE recs == VolumeRecords
           I == OfType(recs, InodeRec)
           E == OfType(recs, DirRec)
           fold == Volume.fold
           found == Resolve(path)
           Want == {p \in Promised : SamePath(p.path, path)}
           Root == Promise(<<>>, TRUE, 0)
<1> SUFFICES Right(Want, found)
  OBVIOUS
<1>1. /\ Keyed(recs) /\ Ascending(recs) /\ RootMade(I)
      /\ IF Volume.files = 0 THEN \A e \in E : e.id # RootDir ELSE \E n : LaidAt(I, E, n)
  BY Zenon DEF WellKept, Laid, VolumeRecords
<1>2. found = LookupPath(recs, fold, path)
  BY DEF Resolve
<1>3. \A p : p \in Want <=> p \in Promised /\ Spells(fold, p.path, path)
  BY SamePathIs
<1>4. Len(path) \in Nat /\ Root.path = <<>> /\ Root.dir = TRUE /\ Root.size = 0 /\ Root \in Promised
  BY PromisedIs DEF Promise
<1>5. Spells(fold, <<>>, path) <=> Len(path) = 0
  BY <1>4 DEF Spells
<1>6. Root \in Want <=> Len(path) = 0
  BY <1>3, <1>4, <1>5
<1>7. NotFound.status = "NotFound"
  BY DEF NotFound
<1>8. Inode(recs, RootDir).status = "ok" /\ Inode(recs, RootDir).mode = "dir" /\ Inode(recs, RootDir).size = 0
  BY <1>1, RootRead
<1> HIDE DEF recs, I, E, fold, found, Root, Want
<1>9. ASSUME Len(path) = 0, found = Inode(recs, RootDir)
      PROVE  Right(Want, found)
  <2>1. (found.mode = "dir") = Root.dir /\ found.size = Root.size /\ found.status = "ok"
    BY <1>4, <1>8, <1>9
  <2> QED
    BY <1>6, <1>9, <2>1 DEF Right
<1>10. CASE Volume.files = 0
  <2>1. Want \subseteq {Root}
    BY <1>3, <1>10, PromisedIs, Zenon DEF Root
  <2>2. OneBelow(recs, fold, path) = 0 /\ TwoBelow(recs, fold, path) = 0
    <3>1. RootDir \in Nat /\ \A e \in E : e.id # RootDir
      BY <1>1, <1>10 DEF RootDir
    <3>2. OneBelow(recs, fold, path) = 0
      BY <1>1, <3>1, ChildFound DEF OneBelow, E
    <3> QED
      BY <3>2 DEF TwoBelow
  <2>3. /\ Len(path) = 0 => found = Inode(recs, RootDir)
        /\ Len(path) = 1 => found = NotFound
        /\ Len(path) = 2 => found = NotFound
        /\ Len(path) > 2 => found = NotFound
    BY <1>2, <2>2, ShallowPath
  <2>4. CASE Len(path) = 0
    BY <1>9, <2>3, <2>4
  <2>5. CASE Len(path) # 0
    <3>1. found = NotFound
      <4>1. \A m \in Nat : m # 0 => m = 1 \/ m = 2 \/ m > 2
        OBVIOUS
      <4> QED
        BY <1>4, <2>3, <2>5, <4>1, Zenon
    <3>2. Want = {}
      BY <1>6, <2>1, <2>5
    <3> QED
      BY <1>7, <3>1, <3>2 DEF Right
  <2> QED
    BY <2>4, <2>5
<1>11. CASE Volume.files # 0
  <2>1. PICK n : LaidAt(I, E, n)
    BY <1>1, <1>11
  <2>2. Promised = {Root} \cup {PromisedAt(k) : k \in 0 .. 7}
    BY <1>11, PromisedIs, Zenon DEF Root
  <2>3. \A k : /\ PromisedAt(k).path = PathOf(k) /\ PromisedAt(k).dir = (NewMode(k) = "dir")
               /\ PromisedAt(k).size = NewSize(k)
    BY DEF PromisedAt, Promise
  <2>4. /\ Len(path) = 0 => found = Inode(recs, RootDir)
        /\ \A k \in 0 .. 7 : Spells(fold, PathOf(k), path) => found = Inode(recs, n + k)
        /\ Len(path) # 0 /\ (\A k \in 0 .. 7 : ~ Spells(fold, PathOf(k), path)) => found = NotFound
    BY <1>1, <1>2, <2>1, LaidPath DEF I, E
  <2>5. ASSUME NEW k \in 0 .. 7, Spells(fold, PathOf(k), path)
        PROVE  Right(Want, found)
    <3>1. found.status = "ok" /\ found.mode = NewMode(k) /\ found.size = NewSize(k)
      <4>1. LET i == Inode(recs, n + k)
            IN  i.status = "ok" /\ i.mode = NewMode(k) /\ i.size = NewSize(k)
        BY <1>1, <2>1, ObjectRead DEF I, E
      <4> QED
        BY <2>4, <2>5, <4>1
    <3>2. PromisedAt(k) \in Want
      BY <1>3, <2>2, <2>3, <2>5
    <3>3. (found.mode = "dir") = PromisedAt(k).dir /\ found.size = PromisedAt(k).size
      BY <2>3, <3>1
    <3> QED
      BY <3>1, <3>2, <3>3 DEF Right
  <2>6. CASE Len(path) # 0 /\ \A k \in 0 .. 7 : ~ Spells(fold, PathOf(k), path)
    <3>1. Want = {}
      BY <1>3, <1>6, <2>2, <2>3, <2>6
    <3> QED
      BY <1>7, <2>4, <2>6, <3>1 DEF Right
  <2> QED
    BY <1>9, <2>4, <2>5, <2>6
<1> QED
  BY <1>10, <1>11

\* An answer to an open is what the path leads to, as long as it stands.
OpenInv ==
    reply.op = "open" =>
        /\ Mounted /\ reply.path \in Paths
        /\ LET found == Resolve(reply.path) IN
           /\ reply.status = found.status
           /\ found.status = "ok" => reply.info = FileInfo(found)

LEMMA OpenInit == Init => OpenInv
BY DEF Init, MountInit, OpenInv

LEMMA OpenQuiet ==
    ASSUME OpenInv, UNCHANGED fixVars, reply' = reply \/ reply'.op # "open"
    PROVE  OpenInv'
<1>1. Volume' = Volume /\ Mounted' = Mounted
  BY DEF fixVars, Volume, Mounted
<1>2. \A path : Resolve(path)' = Resolve(path)
  BY <1>1 DEF Resolve, VolumeRecords
<1>3. CASE reply'.op # "open"
  BY <1>3 DEF OpenInv
<1>4. CASE reply' = reply
  <2>1. Resolve(reply.path)' = Resolve(reply.path)
    BY <1>1, <1>4 DEF Resolve, VolumeRecords
  <2> QED
    BY <1>1, <1>4, <2>1 DEF OpenInv
<1> QED
  BY <1>3, <1>4

LEMMA OpenStep == OpenInv /\ [Next]_vars => OpenInv'
<1> SUFFICES ASSUME OpenInv, [Next]_vars PROVE OpenInv'
  OBVIOUS
<1>1. CASE Inject /\ UNCHANGED <<mountVars, cliVars>>
  <2>1. reply.op # "open"
    <3>1. SUFFICES ASSUME pc = "idle", runs = MaxRuns PROVE FALSE
      BY <3>1 DEF OpenInv, Mounted
    <3>2. ~ (runs < MaxRuns)
      BY <3>1, BoundsAssumption
    <3> QED
      BY <1>1, <3>1, <3>2 DEF Inject, Load, LoadFails, AllocBlocks, WriteData, BuildTree,
         BuildReferences, Count, WriteImage, WriteFails
  <2> QED
    BY <1>1, <2>1 DEF OpenInv, mountVars
<1>2. CASE MountStep /\ status = "idle" /\ UNCHANGED <<fixVars, cliVars>>
  <2>1. ASSUME NEW path \in Paths, Open(path) PROVE OpenInv'
    <3>1. Volume' = Volume /\ Mounted' = Mounted
      BY <1>2 DEF fixVars, Volume, Mounted
    <3> DEFINE found == Resolve(path)
    <3>2. Mounted /\ reply' = [op |-> "open", status |-> found.status, path |-> path,
                               info |-> IF found.status = "ok" THEN FileInfo(found) ELSE NoImage]
      BY <2>1 DEF Open
    <3>3. reply'.path = path
      BY <3>2
    <3>4. Resolve(reply.path)' = found
      BY <3>1, <3>3 DEF Resolve, VolumeRecords
    <3>5. FileInfo(found)' = FileInfo(found)
      BY <3>1 DEF FileInfo, Resolve, VolumeRecords
    <3> HIDE DEF found
    <3>6. reply'.status = found.status /\ (found.status = "ok" => reply'.info = FileInfo(found))
      BY <3>2
    <3> QED
      BY <3>1, <3>2, <3>3, <3>4, <3>6 DEF OpenInv, FileInfo
  <2>2. CASE ~ \E path \in Paths : Open(path)
    <3>1. reply'.op # "open"
      BY <1>2, <2>2 DEF MountStep, OpenFails, Close, GetFileInfo, Refuse, ListRefused, FillFails,
         ReadDirectory, Answer
    <3> QED
      BY <1>2, <3>1, OpenQuiet
  <2> QED
    BY <2>1, <2>2
<1>3. CASE CliStep /\ UNCHANGED <<fixVars, mountVars>>
  BY <1>3, OpenQuiet DEF mountVars
<1>4. CASE UNCHANGED vars
  BY <1>4, OpenQuiet DEF vars, mountVars
<1> QED
  BY <1>1, <1>2, <1>3, <1>4 DEF Next

(* A path opens exactly if the injector wrote something there, spelled as  *)
(* the volume allows, with its kind and size, for paths of any depth, on   *)
(* any image that the injector leaves, whatever calls fail (fs.rs:90-97    *)
(* and 141-154, lookup_child and lookup_path, the records of the injector).*)
THEOREM OpensWhatIsThere == Spec => []OpensWhatWasWritten
<1>1. SpaceInv /\ TreeInv /\ VolumeInv /\ LaidInv /\ OpenInv => OpensWhatWasWritten
  <2> SUFFICES ASSUME SpaceInv, TreeInv, VolumeInv, LaidInv, OpenInv, reply.op = "open"
               PROVE  LET want == {p \in Promised : SamePath(p.path, reply.path)} IN
                      IF want = {} THEN reply.status = "NotFound"
                      ELSE /\ reply.status = "ok"
                           /\ \E p \in want : reply.info.dir = p.dir /\ reply.info.size = p.size
    BY DEF OpensWhatWasWritten
  <2> DEFINE want == {p \in Promised : SamePath(p.path, reply.path)}
             found == Resolve(reply.path)
  <2>1. /\ Volume.kind = "container" /\ reply.path \in Seq(Nat)
        /\ reply.status = found.status
        /\ found.status = "ok" => reply.info = FileInfo(found)
    BY PathsAssumption DEF OpenInv, Mounted
  <2>2. WellKept(Volume) /\ Keyed(VolumeRecords) /\ Laid(Volume)
    BY <2>1, VolumeSound, VolumeLaid
  <2>3. Right(want, found)
    BY <2>1, <2>2, OpenedRight
  <2> HIDE DEF want, found
  <2>4. FileInfo(found).dir = (found.mode = "dir") /\ FileInfo(found).size = found.size
    BY DEF FileInfo
  <2>5. CASE want = {}
    BY <2>1, <2>3, <2>5 DEF Right, want
  <2>6. CASE want # {}
    <3>1. found.status = "ok" /\ \E p \in want : (found.mode = "dir") = p.dir /\ found.size = p.size
      BY <2>3, <2>6 DEF Right
    <3>2. \E p \in want : reply.info.dir = p.dir /\ reply.info.size = p.size
      BY <2>1, <2>4, <3>1
    <3> QED
      BY <2>1, <2>6, <3>1, <3>2 DEF want
  <2> QED
    BY <2>5, <2>6
<1>2. InjectSpec => []LaidInv
  BY LaidInit, LaidStep, Inductive, SpaceInductive, TreeInductive, PTL DEF InjectSpec
<1>3. Spec => []IInv /\ []SpaceInv /\ []TreeInv /\ []LaidInv
  BY <1>2, OnlyInjectorWrites, Inductive, SpaceInductive, TreeInductive, PTL
<1>4. Spec => []BufferInv
  BY BufferInvInit, BufferInvNext, PTL DEF Spec
<1>5. Spec => []VolumeInv
  BY <1>3, <1>4, VolumeInit, VolumeStep, PTL DEF Spec
<1>6. Spec => []OpenInv
  BY OpenInit, OpenStep, PTL DEF Spec
<1> QED
  BY <1>1, <1>3, <1>5, <1>6, PTL
----------------------------------------------------------------------------
\* What the six runs of blocks hold: whose content, and from which chunk on.
ContentOf == <<Hello, Readme, BigBin, BigBin, BigBin, PackedRsrc>>
FirstChunk == <<0, 0, 0, 2, 3, 0>>
ChunksIn == <<1, 1, 2, 1, 1, RsrcBlocks>>

Stored(content, b) ==
    \A i \in 1 .. 6 : \A j \in 0 .. ChunksIn[i] - 1 :
        b[i] + j \in DOMAIN content /\ content[b[i] + j] = <<ContentOf[i], FirstChunk[i] + j>>

LEMMA ChunkCounts ==
    /\ DivCeil(28, BlockBytes) = 1 /\ DivCeil(1000, BlockBytes) = 1 /\ DivCeil(8192, BlockBytes) = 2
    /\ DivCeil(4096, BlockBytes) = 1 /\ DivCeil(2048, BlockBytes) = 1
    /\ DivCeil(14336, BlockBytes) = 4 /\ DivCeil(RsrcBytes, BlockBytes) = RsrcBlocks
<1>1. DivCeil(RsrcBytes, BlockBytes) = RsrcBlocks
  BY DEF RsrcBlocks
<1>2. /\ DivCeil(28, 4096) = 1 /\ DivCeil(1000, 4096) = 1 /\ DivCeil(8192, 4096) = 2
      /\ DivCeil(4096, 4096) = 1 /\ DivCeil(2048, 4096) = 1 /\ DivCeil(14336, 4096) = 4
  BY DEF DivCeil
<1> QED
  BY <1>1, <1>2, BlockSizeAssumption

LEMMA ChunkTables ==
    /\ ChunksIn[1] = 1 /\ ChunksIn[2] = 1 /\ ChunksIn[3] = 2
    /\ ChunksIn[4] = 1 /\ ChunksIn[5] = 1 /\ ChunksIn[6] = RsrcBlocks
    /\ FirstChunk[1] = 0 /\ FirstChunk[2] = 0 /\ FirstChunk[3] = 0
    /\ FirstChunk[4] = 2 /\ FirstChunk[5] = 3 /\ FirstChunk[6] = 0
    /\ ContentOf[1] = Hello /\ ContentOf[2] = Readme /\ ContentOf[3] = BigBin
    /\ ContentOf[4] = BigBin /\ ContentOf[5] = BigBin /\ ContentOf[6] = PackedRsrc
BY DEF ChunksIn, FirstChunk, ContentOf

LEMMA ChunksFit ==
    \A i \in 1 .. 6 : /\ ChunksIn[i] \in Nat /\ ChunksIn[i] <= Wanted[i] /\ Wanted[i] \in Nat
                      /\ FirstChunk[i] \in Nat
<1>1. \A i \in {1, 2, 3, 4, 5, 6} : /\ ChunksIn[i] \in Nat /\ ChunksIn[i] <= Wanted[i]
                                    /\ Wanted[i] \in Nat /\ FirstChunk[i] \in Nat
  BY ChunkTables, WantedAt, BlocksAssumption
<1> QED
  BY <1>1, Six, Zenon

ChunkRun(s, i) == [x \in s .. s + ChunksIn[i] - 1 |-> <<ContentOf[i], FirstChunk[i] + x - s>>]

LEMMA ChunksOf ==
    ASSUME NEW s, NEW name, NEW from, NEW bytes, NEW i,
           ContentOf[i] = name, FirstChunk[i] = from, DivCeil(bytes, BlockBytes) = ChunksIn[i]
    PROVE  Chunks(name, s, from, bytes) = ChunkRun(s, i)
BY Zenon DEF Chunks, ChunkRun

LEMMA WrittenRuns == Written = {ChunkRun(blk[i], i) : i \in 1 .. 6}
<1> DEFINE c1 == Chunks(Hello, blk[1], 0, 28)
           c2 == Chunks(Readme, blk[2], 0, 1000)
           c3 == Chunks(BigBin, blk[3], 0, 8192)
           c4 == Chunks(BigBin, blk[4], 2, 4096)
           c5 == Chunks(BigBin, blk[5], 3, 2048)
           c6 == Chunks(PackedRsrc, blk[6], 0, RsrcBytes)
           r1 == ChunkRun(blk[1], 1)
           r2 == ChunkRun(blk[2], 2)
           r3 == ChunkRun(blk[3], 3)
           r4 == ChunkRun(blk[4], 4)
           r5 == ChunkRun(blk[5], 5)
           r6 == ChunkRun(blk[6], 6)
<1>1. Written = {c1, c2, c3, c4, c5, c6}
  BY DEF Written
<1>2. c1 = r1
  BY ChunkCounts, ChunkTables, ChunksOf
<1>3. c2 = r2
  BY ChunkCounts, ChunkTables, ChunksOf
<1>4. c3 = r3
  BY ChunkCounts, ChunkTables, ChunksOf
<1>5. c4 = r4
  BY ChunkCounts, ChunkTables, ChunksOf
<1>6. c5 = r5
  BY ChunkCounts, ChunkTables, ChunksOf
<1>7. c6 = r6
  BY ChunkCounts, ChunkTables, ChunksOf
<1>8. {ChunkRun(blk[i], i) : i \in 1 .. 6} = {r1, r2, r3, r4, r5, r6}
  BY Six
<1> HIDE DEF c1, c2, c3, c4, c5, c6, r1, r2, r3, r4, r5, r6
<1> QED
  BY <1>1, <1>2, <1>3, <1>4, <1>5, <1>6, <1>7, <1>8

\* A run of content lies in its allocation.
LEMMA RunInside ==
    ASSUME NEW i \in 1 .. 6, blk[i] \in Nat
    PROVE  DOMAIN ChunkRun(blk[i], i) \subseteq Blk(i)
<1>1. blk[i] .. blk[i] + ChunksIn[i] - 1 \subseteq blk[i] .. blk[i] + Wanted[i] - 1
  BY ChunksFit
<1> QED
  BY <1>1, Zenon DEF Blk, Marked, ChunkRun

\* No call of write_data spoils what another one wrote.
LEMMA ContentWritten ==
    ASSUME IInv, pc = "alloc", Len(blk) = Len(Wanted), NEW content
    PROVE  Stored(Overwritten(content, Written), blk)
<1>1. Len(blk) = 6 /\ \A i \in 1 .. 6 : blk[i] \in Nat
  BY WantedPositive, FirstBlocks
<1>2. \A i, m \in 1 .. 6 : i # m => Blk(i) \cap Blk(m) = {}
  <2>1. \A i, m \in 1 .. 6 : i < m => Blk(i) \cap Blk(m) = {}
    BY <1>1 DEF IInv, NothingShared
  <2>2. \A i, m \in 1 .. 6 : i # m => i < m \/ m < i
    OBVIOUS
  <2> QED
    BY <2>1, <2>2
<1> SUFFICES ASSUME NEW i \in 1 .. 6, NEW j \in 0 .. ChunksIn[i] - 1
             PROVE  LET over == Overwritten(content, Written)
                    IN  /\ blk[i] + j \in DOMAIN over
                        /\ over[blk[i] + j] = <<ContentOf[i], FirstChunk[i] + j>>
  BY DEF Stored
<1> DEFINE x == blk[i] + j
           run(m) == ChunkRun(blk[m], m)
           over == Overwritten(content, Written)
<1>3. \A m \in 1 .. 6 : DOMAIN run(m) = blk[m] .. blk[m] + ChunksIn[m] - 1
  BY DEF ChunkRun
<1>4. x \in blk[i] .. blk[i] + ChunksIn[i] - 1
  BY <1>1, ChunksFit
<1>5. run(i)[x] = <<ContentOf[i], FirstChunk[i] + j>>
  <2>1. FirstChunk[i] + x - blk[i] = FirstChunk[i] + j
    BY <1>1, ChunksFit
  <2> QED
    BY <1>4, <2>1, Zenon DEF ChunkRun
<1> HIDE DEF x, run
<1>6. x \in DOMAIN run(i) /\ \A m \in 1 .. 6 : DOMAIN run(m) \subseteq Blk(m)
  <2>1. x \in DOMAIN run(i)
    BY <1>3, <1>4
  <2>2. ASSUME NEW m \in 1 .. 6
        PROVE  DOMAIN run(m) \subseteq Blk(m)
    BY <1>1, RunInside DEF run
  <2> QED
    BY <2>1, <2>2
<1>7. \A m \in 1 .. 6 : x \in DOMAIN run(m) => m = i
  BY <1>2, <1>6
<1>8. run(i) \in Written /\ \A c \in Written : \E m \in 1 .. 6 : c = run(m)
  BY WrittenRuns DEF run
<1>9. (CHOOSE c \in Written : x \in DOMAIN c) = run(i)
  BY <1>6, <1>7, <1>8
<1>10. x \in DOMAIN content \cup UNION {DOMAIN c : c \in Written}
  BY <1>6, <1>8
<1>11. x \in DOMAIN over
  BY <1>10 DEF Overwritten
<1>12. over[x] = run(i)[x]
  BY <1>6, <1>8, <1>9, <1>10 DEF Overwritten
<1> QED
  BY <1>5, <1>11, <1>12 DEF x

\* What a step does to the data of the blocks of the copy.
LEMMA ContentMoves ==
    ASSUME IInv, [Inject]_fixVars
    PROVE  \/ pc' = "idle"
           \/ Load /\ pc' = "alloc" /\ disk' = disk /\ img' = disk
           \/ WriteData
           \/ /\ disk' = disk /\ img'.content = img.content
              /\ \/ pc = "alloc" /\ pc' = "alloc"
                 \/ pc \in {"tree", "refs", "count", "write"} /\ blk' = blk
                 \/ pc # "idle" /\ pc' = pc /\ blk' = blk
<1>1. {"content", "tree", "refs", "next", "files", "dirs", "links", "allocCount", "alloced",
       "stale", "used", "chunkFree", "devFree"} \subseteq Fields
  BY DEF Fields
<1>2. ASSUME LoadFails \/ WriteImage \/ WriteFails PROVE pc' = "idle"
  BY <1>2 DEF LoadFails, WriteImage, WriteFails, Ends
<1>3. ASSUME Load PROVE pc' = "idle" \/ (pc' = "alloc" /\ disk' = disk /\ img' = disk)
  BY <1>3 DEF Load, Ends
<1>4. CASE AllocBlocks
  <2>1. pc = "alloc" /\ disk' = disk
    BY <1>4, Zenon DEF AllocBlocks
  <2>3. \/ Ends("panic")
        \/ /\ \E u, c, e, t : img' = [img EXCEPT !.used = u, !.chunkFree = c, !.devFree = e, !.stale = t]
           /\ pc' = pc
    BY <1>4, Zenon DEF AllocBlocks
  <2>4. CASE Ends("panic")
    BY <2>4, Zenon DEF Ends
  <2>5. CASE ~ Ends("panic")
    <3>1. PICK u, c, e, t : img' = [img EXCEPT !.used = u, !.chunkFree = c, !.devFree = e, !.stale = t]
      BY <2>3, <2>5, Zenon
    <3>2. img'.content = [img EXCEPT !.used = u, !.chunkFree = c, !.devFree = e, !.stale = t].content
      BY <3>1, Zenon
    <3>3. pc' = pc
      BY <2>3, <2>5, Zenon
    <3>4. img'.content = img.content
      BY <1>1, <2>1, <3>2, CopyFacts
    <3> QED
      BY <2>1, <3>3, <3>4
  <2> QED
    BY <2>4, <2>5
<1>5. CASE BuildTree
  <2>1. pc = "tree" /\ disk' = disk
    BY <1>5, Zenon DEF BuildTree
  <2>2. \A t, u : [img EXCEPT !.tree = t, !.stale = u].content = img.content
    BY <1>1, <2>1, CopyFacts
  <2>3. Ends("panic") \/ ((\E t, u : img' = [img EXCEPT !.tree = t, !.stale = u]) /\ blk' = blk)
    BY <1>5, Zenon DEF BuildTree
  <2> QED
    BY <2>1, <2>2, <2>3, Zenon DEF Ends
<1>6. CASE BuildReferences
  <2>1. pc = "refs" /\ disk' = disk
    BY <1>6, Zenon DEF BuildReferences
  <2>2. \A t, u : [img EXCEPT !.refs = t, !.stale = u].content = img.content
    BY <1>1, <2>1, CopyFacts
  <2>3. Ends("panic") \/ ((\E t, u : img' = [img EXCEPT !.refs = t, !.stale = u]) /\ blk' = blk)
    BY <1>6, Zenon DEF BuildReferences
  <2> QED
    BY <2>1, <2>2, <2>3, Zenon DEF Ends
<1>7. CASE Count
  <2>1. /\ pc = "count" /\ blk' = blk /\ disk' = disk
        /\ img' = [img EXCEPT !.next = NextAfter(@), !.files = @ + 6, !.dirs = @ + 1,
                              !.links = @ + 1, !.allocCount = @ + Total, !.alloced = @ + Total,
                              !.stale = Fixed({"volume"}, {"volume"})]
    BY <1>7 DEF Count
  <2>2. img'.content = img.content
    BY <1>1, <2>1, CopyFacts
  <2> QED
    BY <2>1, <2>2
<1>8. CASE UNCHANGED fixVars
  <2>1. disk' = disk /\ img'.content = img.content /\ pc' = pc /\ blk' = blk
    BY <1>8 DEF fixVars
  <2> QED
    BY <2>1
<1> QED
  BY <1>2, <1>3, <1>4, <1>5, <1>6, <1>7, <1>8 DEF Inject

LEMMA ContentOver ==
    ASSUME IInv, pc # "idle"
    PROVE  \A c : [img EXCEPT !.content = c].content = c
<1>1. "content" \in Fields
  BY DEF Fields
<1> QED
  BY <1>1, CopyFacts

ContentInv == pc \in {"tree", "refs", "count", "write"} => Stored(img.content, blk)

LEMMA ContentStep == IInv /\ ContentInv /\ [Inject]_fixVars => ContentInv'
<1> SUFFICES ASSUME IInv, ContentInv, [Inject]_fixVars PROVE ContentInv'
  OBVIOUS
<1>1. CASE WriteData
  <2>1. /\ pc = "alloc" /\ Len(blk) = Len(Wanted) /\ blk' = blk
        /\ img' = [img EXCEPT !.content = Overwritten(@, Written)]
    BY <1>1 DEF WriteData
  <2>2. img'.content = Overwritten(img.content, Written)
    BY <2>1, ContentOver
  <2>3. Stored(img'.content, blk)
    BY <2>1, <2>2, ContentWritten
  <2> QED
    BY <2>1, <2>3 DEF ContentInv
<1> QED
  BY <1>1, ContentMoves DEF ContentInv

(* The data of the blocks in use in image d are in image e what they were. *)
Untouched(d, e) ==
    \A b \in d.used : /\ b \in DOMAIN e.content <=> b \in DOMAIN d.content
                      /\ b \in DOMAIN d.content => e.content[b] = d.content[b]

UntouchedInv == pc # "idle" => Untouched(disk, img)

LEMMA UntouchedStep == IInv /\ UntouchedInv /\ [Inject]_fixVars => UntouchedInv'
<1> SUFFICES ASSUME IInv, UntouchedInv, [Inject]_fixVars PROVE UntouchedInv'
  OBVIOUS
<1>1. CASE WriteData
  <2>1. /\ pc = "alloc" /\ Len(blk) = Len(Wanted) /\ disk' = disk
        /\ img' = [img EXCEPT !.content = Overwritten(@, Written)]
    BY <1>1 DEF WriteData
  <2> DEFINE over == Overwritten(img.content, Written)
  <2>2. img'.content = over
    BY <2>1, ContentOver
  <2>3. ASSUME NEW b \in disk.used
        PROVE  /\ b \in DOMAIN over <=> b \in DOMAIN img.content
               /\ b \in DOMAIN img.content => over[b] = img.content[b]
    <3>1. Len(blk) = 6 /\ \A i \in 1 .. 6 : blk[i] \in Nat
      BY <2>1, WantedPositive, FirstBlocks
    <3>2. \A i \in 1 .. 6 : b \notin DOMAIN ChunkRun(blk[i], i)
      <4>1. \A i \in 1 .. 6 : DOMAIN ChunkRun(blk[i], i) \subseteq Blk(i)
        BY <3>1, RunInside
      <4>2. \A i \in 1 .. 6 : Blk(i) \subseteq AllBlocks \ disk.used
        BY <2>1, <3>1 DEF IInv, NothingShared
      <4> QED
        BY <4>1, <4>2
    <3>3. \A c \in Written : b \notin DOMAIN c
      BY <3>2, WrittenRuns
    <3> QED
      BY <3>3 DEF Overwritten
  <2> HIDE DEF over
  <2> QED
    BY <2>1, <2>2, <2>3 DEF UntouchedInv, Untouched
<1>2. CASE Load /\ pc' = "alloc" /\ disk' = disk /\ img' = disk
  BY <1>2 DEF UntouchedInv, Untouched
<1>3. CASE /\ disk' = disk /\ img'.content = img.content /\ pc # "idle"
  BY <1>3 DEF UntouchedInv, Untouched
<1>4. CASE pc' = "idle"
  BY <1>4 DEF UntouchedInv
<1> QED
  BY <1>1, <1>2, <1>3, <1>4, ContentMoves

(* What the injector writes over an image leaves the data of every block   *)
(* that the image had in use as they were, whatever the image's size,      *)
(* layout and content: of data it writes only what it allocated, and that  *)
(* was free (alloc_blocks, write_data, main.rs:543-597, 668-744).  The     *)
(* nodes, counts and bitmap, which are not data, it rewrites in place.     *)
THEOREM NothingOverwritten ==
    InjectSpec => [][disk'.kind = "container" => Untouched(disk, disk')]_fixVars
<1>1. FixtureInit => UntouchedInv
  BY DEF FixtureInit, UntouchedInv
<1>2. IInv /\ UntouchedInv /\ [Inject]_fixVars
         => [disk'.kind = "container" => Untouched(disk, disk')]_fixVars
  <2> SUFFICES ASSUME UntouchedInv, Inject, disk'.kind = "container"
               PROVE  Untouched(disk, disk')
    OBVIOUS
  <2>1. CASE WriteImage
    BY <2>1 DEF WriteImage, UntouchedInv
  <2>2. CASE disk' = disk
    BY <2>2 DEF Untouched
  <2>3. ASSUME Load \/ LoadFails \/ AllocBlocks \/ WriteData PROVE disk' = disk
    BY <2>3, Zenon DEF Load, LoadFails, AllocBlocks, WriteData
  <2>4. ASSUME BuildTree \/ BuildReferences \/ Count PROVE disk' = disk
    BY <2>4, Zenon DEF BuildTree, BuildReferences, Count
  <2>5. ~ WriteFails
    BY DEF WriteFails, Torn
  <2> QED
    BY <2>1, <2>2, <2>3, <2>4, <2>5 DEF Inject
<1> QED
  BY <1>1, <1>2, UntouchedStep, Inductive, PTL DEF InjectSpec

\* What a file needs to be read on an image that was injected into.
Holding(d, n, b) ==
    LET recs == ReadNode(d.tree) IN
    /\ LaidAt(OfType(recs, InodeRec), OfType(recs, DirRec), n)
    /\ RsrcFork(n) \in OfType(recs, XattrRec) /\ Target(n) \in OfType(recs, XattrRec)
    /\ \A r \in OfType(recs, XattrRec) : r.id \in n .. n + 7 => r \in NewXattrs(n)
    /\ NewExtents(n, b) \subseteq OfType(recs, FileExtent)
    /\ \A i \in 1 .. 6 : b[i] \in Nat
    /\ Stored(d.content, b)

HoldingInv == disk.kind = "container" /\ disk.files # 0 => \E n, b : Holding(disk, n, b)

LEMMA WrittenHolding ==
    ASSUME IInv, SpaceInv, TreeInv, ContentInv, Laid(disk), pc = "write"
    PROVE  Holding(img, disk.next, blk)
<1> DEFINE n == disk.next
           I == OfType(ReadNode(img.tree), InodeRec)
           E == OfType(ReadNode(img.tree), DirRec)
           A == OfType(ReadNode(img.tree), XattrRec)
           old == OfType(ReadNode(disk.tree), XattrRec)
           X == OfType(ReadNode(img.tree), FileExtent)
<1>1. LaidAt(I, E, n)
  BY WrittenThere
<1>2. A = old \cup NewXattrs(n) /\ NewExtents(n, blk) \subseteq X
  BY WrittenTree
<1>3. n \in Nat /\ \A r \in old : r.id \in Nat /\ r.id < n
  <2>1. n \in Nat /\ WellKept(disk) /\ Keyed(ReadNode(disk.tree))
    BY DiskFacts
  <2> QED
    BY <2>1 DEF WellKept, OfType, Keyed
<1>4. Stored(img.content, blk)
  BY DEF ContentInv
<1>5. \A i \in 1 .. 6 : blk[i] \in Nat
  BY FirstBlocks DEF SpaceInv, Spending
<1>6. RsrcFork(n) \in A /\ Target(n) \in A
  BY <1>2 DEF NewXattrs
<1>7. \A r \in A : r.id \in n .. n + 7 => r \in NewXattrs(n)
  <2> HIDE DEF n, A, old
  <2> QED
    BY <1>2, <1>3
<1> QED
  BY <1>1, <1>2, <1>4, <1>5, <1>6, <1>7, Zenon DEF Holding

LEMMA HoldingInit == FixtureInit => HoldingInv
BY EmptyAssumption DEF FixtureInit, HoldingInv, EmptyVolume

LEMMA HoldingStep ==
    IInv /\ SpaceInv /\ TreeInv /\ LaidInv /\ ContentInv /\ HoldingInv /\ [Inject]_fixVars => HoldingInv'
<1> SUFFICES ASSUME IInv, SpaceInv, TreeInv, LaidInv, ContentInv, HoldingInv, [Inject]_fixVars
             PROVE  HoldingInv'
  OBVIOUS
<1>1. CASE WriteImage
  <2>1. pc = "write" /\ disk' = img
    BY <1>1 DEF WriteImage
  <2>2. disk.kind = "container"
    BY <2>1 DEF SpaceInv, Spending
  <2>3. Holding(img, disk.next, blk)
    BY <2>1, <2>2, WrittenHolding DEF LaidInv
  <2> QED
    BY <2>1, <2>3 DEF HoldingInv
<1>2. CASE WriteFails
  BY <1>2 DEF WriteFails, HoldingInv, Torn
<1>3. CASE disk' = disk
  BY <1>3 DEF HoldingInv
<1>4. ASSUME Load \/ LoadFails \/ AllocBlocks \/ WriteData PROVE disk' = disk
  BY <1>4, Zenon DEF Load, LoadFails, AllocBlocks, WriteData
<1>5. ASSUME BuildTree \/ BuildReferences \/ Count PROVE disk' = disk
  BY <1>5 DEF BuildTree, BuildReferences, Count
<1>6. ASSUME UNCHANGED fixVars PROVE disk' = disk
  BY <1>6 DEF fixVars
<1> QED
  BY <1>1, <1>2, <1>3, <1>4, <1>5, <1>6 DEF Inject

\* The first attribute of a name is the only one.
OnlyAttr(recs, id, name, a) ==
    /\ a \in OfType(recs, XattrRec) /\ a.id = id /\ a.name = name
    /\ \A r \in OfType(recs, XattrRec) : r.id = id /\ r.name = name => r = a

LEMMA XattrFound ==
    ASSUME NEW recs, Keyed(recs), Ascending(recs), NEW id \in Nat, NEW name,
           NEW a, OnlyAttr(recs, id, name, a)
    PROVE  Xattr(recs, id, name) = a.val
<1> DEFINE s == Scan(recs, id, XattrRec)
           hits == {i \in DOMAIN s : s[i].name = name}
           A == OfType(recs, XattrRec)
<1> USE DEF OnlyAttr
<1>1. XattrRec \in Nat
  BY DEF XattrRec
<1>2. PICK k \in Nat : \A i \in DOMAIN s :
         /\ k + i \in DOMAIN recs /\ s[i] = recs[k + i]
         /\ recs[k + i].id = id /\ recs[k + i].type = XattrRec
  <2>1. TakenFrom(s, recs, id, XattrRec)
    BY ScanFacts, Zenon
  <2> HIDE DEF s
  <2> QED
    BY <2>1, Zenon DEF TakenFrom
<1>3. \E i \in DOMAIN s : s[i] = a
  BY <1>1, ScanAll
<1>4. DOMAIN s = 1 .. Len(s) /\ Len(s) \in Nat
  BY ScanFacts
<1>5. \A i \in DOMAIN s : s[i] \in A /\ s[i].id = id
  BY <1>2 DEF OfType
<1>6. Xattr(recs, id, name) = IF hits = {} THEN NotFound ELSE s[First(hits)].val
  BY Zenon DEF Xattr
<1> HIDE DEF s, A
<1>7. hits # {} /\ hits \in SUBSET Nat
  BY <1>3, <1>4
<1>8. First(hits) \in hits
  <2> HIDE DEF hits
  <2> QED
    BY <1>7, LeastNumber
<1>9. s[First(hits)] = a
  BY <1>5, <1>8 DEF A
<1> QED
  BY <1>6, <1>7, <1>9

LEMMA AttrKeys ==
    ASSUME NEW n \in Nat
    PROVE  /\ RsrcFork(n).id = n + 7 /\ RsrcFork(n).name = RsrcAttr
           /\ RsrcFork(n).val = [stream |-> Streams(n), size |-> RsrcBytes]
           /\ Target(n).id = n + 4 /\ Target(n).name = SymlinkAttr /\ Target(n).val = [target |-> Hello]
           /\ \A r \in NewXattrs(n) : r.id = n + 7 /\ r.name = RsrcAttr => r = RsrcFork(n)
           /\ \A r \in NewXattrs(n) : r.id = n + 4 /\ r.name = SymlinkAttr => r = Target(n)
<1>1. \A id, name, bytes, val : /\ BuildXattr(id, name, bytes, val).id = id
                                /\ BuildXattr(id, name, bytes, val).name = name
                                /\ BuildXattr(id, name, bytes, val).val = val
  BY DEF BuildXattr, Rec
<1>2. /\ RsrcFork(n).id = n + 7 /\ RsrcFork(n).name = RsrcAttr
      /\ RsrcFork(n).val = [stream |-> Streams(n), size |-> RsrcBytes]
  BY <1>1 DEF RsrcFork
<1>3. Target(n).id = n + 4 /\ Target(n).name = SymlinkAttr /\ Target(n).val = [target |-> Hello]
  BY <1>1 DEF Target
<1>4. Sizes(n).id = n + 5 /\ PackedAttr(n).id = n + 6 /\ ForkAttr(n).id = n + 7 /\ ForkAttr(n).name = DecmpfsAttr
  BY <1>1 DEF Sizes, PackedAttr, ForkAttr
<1>5. RsrcAttr # DecmpfsAttr
  BY DEF RsrcAttr, DecmpfsAttr
<1>6. NewXattrs(n) = {Sizes(n), PackedAttr(n), ForkAttr(n), RsrcFork(n), Target(n)}
  BY Zenon DEF NewXattrs
<1> QED
  BY <1>2, <1>3, <1>4, <1>5, <1>6

\* A chunk of a file is found in the extent that has it.
FoundIn(n, b, i) ==
    LET e == NewExtent(n, b, i)
    IN  /\ e.id = Owner(n)[i] /\ e.val.phys = b[i] /\ e.number \div BlockBytes = FirstChunk[i]
        /\ BlocksOf(e) = b[i] .. b[i] + Wanted[i] - 1

LEMMA ExtentFacts == ASSUME NEW n \in Nat, NEW b, NEW i \in 1 .. 6, b[i] \in Nat PROVE FoundIn(n, b, i)
<1> DEFINE e == NewExtent(n, b, i)
<1>1. e.val.phys = b[i] /\ e.val.len = Wanted[i] * BlockBytes /\ e.id = Owner(n)[i] /\ e.number = Logical[i]
  BY DEF NewExtent, BuildFileExtent, Rec
<1>2. \A m \in Nat, x \in Nat \ {0} : (m * x) \div x = m
  OBVIOUS
<1>3. e.val.len \div BlockBytes = Wanted[i]
  BY <1>1, <1>2, WantedPositive, BlockBytesAssumption, Zenon
<1>4. Logical[i] \div BlockBytes = FirstChunk[i]
  <2>1. (2 * BlockBytes) \div BlockBytes = 2 /\ (3 * BlockBytes) \div BlockBytes = 3 /\ 0 \div BlockBytes = 0
    BY BlockSizeAssumption
  <2>2. \A m \in {1, 2, 3, 4, 5, 6} : Logical[m] \div BlockBytes = FirstChunk[m]
    BY <2>1, LogicalAt, ChunkTables
  <2> QED
    BY <2>2, Six, Zenon
<1> HIDE DEF e
<1>5. BlocksOf(e) = b[i] .. b[i] + Wanted[i] - 1
  BY <1>1, <1>3, Zenon DEF BlocksOf
<1> QED
  BY <1>1, <1>4, <1>5 DEF e, FoundIn

LEMMA StreamHolds ==
    ASSUME NEW n \in Nat, NEW b, NEW recs, Keyed(recs), Ascending(recs),
           NewExtents(n, b) \subseteq OfType(recs, FileExtent),
           \A i \in 1 .. 6 : b[i] \in Nat, Stored(disk.content, b),
           NEW stream \in Nat, NEW name, NEW bytes,
           \A k \in 0 .. DivCeil(bytes, BlockBytes) - 1 : \E i \in 1 .. 6 :
              /\ Owner(n)[i] = stream /\ ContentOf[i] = name
              /\ k - FirstChunk[i] \in 0 .. ChunksIn[i] - 1
    PROVE  Holds(Extents(recs, stream), name, bytes)
<1> DEFINE s == Extents(recs, stream)
<1> SUFFICES ASSUME NEW k \in 0 .. DivCeil(bytes, BlockBytes) - 1
             PROVE  \E m \in DOMAIN s :
                       LET x == s[m].val.phys + k - s[m].number \div BlockBytes IN
                       /\ x \in BlocksOf(s[m]) /\ x \in DOMAIN disk.content
                       /\ disk.content[x] = <<name, k>>
  BY Zenon DEF Holds
<1>1. PICK i \in 1 .. 6 : /\ Owner(n)[i] = stream /\ ContentOf[i] = name
                          /\ k - FirstChunk[i] \in 0 .. ChunksIn[i] - 1
  OBVIOUS
<1> DEFINE e == NewExtent(n, b, i)
           j == k - FirstChunk[i]
<1>2. /\ e.id = stream /\ e.val.phys = b[i] /\ e.number \div BlockBytes = FirstChunk[i]
      /\ BlocksOf(e) = b[i] .. b[i] + Wanted[i] - 1
  <2>1. b[i] \in Nat
    OBVIOUS
  <2>2. /\ NewExtent(n, b, i).id = Owner(n)[i] /\ NewExtent(n, b, i).val.phys = b[i]
        /\ NewExtent(n, b, i).number \div BlockBytes = FirstChunk[i]
        /\ BlocksOf(NewExtent(n, b, i)) = b[i] .. b[i] + Wanted[i] - 1
    <3>1. FoundIn(n, b, i)
      BY <2>1, ExtentFacts
    <3> QED
      BY <3>1, Zenon DEF FoundIn
  <2> QED
    BY <1>1, <2>2, Zenon
<1>3. e \in OfType(recs, FileExtent)
  BY DEF NewExtents
<1> HIDE DEF e
<1>4. PICK m \in DOMAIN s : s[m] = e
  <2>1. FileExtent \in Nat
    BY DEF FileExtent
  <2> QED
    BY <1>2, <1>3, <2>1, ScanAll DEF Extents
<1>5. k \in Int /\ FirstChunk[i] \in Nat /\ ChunksIn[i] \in Nat /\ ChunksIn[i] <= Wanted[i] /\ Wanted[i] \in Nat
      /\ b[i] \in Nat
  BY ChunksFit
<1>6. b[i] + k - FirstChunk[i] = b[i] + j /\ FirstChunk[i] + j = k /\ b[i] + j \in b[i] .. b[i] + Wanted[i] - 1
  BY <1>1, <1>5
<1>7. j \in 0 .. ChunksIn[i] - 1
  BY <1>1
<1> HIDE DEF j
<1>8. b[i] + j \in DOMAIN disk.content /\ disk.content[b[i] + j] = <<name, k>>
  BY <1>1, <1>6, <1>7 DEF Stored
<1> HIDE DEF s
<1>9. s[m].val.phys + k - s[m].number \div BlockBytes = b[i] + j
  BY <1>2, <1>4, <1>6
<1> QED
  BY <1>2, <1>4, <1>6, <1>8, <1>9

\* The path of an object leads to its inode.
LEMMA OwnPath ==
    ASSUME NEW recs, Keyed(recs), Ascending(recs), NEW fold, NEW n, NEW k \in 0 .. 7,
           LaidAt(OfType(recs, InodeRec), OfType(recs, DirRec), n)
    PROVE  LookupPath(recs, fold, PathOf(k)) = Inode(recs, n + k)
<1>1. NewName(k) \in Nat /\ NewName(k) = Sp(fold, NewName(k))
  <2>1. NewName(k) \in 1 .. 10
    BY NewNames
  <2> QED
    BY <2>1 DEF Sp, Upper
<1>2. Docs \in Nat /\ Docs = Sp(fold, Docs)
  BY DEF Docs, Sp, Upper
<1>3. PathOf(k) \in Seq(Nat)
  BY <1>1, <1>2 DEF PathOf
<1>4. Spells(fold, PathOf(k), PathOf(k))
  <2>1. CASE k \in {2, 3}
    <3>1. /\ PathOf(k) = <<Docs, NewName(k)>> /\ Len(PathOf(k)) = 2
          /\ PathOf(k)[1] = Docs /\ PathOf(k)[2] = NewName(k)
      BY <2>1 DEF PathOf
    <3> QED
      BY <1>1, <1>2, <2>1, <3>1, SpellsPath
  <2>2. CASE k \notin {2, 3}
    <3>1. PathOf(k) = <<NewName(k)>> /\ Len(PathOf(k)) = 1 /\ PathOf(k)[1] = NewName(k)
      BY <2>2 DEF PathOf
    <3> QED
      BY <1>1, <2>2, <3>1, SpellsPath
  <2> QED
    BY <2>1, <2>2
<1> QED
  BY <1>3, <1>4, LaidPath

\* What is held can be read.
LEMMA HeldIsRead ==
    ASSUME WellKept(disk), Keyed(Records), NEW n, NEW b, Holding(disk, n, b)
    PROVE  FilesReadBack
<1> DEFINE recs == Records
           At(path) == LookupPath(recs, disk.fold, path)
           I == OfType(recs, InodeRec)
           E == OfType(recs, DirRec)
           A == OfType(recs, XattrRec)
           X == OfType(recs, FileExtent)
<1>1. /\ Keyed(recs) /\ Ascending(recs) /\ LaidAt(I, E, n)
      /\ RsrcFork(n) \in A /\ Target(n) \in A /\ \A r \in A : r.id \in n .. n + 7 => r \in NewXattrs(n)
      /\ NewExtents(n, b) \subseteq X /\ \A i \in 1 .. 6 : b[i] \in Nat
      /\ Stored(disk.content, b)
  BY Zenon DEF WellKept, Holding, Records
<1>2. n \in Nat
  BY <1>1 DEF LaidAt
<1> HIDE DEF recs
<1>3. ASSUME NEW k \in 0 .. 7
      PROVE  /\ At(PathOf(k)).status = "ok" /\ At(PathOf(k)).mode = NewMode(k) /\ At(PathOf(k)).size = NewSize(k)
             /\ At(PathOf(k)).id = n + k /\ At(PathOf(k)).private = n + k
  <2>1. At(PathOf(k)) = Inode(recs, n + k)
    BY <1>1, OwnPath, Zenon
  <2>2. /\ Inode(recs, n + k).status = "ok" /\ Inode(recs, n + k).mode = NewMode(k)
        /\ Inode(recs, n + k).size = NewSize(k)
        /\ Inode(recs, n + k).id = n + k /\ Inode(recs, n + k).private = n + k
    BY <1>1, ObjectRead, Zenon
  <2> QED
    BY <2>1, <2>2, Zenon
<1>4. /\ PathOf(0) = <<Hello>> /\ PathOf(2) = <<Docs, Readme>> /\ PathOf(3) = <<Docs, BigBin>>
      /\ PathOf(4) = <<Link>> /\ PathOf(7) = <<PackedRsrc>>
  BY NewTables DEF PathOf
<1>5. ASSUME NEW stream \in Nat, NEW name, NEW bytes,
             \A k \in 0 .. DivCeil(bytes, BlockBytes) - 1 : \E i \in 1 .. 6 :
                /\ Owner(n)[i] = stream /\ ContentOf[i] = name
                /\ k - FirstChunk[i] \in 0 .. ChunksIn[i] - 1
      PROVE  Holds(Extents(recs, stream), name, bytes)
  BY <1>1, <1>2, <1>5, StreamHolds
<1>6. ReadsBack(recs, <<Hello>>, 28)
  <2>1. Holds(Extents(recs, n), Hello, 28)
    <3>1. ASSUME NEW k \in 0 .. DivCeil(28, BlockBytes) - 1
          PROVE  \E i \in 1 .. 6 : /\ Owner(n)[i] = n /\ ContentOf[i] = Hello
                                   /\ k - FirstChunk[i] \in 0 .. ChunksIn[i] - 1
      <4>1. Owner(n)[1] = n /\ ContentOf[1] = Hello /\ k - FirstChunk[1] \in 0 .. ChunksIn[1] - 1
        BY ChunkCounts, ChunkTables, OwnerAt
      <4> QED
        BY <4>1
    <3> QED
      BY <1>2, <1>5, <3>1
  <2>2. /\ At(<<Hello>>).status = "ok" /\ At(<<Hello>>).size = 28 /\ At(<<Hello>>).private = n
    <3>1. /\ At(PathOf(0)).status = "ok" /\ At(PathOf(0)).size = NewSize(0) /\ At(PathOf(0)).private = n + 0
      BY <1>3
    <3>2. NewSize(0) = 28 /\ n + 0 = n
      BY <1>2 DEF NewSize
    <3> QED
      BY <1>4, <3>1, <3>2
  <2>3. <<Hello>>[Len(<<Hello>>)] = Hello
    OBVIOUS
  <2> QED
    BY <2>1, <2>2, <2>3 DEF ReadsBack
<1>7. ReadsBack(recs, <<Docs, Readme>>, 1000)
  <2>1. Holds(Extents(recs, n + 2), Readme, 1000)
    <3>1. ASSUME NEW k \in 0 .. DivCeil(1000, BlockBytes) - 1
          PROVE  \E i \in 1 .. 6 : /\ Owner(n)[i] = n + 2 /\ ContentOf[i] = Readme
                                   /\ k - FirstChunk[i] \in 0 .. ChunksIn[i] - 1
      <4>1. Owner(n)[2] = n + 2 /\ ContentOf[2] = Readme /\ k - FirstChunk[2] \in 0 .. ChunksIn[2] - 1
        BY ChunkCounts, ChunkTables, OwnerAt
      <4> QED
        BY <4>1
    <3> QED
      BY <1>2, <1>5, <3>1
  <2>2. /\ At(<<Docs, Readme>>).status = "ok" /\ At(<<Docs, Readme>>).size = 1000
        /\ At(<<Docs, Readme>>).private = n + 2
    <3>1. At(PathOf(2)).status = "ok" /\ At(PathOf(2)).size = NewSize(2) /\ At(PathOf(2)).private = n + 2
      BY <1>3
    <3>2. NewSize(2) = 1000
      BY DEF NewSize
    <3> QED
      BY <1>4, <3>1, <3>2
  <2>3. <<Docs, Readme>>[Len(<<Docs, Readme>>)] = Readme
    OBVIOUS
  <2> QED
    BY <2>1, <2>2, <2>3 DEF ReadsBack
<1>8. ReadsBack(recs, <<Docs, BigBin>>, 14336)
  <2>1. Holds(Extents(recs, n + 3), BigBin, 14336)
    <3>1. ASSUME NEW k \in 0 .. DivCeil(14336, BlockBytes) - 1
          PROVE  \E i \in 1 .. 6 : /\ Owner(n)[i] = n + 3 /\ ContentOf[i] = BigBin
                                   /\ k - FirstChunk[i] \in 0 .. ChunksIn[i] - 1
      <4>1. k \in {0, 1, 2, 3}
        BY ChunkCounts
      <4>2. /\ Owner(n)[3] = n + 3 /\ ContentOf[3] = BigBin /\ FirstChunk[3] = 0 /\ ChunksIn[3] = 2
            /\ Owner(n)[4] = n + 3 /\ ContentOf[4] = BigBin /\ FirstChunk[4] = 2 /\ ChunksIn[4] = 1
            /\ Owner(n)[5] = n + 3 /\ ContentOf[5] = BigBin /\ FirstChunk[5] = 3 /\ ChunksIn[5] = 1
        BY ChunkTables, OwnerAt
      <4>3. CASE k \in {0, 1}
        <5>1. k - FirstChunk[3] \in 0 .. ChunksIn[3] - 1
          BY <4>2, <4>3
        <5> QED
          BY <4>2, <5>1
      <4>4. CASE k = 2
        <5>1. k - FirstChunk[4] \in 0 .. ChunksIn[4] - 1
          BY <4>2, <4>4
        <5> QED
          BY <4>2, <5>1
      <4>5. CASE k = 3
        <5>1. k - FirstChunk[5] \in 0 .. ChunksIn[5] - 1
          BY <4>2, <4>5
        <5> QED
          BY <4>2, <5>1
      <4> QED
        BY <4>1, <4>3, <4>4, <4>5
    <3> QED
      BY <1>2, <1>5, <3>1
  <2>2. /\ At(<<Docs, BigBin>>).status = "ok" /\ At(<<Docs, BigBin>>).size = 14336
        /\ At(<<Docs, BigBin>>).private = n + 3
    <3>1. At(PathOf(3)).status = "ok" /\ At(PathOf(3)).size = NewSize(3) /\ At(PathOf(3)).private = n + 3
      BY <1>3
    <3>2. NewSize(3) = 14336
      BY DEF NewSize
    <3> QED
      BY <1>4, <3>1, <3>2
  <2>3. <<Docs, BigBin>>[Len(<<Docs, BigBin>>)] = BigBin
    OBVIOUS
  <2> QED
    BY <2>1, <2>2, <2>3 DEF ReadsBack
<1>9. Xattr(recs, At(<<PackedRsrc>>).id, RsrcAttr) = [stream |-> Streams(n), size |-> RsrcBytes]
  <2>1. At(<<PackedRsrc>>).id = n + 7
    BY <1>3, <1>4
  <2>2. ASSUME NEW r \in A, r.id = n + 7, r.name = RsrcAttr PROVE r = RsrcFork(n)
    <3>1. n + 7 \in n .. n + 7
      BY <1>2
    <3>2. r \in NewXattrs(n)
      BY <1>1, <2>2, <3>1
    <3> QED
      BY <1>2, <2>2, <3>2, AttrKeys
  <2>3. Xattr(recs, n + 7, RsrcAttr) = RsrcFork(n).val
    <3>1. n + 7 \in Nat
      BY <1>2
    <3>2. RsrcFork(n) \in OfType(recs, XattrRec) /\ RsrcFork(n).id = n + 7 /\ RsrcFork(n).name = RsrcAttr
      BY <1>1, <1>2, AttrKeys
    <3>3. \A r \in OfType(recs, XattrRec) : r.id = n + 7 /\ r.name = RsrcAttr => r = RsrcFork(n)
      BY <2>2
    <3>4. OnlyAttr(recs, n + 7, RsrcAttr, RsrcFork(n))
      BY <3>2, <3>3 DEF OnlyAttr
    <3> QED
      BY <1>1, <3>1, <3>4, XattrFound
  <2> QED
    BY <1>2, <2>1, <2>3, AttrKeys
<1>10. Holds(Extents(recs, Streams(n)), PackedRsrc, RsrcBytes)
  <2>1. ASSUME NEW k \in 0 .. DivCeil(RsrcBytes, BlockBytes) - 1
        PROVE  \E i \in 1 .. 6 : /\ Owner(n)[i] = Streams(n) /\ ContentOf[i] = PackedRsrc
                                 /\ k - FirstChunk[i] \in 0 .. ChunksIn[i] - 1
    <3>1. /\ Owner(n)[6] = Streams(n) /\ ContentOf[6] = PackedRsrc
          /\ k - FirstChunk[6] \in 0 .. ChunksIn[6] - 1
      BY ChunkCounts, ChunkTables, OwnerAt
    <3> QED
      BY <3>1
  <2>2. Streams(n) \in Nat
    BY <1>2 DEF Streams
  <2> QED
    BY <1>5, <2>1, <2>2
<1>11. ReadLink(recs, At(<<Link>>)) = [target |-> Hello]
  <2>1. At(<<Link>>).id = n + 4 /\ At(<<Link>>).mode = "link"
    <3>1. At(PathOf(4)).id = n + 4 /\ At(PathOf(4)).mode = NewMode(4)
      BY <1>3
    <3> QED
      BY <1>4, <3>1, NewTables
  <2>2. ASSUME NEW r \in A, r.id = n + 4, r.name = SymlinkAttr PROVE r = Target(n)
    <3>1. n + 4 \in n .. n + 7
      BY <1>2
    <3>2. r \in NewXattrs(n)
      BY <1>1, <2>2, <3>1
    <3> QED
      BY <1>2, <2>2, <3>2, AttrKeys
  <2>3. Xattr(recs, n + 4, SymlinkAttr) = Target(n).val
    <3>1. n + 4 \in Nat
      BY <1>2
    <3>2. Target(n) \in OfType(recs, XattrRec) /\ Target(n).id = n + 4 /\ Target(n).name = SymlinkAttr
      BY <1>1, <1>2, AttrKeys
    <3>3. \A r \in OfType(recs, XattrRec) : r.id = n + 4 /\ r.name = SymlinkAttr => r = Target(n)
      BY <2>2
    <3>4. OnlyAttr(recs, n + 4, SymlinkAttr, Target(n))
      BY <3>2, <3>3 DEF OnlyAttr
    <3> QED
      BY <1>1, <3>1, <3>4, XattrFound
  <2> QED
    BY <1>2, <2>1, <2>3, AttrKeys DEF ReadLink
<1>12. ForkReadsBack(recs)
  <2>1. Holds(Extents(recs, [stream |-> Streams(n), size |-> RsrcBytes].stream), PackedRsrc,
              [stream |-> Streams(n), size |-> RsrcBytes].size)
    BY <1>10
  <2> QED
    BY <1>9, <2>1, Zenon DEF ForkReadsBack
<1>13. ReadLink(recs, LookupPath(recs, disk.fold, <<Link>>)) = [target |-> Hello]
  BY <1>11
<1> QED
  BY <1>6, <1>7, <1>8, <1>12, <1>13 DEF recs, FilesReadBack

(* Every injected file reads back block by block, through its inode and    *)
(* extents or its resource fork, on images of any size and layout and      *)
(* whatever runs of blocks were found (main.rs:636-666, 694-802).          *)
THEOREM FilesAreReadBack == InjectSpec => []FilesReadBack
<1>1. IInv /\ SpaceInv /\ TreeInv /\ HoldingInv => FilesReadBack
  <2> SUFFICES ASSUME SpaceInv, TreeInv, HoldingInv, disk.kind = "container", disk.files > 0
               PROVE  FilesReadBack
    BY DEF FilesReadBack, Readable
  <2>1. WellKept(disk) /\ Keyed(Records)
    BY DEF TreeInv, Kept, SpaceInv, Sound, Records
  <2>2. PICK n, b : Holding(disk, n, b)
    BY DEF HoldingInv
  <2> QED
    BY <2>1, <2>2, HeldIsRead
<1>2. FixtureInit => ContentInv
  BY DEF FixtureInit, ContentInv
<1>3. InjectSpec => []LaidInv
  BY LaidInit, LaidStep, Inductive, SpaceInductive, TreeInductive, PTL DEF InjectSpec
<1>4. InjectSpec => []ContentInv
  BY <1>2, ContentStep, Inductive, PTL DEF InjectSpec
<1>5. InjectSpec => []HoldingInv
  BY <1>3, <1>4, HoldingInit, HoldingStep, Inductive, SpaceInductive, TreeInductive, PTL DEF InjectSpec
<1> QED
  BY <1>1, <1>5, Inductive, SpaceInductive, TreeInductive, PTL

(* The same of every image that is mounted or printed.                     *)
THEOREM MountedFilesReadBack == Spec => []FilesReadBack
BY FilesAreReadBack, OnlyInjectorWrites, PTL

----------------------------------------------------------------------------
\* The directories of a volume that is mounted, in full.
Furnished(d) ==
    LET I == OfType(ReadNode(d.tree), InodeRec)
        E == OfType(ReadNode(d.tree), DirRec)
    IN  IF d.files = 0
        THEN d.dirs = 0 /\ d.links = 0 /\ \A e \in E : e.id = RootParent
        ELSE /\ d.files = 6 /\ d.dirs = 1 /\ d.links = 1
             /\ \E n : LaidAt(I, E, n) /\ \A e \in E : e.id = RootParent \/ e \in NewDrecs(n)

LEMMA EmptyFurnished ==
    ASSUME NEW d, EmptyVolume(d)
    PROVE  Furnished(d)
BY DEF EmptyVolume, Furnished

LEMMA WrittenFurnished ==
    ASSUME IInv, SpaceInv, TreeInv, Laid(disk), Furnished(disk), pc = "write"
    PROVE  Furnished(img)
<1> DEFINE n == disk.next
           was == OfType(ReadNode(disk.tree), DirRec)
           I == OfType(ReadNode(img.tree), InodeRec)
           E == OfType(ReadNode(img.tree), DirRec)
<1>1. LaidAt(I, E, n) /\ img.files # 0
  BY WrittenThere
<1>2. E = was \cup NewDrecs(n) /\ \A e \in was : e.id # RootDir
  BY WrittenTree
<1>3. disk.files = 0 /\ disk.dirs = 0 /\ disk.links = 0 /\ \A e \in was : e.id = RootParent
  <2>1. SUFFICES ASSUME disk.files # 0 PROVE FALSE
    BY DEF Furnished
  <2>2. PICK m : LaidAt(OfType(ReadNode(disk.tree), InodeRec), was, m)
    BY <2>1 DEF Furnished
  <2>3. NewDrec(m, 0) \in was /\ NewDrec(m, 0).id = RootDir
    <3>1. 0 \in 0 .. 7 /\ 0 \notin {2, 3}
      OBVIOUS
    <3>2. NewDrec(m, 0) \in was
      BY <2>2, <3>1, Zenon DEF LaidAt
    <3>3. NewParent(m, 0) = RootDir
      BY <3>1, NewNames
    <3> QED
      BY <3>1, <3>2, <3>3, NewDrecFacts
  <2> QED
    BY <1>2, <2>3
<1>4. img.files = 6 /\ img.dirs = 1 /\ img.links = 1
  <2>1. img.files = disk.files + 6 /\ img.dirs = disk.dirs + 1 /\ img.links = disk.links + 1
    BY DEF TreeInv, Building
  <2> QED
    BY <1>3, <2>1
<1>5. \A e \in E : e.id = RootParent \/ e \in NewDrecs(n)
  BY <1>2, <1>3
<1> QED
  BY <1>1, <1>4, <1>5, Zenon DEF Furnished

FurnishedInv == disk.kind = "container" => Furnished(disk)

LEMMA FurnishedInit == FixtureInit => FurnishedInv
BY EmptyAssumption, EmptyFurnished DEF FixtureInit, FurnishedInv

LEMMA FurnishedStep ==
    IInv /\ SpaceInv /\ TreeInv /\ LaidInv /\ FurnishedInv /\ [Inject]_fixVars => FurnishedInv'
<1> SUFFICES ASSUME IInv, SpaceInv, TreeInv, LaidInv, FurnishedInv, [Inject]_fixVars
             PROVE  FurnishedInv'
  OBVIOUS
<1>1. CASE WriteImage
  <2>1. pc = "write" /\ disk' = img
    BY <1>1 DEF WriteImage
  <2>2. disk.kind = "container"
    BY <2>1 DEF SpaceInv, Spending
  <2>3. Furnished(img)
    BY <2>1, <2>2, WrittenFurnished DEF LaidInv, FurnishedInv
  <2> QED
    BY <2>1, <2>3 DEF FurnishedInv
<1>2. CASE WriteFails
  BY <1>2 DEF WriteFails, FurnishedInv, Torn
<1>3. CASE disk' = disk
  BY <1>3 DEF FurnishedInv
<1>4. ASSUME Load \/ LoadFails \/ AllocBlocks \/ WriteData PROVE disk' = disk
  BY <1>4, Zenon DEF Load, LoadFails, AllocBlocks, WriteData
<1>5. ASSUME BuildTree \/ BuildReferences \/ Count PROVE disk' = disk
  BY <1>5 DEF BuildTree, BuildReferences, Count
<1>6. ASSUME UNCHANGED fixVars PROVE disk' = disk
  BY <1>6 DEF fixVars
<1> QED
  BY <1>1, <1>2, <1>3, <1>4, <1>5, <1>6 DEF Inject

LEMMA VolumeFurnished ==
    ASSUME FurnishedInv, VolumeInv, Volume.kind = "container"
    PROVE  Furnished(Volume)
<1>1. CASE disk.kind = "container"
  BY <1>1 DEF FurnishedInv, Volume, OpenContainer
<1>2. CASE disk.kind # "container"
  <2>1. PICK i \in DOMAIN disk.parts :
          disk \in Formatted /\ disk.parts[i].apfs /\ disk.parts[i].image = Volume
    BY <1>2, MountedPart
  <2>2. EmptyVolume(Volume)
    BY <1>2, <2>1, EmptyAssumption
  <2> QED
    BY <2>2, EmptyFurnished
<1> QED
  BY <1>1, <1>2

\* What a directory shows of its records.
Shows(e) == [name |-> e.name, file |-> e.val.file, dtype |-> e.val.dtype]

ShowsDirectory(s, recs, dir) ==
    /\ s \in Seq({s[i] : i \in DOMAIN s})
    /\ \A i \in DOMAIN s : \E e \in OfType(recs, DirRec) : e.id = dir /\ s[i] = Shows(e)
    /\ \A e \in OfType(recs, DirRec) : e.id = dir => \E i \in DOMAIN s : s[i] = Shows(e)

LEMMA DirectoryShows ==
    ASSUME NEW recs, Keyed(recs), Ascending(recs), NEW dir \in Nat
    PROVE  ShowsDirectory(ReadDirInode(recs, dir), recs, dir)
<1> DEFINE t == Scan(recs, dir, DirRec)
           s == ReadDirInode(recs, dir)
           E == OfType(recs, DirRec)
<1>1. DirRec \in Nat
  BY DEF DirRec
<1>2. Len(t) \in Nat /\ DOMAIN t = 1 .. Len(t)
  BY ScanFacts
<1>3. PICK k \in Nat : \A i \in DOMAIN t :
         /\ k + i \in DOMAIN recs /\ t[i] = recs[k + i]
         /\ recs[k + i].id = dir /\ recs[k + i].type = DirRec
  <2>1. TakenFrom(t, recs, dir, DirRec)
    BY ScanFacts, Zenon
  <2> HIDE DEF t
  <2> QED
    BY <2>1, Zenon DEF TakenFrom
<1>4. \A i \in DOMAIN t : t[i] \in E /\ t[i].id = dir
  <2> HIDE DEF t
  <2> QED
    BY <1>3 DEF OfType
<1>5. \A e \in E : e.id = dir => \E i \in DOMAIN t : t[i] = e
  BY <1>1, ScanAll
<1>6. s = [i \in DOMAIN t |-> Shows(t[i])]
  BY Zenon DEF ReadDirInode, Shows
<1> HIDE DEF t, s, E
<1>7. DOMAIN s = 1 .. Len(t) /\ \A i \in DOMAIN t : i \in DOMAIN s /\ s[i] = Shows(t[i])
  BY <1>2, <1>6
<1>8. s \in Seq({s[i] : i \in DOMAIN s})
  BY <1>2, <1>6, <1>7
<1>9. ASSUME NEW i \in DOMAIN s PROVE \E e \in E : e.id = dir /\ s[i] = Shows(e)
  BY <1>2, <1>4, <1>7
<1>10. ASSUME NEW e \in E, e.id = dir PROVE \E i \in DOMAIN s : s[i] = Shows(e)
  BY <1>5, <1>7, <1>10
<1> QED
  BY <1>8, <1>9, <1>10 DEF s, E, ShowsDirectory

----------------------------------------------------------------------------
\* What is left of a sequence behind its m-th element.
Rest(s, m) == SubSeq(s, m + 1, Len(s))

\* What `tree` has printed in the end, of the entries of the two directories.
Line(e, depth) == [name |-> e.name, file |-> e.file, depth |-> depth]

TreeLines(top, below, p) ==
    [i \in 1 .. Len(top) + Len(below) |->
        IF i <= p THEN Line(top[i], 0)
        ELSE IF i <= p + Len(below) THEN Line(below[i - p], 1)
        ELSE Line(top[i - Len(below)], 0)]

\* The p-th entry of the root is the only directory of the volume, if it has one.
OneFolder(top, below, p) ==
    /\ top = ReadDirInode(VolumeRecords, RootDir)
    /\ \/ top = <<>> /\ below = <<>> /\ p = 0
       \/ /\ p \in DOMAIN top /\ top[p].dtype = DtDir
          /\ below = ReadDirInode(VolumeRecords, top[p].file)
    /\ \A i \in DOMAIN top : top[i].dtype = DtDir => i = p
    /\ \A i \in DOMAIN below : below[i].dtype # DtDir

\* How far the tools are.
Listed == ReadDirInode(VolumeRecords, Resolve(command.path).id)
Lines == ListLines(Listed)

Listing(m) ==
    /\ m \in 0 .. Len(Listed) /\ printed = SubSeq(Lines, 1, m)
    /\ status = "running" => stack = <<Rest(Listed, m)>>
    /\ status = "ok" => m = Len(Listed)

Touring(top, below, p, m) ==
    /\ OneFolder(top, below, p)
    /\ m \in 0 .. Len(top) + Len(below) /\ printed = SubSeq(TreeLines(top, below, p), 1, m)
    /\ status = "running" =>
          \/ m < p /\ stack = <<Rest(top, m)>>
          \/ m >= p + Len(below) /\ stack = <<Rest(top, m - Len(below))>>
          \/ /\ p \in DOMAIN top /\ m \in p .. p + Len(below)
             /\ stack = <<Rest(top, p), Rest(below, m - p)>>
    /\ status = "ok" => m = Len(top) + Len(below)

\* An element more of what is printed, an element less of what is left.
LEMMA FurtherOn ==
    ASSUME NEW S, NEW s \in Seq(S), NEW m \in 0 .. Len(s)
    PROVE  /\ m < Len(s) => /\ Append(SubSeq(s, 1, m), s[m + 1]) = SubSeq(s, 1, m + 1)
                            /\ Rest(s, m) # <<>> /\ Head(Rest(s, m)) = s[m + 1]
                            /\ Tail(Rest(s, m)) = Rest(s, m + 1)
           /\ m = Len(s) => Rest(s, m) = <<>> /\ SubSeq(s, 1, m) = s
<1>1. Len(s) \in Nat /\ m \in Nat
  OBVIOUS
<1>2. ASSUME m < Len(s)
      PROVE  /\ Append(SubSeq(s, 1, m), s[m + 1]) = SubSeq(s, 1, m + 1)
             /\ Rest(s, m) # <<>> /\ Head(Rest(s, m)) = s[m + 1]
             /\ Tail(Rest(s, m)) = Rest(s, m + 1)
  <2>1. m + 1 \in 1 .. Len(s) /\ Len(s) \in m + 1 .. Len(s) /\ 1 \in 1 .. Len(s) /\ m + 1 \in 1 .. Len(s)
        /\ m + 1 - 1 = m
    BY <1>1, <1>2
  <2>2. Head(Rest(s, m)) = s[m + 1] /\ Tail(Rest(s, m)) = SubSeq(s, m + 1 + 1, Len(s))
    BY <2>1, HeadTailOfSubSeq DEF Rest
  <2>3. SubSeq(s, 1, m + 1) = SubSeq(s, 1, m + 1 - 1) \o <<s[m + 1]>>
    BY <2>1, SubSeqRecursiveSecond
  <2>4. SubSeq(s, 1, m) \in Seq(S) /\ s[m + 1] \in S
    <3>1. 0 \in Nat /\ 0 <= m /\ m <= Len(s) /\ 0 + 1 = 1
      BY <1>1, <1>2
    <3>2. SubSeq(s, 0 + 1, m) \in Seq(S)
      BY <1>1, <3>1, Stretch
    <3> QED
      BY <2>1, <3>1, <3>2, ElementOfSeq
  <2>5. Append(SubSeq(s, 1, m), s[m + 1]) = SubSeq(s, 1, m) \o <<s[m + 1]>>
    BY <2>4
  <2>6. Len(Rest(s, m)) = Len(s) - m
    BY <1>1, <1>2, Stretch DEF Rest
  <2>7. Rest(s, m) # <<>>
    BY <1>1, <1>2, <2>6
  <2> QED
    BY <2>1, <2>2, <2>3, <2>5, <2>7 DEF Rest
<1>3. ASSUME m = Len(s) PROVE Rest(s, m) = <<>> /\ SubSeq(s, 1, m) = s
  <2>1. m + 1 \in Int /\ Len(s) \in Int /\ Len(s) < m + 1
    BY <1>1, <1>3
  <2> QED
    BY <1>3, <2>1, SubSeqEmpty, SubSeqFull DEF Rest
<1> QED
  BY <1>2, <1>3

\* The tables of the injector, as a directory of the volume shows them.
NewEntry(n, k) == [name |-> NewName(k), file |-> n + k, dtype |-> Dtype(NewMode(k))]

LEMMA EntryOf ==
    ASSUME NEW n \in Nat, NEW k \in 0 .. 7
    PROVE  /\ Shows(NewDrec(n, k)) = NewEntry(n, k)
           /\ NewEntry(n, k).dtype = DtDir <=> k = 1
<1>1. Shows(NewDrec(n, k)) = NewEntry(n, k)
  BY NewDrecFacts DEF Shows, NewEntry
<1>2. DtDir # DtLnk /\ DtDir # DtReg
  BY DEF DtDir, DtLnk, DtReg
<1>3. Dtype("dir") = DtDir /\ Dtype("link") = DtLnk /\ Dtype("file") = DtReg
  BY DEF Dtype
<1>4. NewMode(k) = IF k = 1 THEN "dir" ELSE IF k = 4 THEN "link" ELSE "file"
  BY DEF NewMode
<1> QED
  BY <1>1, <1>2, <1>3, <1>4 DEF NewEntry

\* The entries of a directory are those of its objects.
Shown8(s, n, dir) ==
    /\ s \in Seq({s[i] : i \in DOMAIN s})
    /\ \A i \in DOMAIN s : \E k \in 0 .. 7 : NewParent(n, k) = dir /\ s[i] = NewEntry(n, k)
    /\ \A k \in 0 .. 7 : NewParent(n, k) = dir => \E i \in DOMAIN s : s[i] = NewEntry(n, k)
    /\ \A i, j \in DOMAIN s : i < j => s[i].name # s[j].name

LEMMA NewDirectory ==
    ASSUME NEW d, WellKept(d), Keyed(ReadNode(d.tree)), NEW n,
           LaidAt(OfType(ReadNode(d.tree), InodeRec), OfType(ReadNode(d.tree), DirRec), n),
           NEW dir, dir = RootDir \/ dir = n + 1
    PROVE  Shown8(ReadDirInode(ReadNode(d.tree), dir), n, dir)
<1> DEFINE recs == ReadNode(d.tree)
           E == OfType(recs, DirRec)
           s == ReadDirInode(recs, dir)
<1>1. n \in Nat /\ n > RootDir /\ dir \in Nat /\ (dir = RootDir \/ dir \in n .. n + 7) /\ RootDir \in Nat
  BY DEF LaidAt, RootDir
<1>2. Ascending(recs)
  BY DEF WellKept
<1>3. \A i, j \in DOMAIN s : i < j => s[i].name # s[j].name
  BY DirectoryNamed
<1>4. /\ s \in Seq({s[i] : i \in DOMAIN s})
      /\ \A i \in DOMAIN s : \E e \in E : e.id = dir /\ s[i] = Shows(e)
      /\ \A e \in E : e.id = dir => \E i \in DOMAIN s : s[i] = Shows(e)
  <2>1. Keyed(recs)
    OBVIOUS
  <2>2. ShowsDirectory(s, recs, dir)
    <3> HIDE DEF recs
    <3> QED
      BY <1>1, <1>2, <2>1, DirectoryShows
  <2> QED
    BY <2>2, Zenon DEF ShowsDirectory
<1>5. /\ \A e \in E : e.id = dir => \E k \in 0 .. 7 : e = NewDrec(n, k)
      /\ \A k \in 0 .. 7 : NewDrec(n, k) \in E
  BY <1>1 DEF LaidAt
<1>6. \A k \in 0 .. 7 : NewDrec(n, k).id = NewParent(n, k) /\ Shows(NewDrec(n, k)) = NewEntry(n, k)
  BY <1>1, NewDrecFacts, EntryOf
<1> HIDE DEF s, E, recs
<1>7. ASSUME NEW i \in DOMAIN s PROVE \E k \in 0 .. 7 : NewParent(n, k) = dir /\ s[i] = NewEntry(n, k)
  <2>1. PICK e \in E : e.id = dir /\ s[i] = Shows(e)
    BY <1>4
  <2>2. PICK k \in 0 .. 7 : e = NewDrec(n, k)
    BY <1>5, <2>1
  <2> QED
    BY <1>6, <2>1, <2>2
<1>8. \A k \in 0 .. 7 : NewParent(n, k) = dir => \E i \in DOMAIN s : s[i] = NewEntry(n, k)
  BY <1>4, <1>5, <1>6
<1>9. Shown8(s, n, dir)
  BY <1>3, <1>4, <1>7, <1>8 DEF Shown8
<1> QED
  BY <1>9 DEF s, recs

\* A volume that is mounted has one folder or none.
LEMMA FolderFound ==
    ASSUME WellKept(Volume), Keyed(VolumeRecords), Furnished(Volume)
    PROVE  \E top : \E below : \E p : OneFolder(top, below, p)
<1> DEFINE recs == VolumeRecords
           E == OfType(recs, DirRec)
           top == ReadDirInode(recs, RootDir)
<1>1. Ascending(recs) /\ Keyed(recs) /\ RootDir \in Nat /\ RootDir # RootParent
  BY DEF WellKept, VolumeRecords, RootDir, RootParent
<1>2. CASE Volume.files = 0
  <2>1. \A e \in E : e.id # RootDir
    BY <1>1, <1>2, Zenon DEF Furnished, VolumeRecords
  <2>2. /\ top \in Seq({top[i] : i \in DOMAIN top})
        /\ \A i \in DOMAIN top : \E e \in E : e.id = RootDir /\ top[i] = Shows(e)
    <3>1. ShowsDirectory(top, recs, RootDir)
      <4> HIDE DEF recs
      <4> QED
        BY <1>1, DirectoryShows
    <3> QED
      BY <3>1, Zenon DEF ShowsDirectory
  <2>3. top = <<>> /\ DOMAIN top = {}
    <3> HIDE DEF top
    <3>1. DOMAIN top = {}
      BY <2>1, <2>2
    <3> QED
      BY <2>2, <3>1
  <2>4. OneFolder(top, <<>>, 0)
    <3> HIDE DEF top
    <3>1. DOMAIN <<>> = {}
      OBVIOUS
    <3> QED
      BY <2>3, <3>1 DEF OneFolder, top
  <2> QED
    BY <2>4
<1>3. CASE Volume.files # 0
  <2>1. PICK n : LaidAt(OfType(recs, InodeRec), E, n)
    BY <1>3, Zenon DEF Furnished, VolumeRecords
  <2> DEFINE below == ReadDirInode(recs, n + 1)
  <2>2. n \in Nat /\ n > RootDir
    BY <2>1 DEF LaidAt
  <2>3. Shown8(top, n, RootDir) /\ Shown8(below, n, n + 1)
    BY <1>1, <2>1, NewDirectory DEF VolumeRecords
  <2>4. 1 \in 0 .. 7 /\ NewParent(n, 1) = RootDir
    BY NewNames
  <2>5. PICK p \in DOMAIN top : top[p] = NewEntry(n, 1)
    <3> HIDE DEF top
    <3> QED
      BY <2>3, <2>4 DEF Shown8
  <2>6. top[p].dtype = DtDir /\ top[p].file = n + 1
    <3> HIDE DEF top
    <3> QED
      BY <2>2, <2>4, <2>5, EntryOf DEF NewEntry
  <2>7. ASSUME NEW i \in DOMAIN top, top[i].dtype = DtDir PROVE i = p
    <3> HIDE DEF top
    <3>1. PICK k \in 0 .. 7 : top[i] = NewEntry(n, k)
      BY <2>3 DEF Shown8
    <3>2. k = 1
      BY <2>2, <2>7, <3>1, EntryOf
    <3>3. top[i].name = top[p].name
      BY <2>5, <3>1, <3>2
    <3>4. DOMAIN top = 1 .. Len(top) /\ Len(top) \in Nat
      BY <2>3 DEF Shown8
    <3>5. ~ (i < p) /\ ~ (p < i)
      BY <2>3, <3>3 DEF Shown8
    <3> QED
      BY <3>4, <3>5
  <2>8. ASSUME NEW i \in DOMAIN below PROVE below[i].dtype # DtDir
    <3> HIDE DEF below
    <3>1. PICK k \in 0 .. 7 : NewParent(n, k) = n + 1 /\ below[i] = NewEntry(n, k)
      BY <2>3 DEF Shown8
    <3>2. k # 1
      BY <2>2, <2>4, <3>1 DEF RootDir
    <3> QED
      BY <2>2, <3>1, <3>2, EntryOf
  <2>9. OneFolder(top, below, p)
    <3>1. below = ReadDirInode(VolumeRecords, top[p].file)
      BY <2>6
    <3>2. top = ReadDirInode(VolumeRecords, RootDir)
      OBVIOUS
    <3> HIDE DEF top, below
    <3> QED
      BY <2>5, <2>6, <2>7, <2>8, <3>1, <3>2 DEF OneFolder
  <2> QED
    BY <2>9
<1> QED
  BY <1>2, <1>3

\* Where the lines of `tree` come from.
Lined(lines, top, below, p) ==
    /\ Len(lines) = Len(top) + Len(below) /\ DOMAIN lines = 1 .. Len(top) + Len(below)
    /\ lines \in Seq({lines[i] : i \in DOMAIN lines})
    /\ \A i \in DOMAIN lines : i <= p => i \in DOMAIN top /\ lines[i] = Line(top[i], 0)
    /\ \A i \in DOMAIN lines : i > p /\ i <= p + Len(below) =>
          i - p \in DOMAIN below /\ lines[i] = Line(below[i - p], 1)
    /\ \A i \in DOMAIN lines : i > p + Len(below) =>
          i - Len(below) \in DOMAIN top /\ lines[i] = Line(top[i - Len(below)], 0)

LEMMA TreeLined ==
    ASSUME NEW S, NEW top \in Seq(S), NEW U, NEW below \in Seq(U), NEW p \in 0 .. Len(top)
    PROVE  Lined(TreeLines(top, below, p), top, below, p)
<1> DEFINE t == Len(top)
           b == Len(below)
           lines == TreeLines(top, below, p)
           Here(i) == IF i <= p THEN Line(top[i], 0)
                      ELSE IF i <= p + b THEN Line(below[i - p], 1)
                      ELSE Line(top[i - b], 0)
<1>1. t \in Nat /\ b \in Nat /\ p \in Nat /\ p <= t /\ DOMAIN top = 1 .. t /\ DOMAIN below = 1 .. b
  OBVIOUS
<1>2. lines = [i \in 1 .. t + b |-> Here(i)]
  BY DEF TreeLines
<1> HIDE DEF t, b, lines
<1>3. DOMAIN lines = 1 .. t + b /\ \A i \in DOMAIN lines : lines[i] = Here(i)
  BY <1>2
<1>4. Len(lines) = t + b /\ lines \in Seq({lines[i] : i \in DOMAIN lines})
  <2> HIDE DEF Here
  <2> QED
    BY <1>1, <1>2, <1>3
<1>5. ASSUME NEW i \in DOMAIN lines, i <= p PROVE i \in DOMAIN top /\ lines[i] = Line(top[i], 0)
  BY <1>1, <1>3, <1>5
<1>6. ASSUME NEW i \in DOMAIN lines, i > p, i <= p + b
      PROVE  i - p \in DOMAIN below /\ lines[i] = Line(below[i - p], 1)
  BY <1>1, <1>3, <1>6
<1>7. ASSUME NEW i \in DOMAIN lines, i > p + b
      PROVE  i - b \in DOMAIN top /\ lines[i] = Line(top[i - b], 0)
  BY <1>1, <1>3, <1>7
<1> QED
  BY <1>3, <1>4, <1>5, <1>6, <1>7 DEF Lined, t, b, lines

\* In a volume without files there is nothing to print.
LEMMA NothingPrinted ==
    ASSUME WellKept(Volume), Keyed(VolumeRecords), Furnished(Volume), Volume.files = 0,
           NEW top, NEW below, NEW p, OneFolder(top, below, p), printed = TreeLines(top, below, p)
    PROVE  TreePrinted
<1>1. Ascending(VolumeRecords) /\ RootDir \in Nat /\ RootDir # RootParent
  BY DEF WellKept, VolumeRecords, RootDir, RootParent
<1>2. \A e \in OfType(VolumeRecords, DirRec) : e.id = RootParent
  BY Zenon DEF Furnished, VolumeRecords
<1>3. VolumeEntries = {}
  BY <1>2 DEF VolumeEntries
<1>4. DOMAIN top = {}
  <2>1. ShowsDirectory(top, VolumeRecords, RootDir)
    BY <1>1, DirectoryShows DEF OneFolder
  <2> QED
    BY <1>1, <1>2, <2>1 DEF ShowsDirectory
<1>5. top = <<>> /\ below = <<>> /\ p = 0
  BY <1>4 DEF OneFolder
<1>6. top \in Seq({}) /\ below \in Seq({}) /\ p \in 0 .. Len(top) /\ Len(top) = 0 /\ Len(below) = 0
  BY <1>5
<1>7. Lined(printed, top, below, p)
  BY <1>6, TreeLined
<1>8. Len(printed) = 0 /\ DOMAIN printed = {}
  BY <1>6, <1>7 DEF Lined
<1> QED
  BY <1>3, <1>8, FS_EmptySet DEF TreePrinted

\* The k-th object of the injector is what line i shows.
Source(n, p, b, i, k) ==
    /\ k \in 0 .. 7 /\ printed[i] = Line(NewEntry(n, k), IF k \in {2, 3} THEN 1 ELSE 0)
    /\ k \in {2, 3} <=> i > p /\ i <= p + b

\* Lines and objects correspond one to one.
Sourced(n, p, b) ==
    /\ \A i \in DOMAIN printed : \E k : Source(n, p, b, i, k)
    /\ \A k \in 0 .. 7 : \E i \in DOMAIN printed : Source(n, p, b, i, k)
    /\ \A i, j \in DOMAIN printed : \A k :
          Source(n, p, b, i, k) /\ Source(n, p, b, j, k) => i = j

LEMMA SourceFacts ==
    ASSUME NEW n \in Nat, n > RootDir, NEW top, NEW below, NEW p \in DOMAIN top,
           Shown8(top, n, RootDir), Shown8(below, n, n + 1), Lined(printed, top, below, p)
    PROVE  Sourced(n, p, Len(below))
<1> DEFINE t == Len(top)
           b == Len(below)
<1>1. /\ t \in Nat /\ DOMAIN top = 1 .. t /\ b \in Nat /\ DOMAIN below = 1 .. b
      /\ p \in Nat /\ 1 <= p /\ p <= t /\ DOMAIN printed = 1 .. t + b
  <2>1. t \in Nat /\ DOMAIN top = 1 .. t /\ b \in Nat /\ DOMAIN below = 1 .. b
    BY DEF Shown8
  <2>2. DOMAIN printed = 1 .. t + b
    BY DEF Lined
  <2> QED
    BY <2>1, <2>2
<1>2. \A k \in 0 .. 7 : /\ NewParent(n, k) = RootDir <=> k \notin {2, 3}
                        /\ NewParent(n, k) = n + 1 <=> k \in {2, 3}
  BY NewNames DEF RootDir
<1>3. /\ \A i \in DOMAIN printed : i <= p => i \in DOMAIN top /\ printed[i] = Line(top[i], 0)
      /\ \A i \in DOMAIN printed : i > p /\ i <= p + b =>
            i - p \in DOMAIN below /\ printed[i] = Line(below[i - p], 1)
      /\ \A i \in DOMAIN printed : i > p + b =>
            i - b \in DOMAIN top /\ printed[i] = Line(top[i - b], 0)
  BY DEF Lined
<1>4. /\ \A i \in DOMAIN top : \E k \in 0 .. 7 : k \notin {2, 3} /\ top[i] = NewEntry(n, k)
      /\ \A k \in 0 .. 7 : k \notin {2, 3} => \E i \in DOMAIN top : top[i] = NewEntry(n, k)
      /\ \A i \in DOMAIN below : \E k \in 0 .. 7 : k \in {2, 3} /\ below[i] = NewEntry(n, k)
      /\ \A k \in 0 .. 7 : k \in {2, 3} => \E i \in DOMAIN below : below[i] = NewEntry(n, k)
  BY <1>2 DEF Shown8
<1>5. /\ \A i, j \in DOMAIN top : top[i].name = top[j].name => i = j
      /\ \A i, j \in DOMAIN below : below[i].name = below[j].name => i = j
  <2>1. /\ \A i, j \in DOMAIN top : i < j => top[i].name # top[j].name
        /\ \A i, j \in DOMAIN below : i < j => below[i].name # below[j].name
    BY DEF Shown8
  <2> HIDE DEF t, b
  <2>2. /\ \A i, j \in DOMAIN top : i = j \/ i < j \/ j < i
        /\ \A i, j \in DOMAIN below : i = j \/ i < j \/ j < i
    BY <1>1
  <2> QED
    BY <2>1, <2>2
<1> HIDE DEF t, b
<1>6. ASSUME NEW i \in DOMAIN printed PROVE \E k : Source(n, p, b, i, k)
  <2>1. CASE i <= p
    <3>1. PICK k \in 0 .. 7 : k \notin {2, 3} /\ top[i] = NewEntry(n, k)
      BY <1>3, <1>4, <2>1
    <3>2. printed[i] = Line(NewEntry(n, k), 0) /\ ~ (i > p)
      BY <1>1, <1>3, <2>1, <3>1
    <3> QED
      BY <3>1, <3>2 DEF Source
  <2>2. CASE i > p /\ i <= p + b
    <3>1. PICK k \in 0 .. 7 : k \in {2, 3} /\ below[i - p] = NewEntry(n, k)
      BY <1>3, <1>4, <2>2
    <3>2. printed[i] = Line(NewEntry(n, k), 1)
      BY <1>3, <2>2, <3>1
    <3> QED
      BY <2>2, <3>1, <3>2 DEF Source
  <2>3. CASE i > p + b
    <3>1. PICK k \in 0 .. 7 : k \notin {2, 3} /\ top[i - b] = NewEntry(n, k)
      BY <1>3, <1>4, <2>3
    <3>2. printed[i] = Line(NewEntry(n, k), 0) /\ ~ (i <= p + b)
      BY <1>1, <1>3, <2>3, <3>1
    <3> QED
      BY <3>1, <3>2 DEF Source
  <2> QED
    BY <1>1, <2>1, <2>2, <2>3
<1>7. ASSUME NEW k \in 0 .. 7 PROVE \E i \in DOMAIN printed : Source(n, p, b, i, k)
  <2>1. CASE k \in {2, 3}
    <3>1. PICK i \in DOMAIN below : below[i] = NewEntry(n, k)
      BY <1>4, <2>1
    <3>2. i + p \in DOMAIN printed /\ i + p > p /\ i + p <= p + b /\ (i + p) - p = i
      BY <1>1
    <3>3. printed[i + p] = Line(NewEntry(n, k), 1)
      <4>1. printed[i + p] = Line(below[(i + p) - p], 1)
        BY <1>3, <3>2, Zenon
      <4> QED
        BY <3>1, <3>2, <4>1
    <3> QED
      BY <2>1, <3>2, <3>3 DEF Source
  <2>2. CASE k \notin {2, 3}
    <3>1. PICK i \in DOMAIN top : top[i] = NewEntry(n, k)
      BY <1>4, <2>2
    <3>2. CASE i <= p
      <4>1. i \in DOMAIN printed /\ ~ (i > p)
        BY <1>1, <3>2
      <4>2. printed[i] = Line(NewEntry(n, k), 0)
        BY <1>3, <3>1, <3>2, <4>1
      <4> QED
        BY <2>2, <4>1, <4>2 DEF Source
    <3>3. CASE i > p
      <4>1. i + b \in DOMAIN printed /\ i + b > p + b /\ ~ (i + b <= p + b) /\ (i + b) - b = i
        BY <1>1, <3>3
      <4>2. printed[i + b] = Line(NewEntry(n, k), 0)
        <5>1. printed[i + b] = Line(top[(i + b) - b], 0)
          BY <1>3, <4>1, Zenon
        <5> QED
          BY <3>1, <4>1, <5>1
      <4> QED
        BY <2>2, <4>1, <4>2 DEF Source
    <3> QED
      BY <1>1, <3>2, <3>3
  <2> QED
    BY <2>1, <2>2
<1>8. ASSUME NEW i \in DOMAIN printed, NEW j \in DOMAIN printed, NEW k,
             Source(n, p, b, i, k), Source(n, p, b, j, k)
      PROVE  i = j
  <2> DEFINE name(x) == printed[x].name
             low(x) == IF x <= p THEN x ELSE x - b
  <2>1. name(i) = name(j) /\ (i > p /\ i <= p + b <=> j > p /\ j <= p + b)
    BY <1>8 DEF Source
  <2>2. \A x \in DOMAIN printed : ~ (x > p /\ x <= p + b) =>
           low(x) \in DOMAIN top /\ name(x) = top[low(x)].name
    BY <1>1, <1>3 DEF Line
  <2>3. \A x \in DOMAIN printed : x > p /\ x <= p + b =>
           x - p \in DOMAIN below /\ name(x) = below[x - p].name
    BY <1>3 DEF Line
  <2> HIDE DEF name
  <2>4. CASE i > p /\ i <= p + b
    <3>1. i - p = j - p
      BY <1>5, <2>1, <2>3, <2>4
    <3> QED
      BY <1>1, <3>1
  <2>5. CASE ~ (i > p /\ i <= p + b)
    <3>1. low(i) = low(j)
      <4> HIDE DEF low
      <4> QED
        BY <1>5, <2>1, <2>2, <2>5
    <3> QED
      BY <1>1, <2>1, <2>5, <3>1
  <2> QED
    BY <2>4, <2>5
<1> QED
  BY <1>6, <1>7, <1>8, Zenon DEF Sourced, b

\* There are as many lines as entries, and as many entries as objects.
LEMMA LinesCounted ==
    ASSUME NEW n \in Nat, NEW p, NEW b, NEW t \in Nat, DOMAIN printed = 1 .. t,
           Sourced(n, p, b)
    PROVE  t = 8
<1> DEFINE From(i) == CHOOSE k : Source(n, p, b, i, k)
           h == [i \in DOMAIN printed |-> From(i)]
<1>1. \A i \in DOMAIN printed : Source(n, p, b, i, From(i)) /\ From(i) \in 0 .. 7
  BY Zenon DEF Sourced, Source
<1>2. ASSUME NEW i, NEW j, NEW k, Source(n, p, b, i, j), Source(n, p, b, i, k) PROVE j = k
  <2>1. ASSUME NEW x, Source(n, p, b, i, x) PROVE x \in 0 .. 7 /\ printed[i].file = n + x
    <3>1. x \in 0 .. 7 /\ printed[i] = Line(NewEntry(n, x), IF x \in {2, 3} THEN 1 ELSE 0)
      BY <2>1, Zenon DEF Source
    <3> QED
      BY <3>1 DEF Line, NewEntry
  <2>2. j \in 0 .. 7 /\ k \in 0 .. 7 /\ n + j = n + k
    BY <1>2, <2>1, Zenon
  <2> QED
    BY <2>2
<1> HIDE DEF From
<1>3. h \in [DOMAIN printed -> 0 .. 7]
  BY <1>1
<1>4. ASSUME NEW i \in DOMAIN printed, NEW j \in DOMAIN printed, h[i] = h[j] PROVE i = j
  BY <1>1, <1>4, Zenon DEF Sourced, h
<1>5. ASSUME NEW k \in 0 .. 7 PROVE \E i \in DOMAIN printed : h[i] = k
  <2>1. PICK i \in DOMAIN printed : Source(n, p, b, i, k)
    BY Zenon DEF Sourced
  <2> QED
    BY <1>1, <1>2, <2>1
<1> HIDE DEF h
<1>6. h \in Bijection(1 .. t, 0 .. 7)
  BY <1>3, <1>4, <1>5 DEF Bijection, Injection, Surjection, IsInjective
<1>7. IsFiniteSet(1 .. t) /\ Cardinality(1 .. t) = t /\ Cardinality(0 .. 7) = 8
  <2>1. 1 \in Int /\ t \in Int /\ 0 \in Int /\ 7 \in Int
    OBVIOUS
  <2>2. Cardinality(1 .. t) = IF 1 > t THEN 0 ELSE t - 1 + 1
    BY <2>1, FS_Interval
  <2>3. Cardinality(0 .. 7) = IF 0 > 7 THEN 0 ELSE 7 - 0 + 1
    BY <2>1, FS_Interval
  <2> QED
    BY <2>1, <2>2, <2>3, FS_Interval
<1>8. ExistsBijection(1 .. t, 0 .. 7)
  BY <1>6 DEF ExistsBijection
<1> QED
  BY <1>7, <1>8, FS_Bijection

LEMMA NewDrecsCounted ==
    ASSUME NEW n \in Nat
    PROVE  Cardinality(NewDrecs(n)) = 8
<1> DEFINE g == [k \in 0 .. 7 |-> NewDrec(n, k)]
<1>1. ASSUME NEW j \in 0 .. 7, NEW k \in 0 .. 7, NewDrec(n, j) = NewDrec(n, k) PROVE j = k
  <2>1. NewName(j) = NewName(k)
    BY <1>1, NewDrecFacts
  <2> QED
    BY <2>1, NewNames
<1>2. /\ g \in [0 .. 7 -> NewDrecs(n)]
      /\ \A j, k \in 0 .. 7 : g[j] = g[k] => j = k
      /\ \A e \in NewDrecs(n) : \E k \in 0 .. 7 : g[k] = e
  BY <1>1, Zenon DEF NewDrecs
<1> HIDE DEF g
<1>3. g \in Bijection(0 .. 7, NewDrecs(n))
  BY <1>2 DEF Bijection, Injection, Surjection, IsInjective
<1>4. IsFiniteSet(0 .. 7) /\ Cardinality(0 .. 7) = 8
  <2>1. 0 \in Int /\ 7 \in Int
    OBVIOUS
  <2>2. Cardinality(0 .. 7) = IF 0 > 7 THEN 0 ELSE 7 - 0 + 1
    BY <2>1, FS_Interval
  <2>3. IsFiniteSet(0 .. 7)
    BY <2>1, FS_Interval, Zenon
  <2>4. Cardinality(0 .. 7) = 8
    BY <2>2
  <2> QED
    BY <2>3, <2>4
<1>5. ExistsBijection(0 .. 7, NewDrecs(n))
  BY <1>3 DEF ExistsBijection
<1> QED
  BY <1>4, <1>5, FS_Bijection

\* The directory that a line stands below is the last one printed above it.
LEMMA HolderFound ==
    ASSUME NEW n \in Nat, NEW top, NEW below, NEW p \in DOMAIN top, DOMAIN top = 1 .. Len(top),
           Len(top) \in Nat, Len(below) \in Nat, Lined(printed, top, below, p),
           top[p].file = n + 1, NEW i \in DOMAIN printed
    PROVE  Holder(i) = IF i > p /\ i <= p + Len(below) THEN n + 1 ELSE RootDir
<1> DEFINE b == Len(below)
           t == Len(top)
<1>1. p \in Nat /\ 1 <= p /\ p <= t /\ b \in Nat /\ t \in Nat /\ DOMAIN printed = 1 .. t + b
  BY DEF Lined
<1>2. /\ \A j \in DOMAIN printed : j <= p => printed[j] = Line(top[j], 0)
      /\ \A j \in DOMAIN printed : j > p /\ j <= p + b => printed[j] = Line(below[j - p], 1)
      /\ \A j \in DOMAIN printed : j > p + b => printed[j] = Line(top[j - b], 0)
  BY DEF Lined
<1> HIDE DEF b, t
<1>3. \A j \in DOMAIN printed : printed[j].depth = IF j > p /\ j <= p + b THEN 1 ELSE 0
  <2> SUFFICES ASSUME NEW j \in DOMAIN printed
               PROVE  printed[j].depth = IF j > p /\ j <= p + b THEN 1 ELSE 0
    OBVIOUS
  <2> QED
    BY <1>1, <1>2 DEF Line
<1>4. CASE ~ (i > p /\ i <= p + b)
  BY <1>3, <1>4 DEF Holder, b
<1>5. CASE i > p /\ i <= p + b
  <2>1. \A j : j \in Above(i) <=> j \in 1 .. p
    <3>1. \A j \in 1 .. i - 1 : j \in DOMAIN printed
      BY <1>1
    <3>2. printed[i].depth = 1
      BY <1>3, <1>5
    <3>3. \A j \in 1 .. i - 1 : j \in Above(i) <=> ~ (j > p /\ j <= p + b)
      BY <1>3, <3>1, <3>2 DEF Above
    <3>4. \A j \in Above(i) : j \in 1 .. i - 1
      BY DEF Above
    <3>5. i - 1 \in Nat /\ p <= i - 1 /\ i - 1 <= p + b
      BY <1>1, <1>5
    <3>6. \A j \in 1 .. i - 1 : ~ (j > p /\ j <= p + b) <=> j \in 1 .. p
      BY <1>1, <3>5
    <3>7. \A j \in 1 .. p : j \in 1 .. i - 1
      BY <1>1, <3>5
    <3> QED
      BY <3>3, <3>4, <3>6, <3>7, Zenon
  <2> DEFINE last == CHOOSE j \in Above(i) : \A k \in Above(i) : k <= j
  <2>2. p \in Above(i) /\ \A k \in Above(i) : k <= p
    BY <1>1, <2>1
  <2>3. last \in Above(i) /\ \A k \in Above(i) : k <= last
    BY <2>2
  <2>4. last = p
    <3> HIDE DEF last
    <3> QED
      BY <1>1, <2>1, <2>2, <2>3
  <2>5. p \in DOMAIN printed /\ printed[p].file = n + 1
    BY <1>1, <1>2 DEF Line
  <2>6. printed[i].depth # 0
    BY <1>3, <1>5
  <2> QED
    BY <1>5, <2>4, <2>5, <2>6 DEF Holder, b
<1> QED
  BY <1>4, <1>5


\* The entries of a volume are those of the injector, or there are none.
LEMMA EntriesOf ==
    ASSUME NEW n, LaidAt(OfType(VolumeRecords, InodeRec), OfType(VolumeRecords, DirRec), n),
           \A e \in OfType(VolumeRecords, DirRec) : e.id = RootParent \/ e \in NewDrecs(n)
    PROVE  VolumeEntries = NewDrecs(n)
<1> DEFINE E == OfType(VolumeRecords, DirRec)
<1>1. \A k \in 0 .. 7 : NewDrec(n, k) \in E /\ NewDrec(n, k).id # RootParent
  <2>1. n \in Nat /\ n > 2 /\ RootDir = 2 /\ RootParent = 1
    BY DEF LaidAt, RootDir, RootParent
  <2>2. \A k \in 0 .. 7 : NewParent(n, k) # RootParent
    BY <2>1, NewNames
  <2> QED
    BY <2>2, NewDrecFacts DEF LaidAt
<1> HIDE DEF E
<1>2. \A e \in NewDrecs(n) : e \in E /\ e.id # RootParent
  BY <1>1 DEF NewDrecs
<1>3. VolumeEntries = {e \in E : e.id # RootParent}
  BY DEF VolumeEntries, E
<1> QED
  BY <1>2, <1>3 DEF E

LEMMA EntriesCounted ==
    ASSUME Furnished(Volume)
    PROVE  Volume.files + Volume.dirs + Volume.links = Cardinality(VolumeEntries)
<1>1. CASE Volume.files = 0
  <2>1. Volume.dirs = 0 /\ Volume.links = 0 /\ \A e \in OfType(VolumeRecords, DirRec) : e.id = RootParent
    BY <1>1, Zenon DEF Furnished, VolumeRecords
  <2>2. VolumeEntries = {}
    BY <2>1 DEF VolumeEntries
  <2> QED
    BY <1>1, <2>1, <2>2, FS_EmptySet
<1>2. CASE Volume.files # 0
  <2>1. Volume.files = 6 /\ Volume.dirs = 1 /\ Volume.links = 1
    BY <1>2, Zenon DEF Furnished
  <2>2. PICK n : /\ LaidAt(OfType(VolumeRecords, InodeRec), OfType(VolumeRecords, DirRec), n)
                 /\ \A e \in OfType(VolumeRecords, DirRec) : e.id = RootParent \/ e \in NewDrecs(n)
    BY <1>2, Zenon DEF Furnished, VolumeRecords
  <2>3. n \in Nat
    BY <2>2 DEF LaidAt
  <2>4. Cardinality(VolumeEntries) = 8
    BY <2>2, <2>3, EntriesOf, NewDrecsCounted
  <2> QED
    BY <2>1, <2>4
<1> QED
  BY <1>1, <1>2

\* What `tree` has printed in the end, if it has printed the lines of both directories.
LEMMA AllPrinted ==
    ASSUME WellKept(Volume), Keyed(VolumeRecords), Furnished(Volume), Volume.files # 0,
           NEW top, NEW below, NEW p, OneFolder(top, below, p), printed = TreeLines(top, below, p)
    PROVE  TreePrinted
<1> DEFINE E == OfType(VolumeRecords, DirRec)
           b == Len(below)
<1>1. PICK n : /\ LaidAt(OfType(VolumeRecords, InodeRec), E, n)
               /\ \A e \in E : e.id = RootParent \/ e \in NewDrecs(n)
  BY Zenon DEF Furnished, VolumeRecords
<1>2. n \in Nat /\ n > RootDir /\ RootDir # RootParent /\ RootDir = 2 /\ RootParent = 1
  BY <1>1 DEF LaidAt, RootDir, RootParent
<1>3. Shown8(top, n, RootDir)
  BY <1>1, NewDirectory DEF OneFolder, VolumeRecords
<1>4. 0 \in 0 .. 7 /\ 0 \notin {2, 3} /\ NewParent(n, 0) = RootDir
  <2>1. 0 \in 0 .. 7 /\ 0 \notin {2, 3}
    OBVIOUS
  <2> QED
    BY <2>1, NewNames
<1>5. p \in DOMAIN top /\ top[p].dtype = DtDir /\ below = ReadDirInode(VolumeRecords, top[p].file)
  <2>1. \E i \in DOMAIN top : top[i] = NewEntry(n, 0)
    BY <1>3, <1>4 DEF Shown8
  <2>2. DOMAIN <<>> = {}
    OBVIOUS
  <2> QED
    BY <2>1, <2>2 DEF OneFolder
<1>6. top[p].file = n + 1
  <2>1. PICK k \in 0 .. 7 : top[p] = NewEntry(n, k)
    BY <1>3, <1>5 DEF Shown8
  <2>2. k = 1
    BY <1>2, <1>5, <2>1, EntryOf
  <2> QED
    BY <2>1, <2>2 DEF NewEntry
<1>7. Shown8(below, n, n + 1)
  BY <1>1, <1>5, <1>6, NewDirectory DEF VolumeRecords
<1>8. /\ top \in Seq({top[i] : i \in DOMAIN top}) /\ below \in Seq({below[i] : i \in DOMAIN below})
      /\ DOMAIN top = 1 .. Len(top) /\ Len(top) \in Nat /\ b \in Nat /\ p \in 0 .. Len(top)
  <2>1. top \in Seq({top[i] : i \in DOMAIN top}) /\ below \in Seq({below[i] : i \in DOMAIN below})
    BY <1>3, <1>7 DEF Shown8
  <2> QED
    BY <1>5, <2>1
<1>9. Lined(printed, top, below, p)
  <2>1. Lined(TreeLines(top, below, p), top, below, p)
    BY <1>8, TreeLined
  <2> QED
    BY <2>1
<1>10. Sourced(n, p, b)
  BY <1>2, <1>3, <1>5, <1>7, <1>9, SourceFacts
<1>11. Len(printed) \in Nat /\ DOMAIN printed = 1 .. Len(printed)
  BY <1>8, <1>9 DEF Lined
<1>12. VolumeEntries = NewDrecs(n)
  BY <1>1, EntriesOf
<1>13. Len(printed) = 8 /\ Cardinality(VolumeEntries) = 8
  <2> DEFINE t == Len(printed)
  <2>1. t \in Nat /\ DOMAIN printed = 1 .. t
    BY <1>11
  <2> HIDE DEF t, b
  <2>2. t = 8
    BY <1>2, <1>10, <2>1, LinesCounted
  <2> QED
    BY <1>2, <1>12, <2>2, NewDrecsCounted DEF t
<1>14. ASSUME NEW i \in DOMAIN printed, NEW k, Source(n, p, b, i, k)
       PROVE  k \in 0 .. 7 /\ printed[i].name = NewName(k) /\ printed[i].file = n + k
  <2>1. k \in 0 .. 7 /\ printed[i] = Line(NewEntry(n, k), IF k \in {2, 3} THEN 1 ELSE 0)
    BY <1>14, Zenon DEF Source
  <2> QED
    BY <2>1 DEF Line, NewEntry
<1>15. ASSUME NEW i \in DOMAIN printed
       PROVE  \E r \in VolumeEntries :
                 r.id = Holder(i) /\ r.val.file = printed[i].file /\ r.name = printed[i].name
  <2>1. PICK k : Source(n, p, b, i, k)
    BY <1>10, Zenon DEF Sourced
  <2>2. NewParent(n, k) = Holder(i)
    <3>1. Holder(i) = IF i > p /\ i <= p + b THEN n + 1 ELSE RootDir
      BY <1>2, <1>5, <1>6, <1>8, <1>9, HolderFound
    <3>2. k \in 0 .. 7 /\ (k \in {2, 3} <=> i > p /\ i <= p + b)
      BY <2>1, Zenon DEF Source
    <3> QED
      BY <3>1, <3>2, NewNames
  <2>3. k \in 0 .. 7 /\ printed[i].name = NewName(k) /\ printed[i].file = n + k
    BY <1>14, <2>1
  <2>4. NewDrec(n, k) \in VolumeEntries
    BY <1>12, <2>3 DEF NewDrecs
  <2> QED
    BY <2>2, <2>3, <2>4, NewDrecFacts
<1>16. ASSUME NEW i \in DOMAIN printed, NEW j \in DOMAIN printed, printed[i].file = printed[j].file
       PROVE  i = j
  <2>1. PICK k : Source(n, p, b, i, k)
    BY <1>10, Zenon DEF Sourced
  <2>2. PICK l : Source(n, p, b, j, l)
    BY <1>10, Zenon DEF Sourced
  <2>3. k \in 0 .. 7 /\ l \in 0 .. 7 /\ n + k = n + l
    BY <1>14, <1>16, <2>1, <2>2
  <2>4. k = l
    BY <1>2, <2>3
  <2> QED
    BY <1>10, <2>1, <2>2, <2>4, Zenon DEF Sourced
<1>17. \A i, j \in DOMAIN printed : i < j => printed[i].file # printed[j].file
  BY <1>11, <1>16
<1> QED
  BY <1>13, <1>15, <1>17 DEF TreePrinted


----------------------------------------------------------------------------
\* What a tool has printed is the beginning of what it has to print.
ToolInv ==
    /\ status = "idle" => printed = <<>>
    /\ status # "idle" => pc = "idle" /\ runs = MaxRuns
    /\ status \in {"running", "ok"} =>
          /\ Volume.kind = "container"
          /\ command.op = "ls" => \E m : Listing(m)
          /\ command.op = "info" =>
                printed = <<[files |-> Volume.files, dirs |-> Volume.dirs, links |-> Volume.links]>>
          /\ command.op = "tree" => \E top, below, p, m : Touring(top, below, p, m)

LEMMA ToolInit == Init => ToolInv
BY DEF Init, ToolInv

LEMMA ToolQuiet == ToolInv /\ UNCHANGED <<fixVars, cliVars>> => ToolInv'
<1> SUFFICES ASSUME ToolInv, UNCHANGED <<fixVars, cliVars>> PROVE ToolInv'
  OBVIOUS
<1>1. UNCHANGED <<pc, runs, command, status, stack, printed>> /\ Volume' = Volume
  BY DEF fixVars, cliVars, Volume
<1>2. VolumeRecords' = VolumeRecords
  BY <1>1 DEF VolumeRecords
<1>3. Listed' = Listed /\ Lines' = Lines
  BY <1>1, <1>2 DEF Listed, Lines, ListLines, Resolve
<1>4. \A m : Listing(m) => Listing(m)'
  BY <1>1, <1>3 DEF Listing
<1>5. \A top, below, p, m : Touring(top, below, p, m) => Touring(top, below, p, m)'
  BY <1>1, <1>2 DEF Touring, OneFolder
<1> QED
  BY <1>1, <1>4, <1>5 DEF ToolInv

LEMMA DirectorySeq ==
    ASSUME NEW recs, Keyed(recs), NEW dir
    PROVE  LET s == ReadDirInode(recs, dir) IN
           s \in Seq({s[i] : i \in DOMAIN s}) /\ Len(s) \in Nat /\ DOMAIN s = 1 .. Len(s)
<1> DEFINE t == Scan(recs, dir, DirRec)
           s == ReadDirInode(recs, dir)
<1>1. Len(t) \in Nat /\ DOMAIN t = 1 .. Len(t)
  BY ScanFacts
<1>2. s = [i \in DOMAIN t |-> Shows(t[i])]
  BY Zenon DEF ReadDirInode, Shows
<1> HIDE DEF t, s
<1>3. DOMAIN s = 1 .. Len(t)
  BY <1>1, <1>2
<1>4. s \in Seq({s[i] : i \in DOMAIN s})
  BY <1>1, <1>2, <1>3
<1> QED
  BY <1>4 DEF s

\* What stays the same while a tool runs.
LEMMA ToolFrame ==
    ASSUME UNCHANGED fixVars
    PROVE  /\ pc' = pc /\ runs' = runs /\ Volume' = Volume /\ VolumeRecords' = VolumeRecords
           /\ command' = command => Listed' = Listed /\ Lines' = Lines
           /\ \A top, below, p : OneFolder(top, below, p) => OneFolder(top, below, p)'
<1>1. pc' = pc /\ runs' = runs /\ Volume' = Volume
  BY DEF fixVars, Volume
<1>2. VolumeRecords' = VolumeRecords
  BY <1>1 DEF VolumeRecords
<1> QED
  BY <1>1, <1>2 DEF Listed, Lines, ListLines, Resolve, OneFolder

\* A tool that starts has printed nothing.
LEMMA ToolBegins ==
    ASSUME ToolInv, UNCHANGED fixVars, NEW op, NEW path, Begin(op, path),
           Volume.kind = "container" =>
              Keyed(VolumeRecords) /\ \E top : \E below : \E p : OneFolder(top, below, p)
    PROVE  ToolInv'
<1>1. pc' = pc /\ runs' = runs /\ Volume' = Volume /\ VolumeRecords' = VolumeRecords
  BY ToolFrame
<1>2. /\ status = "idle" /\ pc = "idle" /\ runs = MaxRuns /\ printed = <<>>
      /\ command' = [op |-> op, path |-> path]
  BY DEF Begin, Cli, ToolInv
<1>3. command'.op = op /\ command'.path = path
  BY <1>2
<1>4. CASE ~ ContainerOpens
  <2>1. status' = "error"
    BY <1>4 DEF Begin, Exit
  <2> QED
    BY <1>1, <1>2, <2>1 DEF ToolInv
<1>5. CASE ContainerOpens
  <2> DEFINE dir == ReadDir(VolumeRecords, Volume.fold, path)
             summary == [files |-> Volume.files, dirs |-> Volume.dirs, links |-> Volume.links]
  <2>1. \/ /\ op = "tree" /\ stack' = <<ReadDirInode(VolumeRecords, RootDir)>>
           /\ status' = "running" /\ printed' = printed
        \/ /\ op = "ls" /\ printed' = printed
           /\ \/ dir.status = "ok" /\ stack' = <<dir.entries>> /\ status' = "running"
              \/ status' = "error"
        \/ op = "info" /\ status' = "ok" /\ printed' = <<summary>>
        \/ op = "dump-fstree" /\ status' = "ok"
        \/ op = "cat" /\ (status' = "ok" \/ status' = "error")
    BY <1>5, Zenon DEF Begin, Exit
  <2>2. Volume.kind = "container" /\ Keyed(VolumeRecords)
    BY <1>5 DEF ContainerOpens
  <2>3. status' \in {"running", "ok", "error"}
    BY <2>1
  <2>4. CASE op = "tree"
    <3>1. PICK top, below, p : OneFolder(top, below, p)
      BY <2>2
    <3>2. stack' = <<top>> /\ status' = "running" /\ printed' = <<>>
      BY <1>2, <2>1, <2>4, <3>1 DEF OneFolder
    <3>3. /\ top \in Seq({top[i] : i \in DOMAIN top}) /\ Len(top) \in Nat /\ DOMAIN top = 1 .. Len(top)
          /\ Len(below) \in Nat
      <4>1. top = ReadDirInode(VolumeRecords, RootDir)
            /\ (below = <<>> \/ below = ReadDirInode(VolumeRecords, top[p].file))
        BY <3>1 DEF OneFolder
      <4>2. Len(<<>>) \in Nat
        OBVIOUS
      <4> QED
        BY <2>2, <4>1, <4>2, DirectorySeq
    <3>4. Rest(top, 0) = top
      BY <3>3, SubSeqFull DEF Rest
    <3>5. SubSeq(TreeLines(top, below, p), 1, 0) = <<>>
      BY SubSeqEmpty
    <3>6. 0 < p \/ 0 >= p + Len(below)
      <4>1. Len(<<>>) = 0
        OBVIOUS
      <4> QED
        BY <3>1, <3>3, <4>1 DEF OneFolder
    <3>7. Rest(top, 0 - Len(below)) = top \/ 0 < p
      <4>1. Len(<<>>) = 0 /\ 0 - 0 = 0
        OBVIOUS
      <4> QED
        BY <3>1, <3>3, <3>4, <4>1 DEF OneFolder
    <3>8. Touring(top, below, p, 0)'
      <4>1. OneFolder(top, below, p)'
        BY <3>1, ToolFrame
      <4> QED
        BY <3>2, <3>3, <3>4, <3>5, <3>6, <3>7, <4>1 DEF Touring
    <3> QED
      BY <1>1, <1>2, <1>3, <2>2, <2>4, <3>2, <3>8 DEF ToolInv
  <2>5. CASE op = "ls" /\ status' # "error"
    <3>1. dir.status = "ok" /\ stack' = <<dir.entries>> /\ status' = "running" /\ printed' = <<>>
      BY <1>2, <2>1, <2>5
    <3>2. dir.entries = ReadDirInode(VolumeRecords, LookupPath(VolumeRecords, Volume.fold, path).id)
      BY <3>1 DEF ReadDir, Failed
    <3>3. Listed' = dir.entries
      BY <1>1, <1>3, <3>2 DEF Listed, Resolve
    <3>4. /\ Listed' \in Seq({Listed'[i] : i \in DOMAIN Listed'}) /\ Len(Listed') \in Nat
      BY <2>2, <3>2, <3>3, DirectorySeq
    <3>5. Rest(Listed', 0) = Listed' /\ SubSeq(Lines', 1, 0) = <<>>
      BY <3>4, SubSeqFull, SubSeqEmpty DEF Rest
    <3> HIDE DEF dir
    <3>6. Listing(0)'
      BY <3>1, <3>3, <3>4, <3>5 DEF Listing
    <3> QED
      BY <1>1, <1>2, <1>3, <2>2, <2>5, <3>1, <3>6 DEF ToolInv
  <2>6. CASE op = "info"
    <3>1. status' = "ok" /\ printed' = <<summary>>
      BY <2>1, <2>6
    <3> QED
      BY <1>1, <1>2, <1>3, <2>2, <2>6, <3>1 DEF ToolInv
  <2>7. CASE op = "dump-fstree" \/ op = "cat" \/ status' = "error"
    BY <1>1, <1>2, <1>3, <2>1, <2>2, <2>3, <2>7 DEF ToolInv
  <2> QED
    BY <2>1, <2>4, <2>5, <2>6, <2>7
<1> QED
  BY <1>4, <1>5

\* Stacks of one and of two directories.
LEMMA Stacks ==
    ASSUME NEW a, NEW b, NEW c
    PROVE  /\ Len(<<a>>) = 1 /\ <<a>>[1] = a /\ [<<a>> EXCEPT ![1] = c] = <<c>>
           /\ Append(<<a>>, b) = <<a, b>>
           /\ Len(<<a, b>>) = 2 /\ <<a, b>>[2] = b /\ [<<a, b>> EXCEPT ![2] = c] = <<a, c>>
           /\ SubSeq(<<a, b>>, 1, 1) = <<a>>
<1>1. Len(<<a>>) = 1 /\ <<a>>[1] = a /\ Len(<<a, b>>) = 2 /\ <<a, b>>[2] = b
  OBVIOUS
<1>2. [<<a>> EXCEPT ![1] = c] = <<c>> /\ [<<a, b>> EXCEPT ![2] = c] = <<a, c>>
  OBVIOUS
<1>3. Append(<<a>>, b) = <<a, b>>
  <2> DEFINE S == {a, b}
             s == <<a>>
             t == <<a, b>>
  <2>1. s \in Seq(S) /\ b \in S /\ Len(s) = 1 /\ s[1] = a
    OBVIOUS
  <2>2. t \in Seq(S) /\ Len(t) = 2 /\ t[1] = a /\ t[2] = b
    OBVIOUS
  <2> HIDE DEF S, s, t
  <2>3. /\ Append(s, b) \in Seq(S) /\ Len(Append(s, b)) = Len(s) + 1
        /\ \A i \in 1 .. Len(s) : Append(s, b)[i] = s[i]
        /\ Append(s, b)[Len(s) + 1] = b
    BY <2>1, AppendProperties, Zenon
  <2> DEFINE u == Append(s, b)
  <2>4. u \in Seq(S) /\ Len(u) = Len(t) /\ u[1] = t[1] /\ u[2] = t[2]
    BY <2>1, <2>2, <2>3
  <2> HIDE DEF u
  <2>5. \A i \in 1 .. Len(u) : i = 1 \/ i = 2
    BY <2>2, <2>4
  <2>6. u = t
    BY <2>2, <2>4, <2>5, SeqEqual
  <2> QED
    BY <2>6 DEF s, t, u
<1>4. SubSeq(<<a, b>>, 1, 1) = <<a>>
  <2> DEFINE s == <<a, b>>
  <2>1. s \in Seq({a, b}) /\ 1 \in 1 .. Len(s) + 1 /\ 1 \in 1 .. Len(s) /\ s[1] = a /\ 1 - 1 = 0
    OBVIOUS
  <2> HIDE DEF s
  <2>2. SubSeq(s, 1, 1) = SubSeq(s, 1, 1 - 1) \o <<s[1]>>
    BY <2>1, SubSeqRecursiveSecond
  <2>3. SubSeq(s, 1, 0) = <<>>
    BY SubSeqEmpty
  <2>4. SubSeq(s, 1, 1) = <<>> \o <<a>>
    BY <2>1, <2>2, <2>3
  <2>5. <<>> \o <<a>> = <<a>>
    OBVIOUS
  <2> QED
    BY <2>4, <2>5 DEF s
<1> QED
  BY <1>1, <1>2, <1>3, <1>4

\* The lines of `ls` are those of the entries, one by one.
LEMMA LinesOfEntries ==
    ASSUME Keyed(VolumeRecords)
    PROVE  /\ Listed \in Seq({Listed[i] : i \in DOMAIN Listed}) /\ Len(Listed) \in Nat
           /\ Lines \in Seq({Lines[i] : i \in DOMAIN Lines}) /\ Len(Lines) = Len(Listed)
           /\ \A i \in 1 .. Len(Listed) :
                 Lines[i] = [name |-> Listed[i].name,
                             info |-> FileInfo(Inode(VolumeRecords, Listed[i].file))]
<1>1. /\ Listed \in Seq({Listed[i] : i \in DOMAIN Listed}) /\ Len(Listed) \in Nat
      /\ DOMAIN Listed = 1 .. Len(Listed)
  BY DirectorySeq DEF Listed
<1> DEFINE L(i) == [name |-> Listed[i].name,
                    info |-> FileInfo(Inode(VolumeRecords, Listed[i].file))]
<1>2. Lines = [i \in DOMAIN Listed |-> L(i)]
  BY Zenon DEF Lines, ListLines
<1> HIDE DEF L
<1>3. DOMAIN Lines = 1 .. Len(Listed) /\ \A i \in 1 .. Len(Listed) : Lines[i] = L(i)
  BY <1>1, <1>2
<1>4. Lines \in Seq({Lines[i] : i \in DOMAIN Lines}) /\ Len(Lines) = Len(Listed)
  BY <1>1, <1>2, <1>3
<1> QED
  BY <1>1, <1>3, <1>4, Zenon DEF L

LEMMA ToolPrintsEntry ==
    ASSUME ToolInv, UNCHANGED fixVars, PrintEntry, Keyed(VolumeRecords)
    PROVE  ToolInv'
<1>1. /\ pc' = pc /\ runs' = runs /\ Volume' = Volume
      /\ command' = command /\ Listed' = Listed /\ Lines' = Lines
  BY ToolFrame DEF PrintEntry
<1>2. status = "running" /\ command.op = "ls" /\ Top # <<>>
  BY DEF PrintEntry
<1>3. pc = "idle" /\ runs = MaxRuns /\ Volume.kind = "container"
  BY <1>2 DEF ToolInv
<1>4. CASE status' = "error"
  BY <1>1, <1>3, <1>4 DEF ToolInv
<1>5. CASE status' # "error"
  <2> DEFINE e == Head(Top)
             line == [name |-> e.name, info |-> FileInfo(Inode(VolumeRecords, e.file))]
  <2>1. printed' = Append(printed, line) /\ stack' = Popped /\ status' = status
    BY <1>5 DEF PrintEntry, Exit
  <2>2. PICK m : Listing(m)
    BY <1>2 DEF ToolInv
  <2>3. m \in 0 .. Len(Listed) /\ printed = SubSeq(Lines, 1, m) /\ stack = <<Rest(Listed, m)>>
    BY <1>2, <2>2 DEF Listing
  <2>4. Top = Rest(Listed, m) /\ Popped = <<Tail(Rest(Listed, m))>>
    <3> DEFINE a == Rest(Listed, m)
    <3>1. stack = <<a>>
      BY <2>3
    <3> HIDE DEF a
    <3>2. Top = a /\ Popped = <<Tail(a)>>
      BY <3>1 DEF Top, Popped
    <3> QED
      BY <3>2 DEF a
  <2>5. m < Len(Listed) /\ Head(Rest(Listed, m)) = Listed[m + 1]
        /\ Tail(Rest(Listed, m)) = Rest(Listed, m + 1)
    <3> DEFINE S == {Listed[i] : i \in DOMAIN Listed}
    <3>1. Listed \in Seq(S) /\ Len(Listed) \in Nat /\ m \in 0 .. Len(Listed)
      BY <2>3, LinesOfEntries
    <3> HIDE DEF S
    <3>2. m # Len(Listed)
      BY <1>2, <2>4, <3>1, FurtherOn
    <3>3. m < Len(Listed)
      BY <3>1, <3>2
    <3> QED
      BY <3>1, <3>3, FurtherOn
  <2>6. m + 1 \in 1 .. Len(Listed) /\ m + 1 \in 0 .. Len(Listed) /\ m \in 0 .. Len(Lines) /\ m < Len(Lines)
    BY <2>3, <2>5, LinesOfEntries
  <2>7. line = Lines[m + 1]
    BY <2>4, <2>5, <2>6, LinesOfEntries
  <2> HIDE DEF line, e
  <2>8. printed' = SubSeq(Lines, 1, m + 1)
    <3>1. Append(SubSeq(Lines, 1, m), Lines[m + 1]) = SubSeq(Lines, 1, m + 1)
      BY <2>6, LinesOfEntries, FurtherOn
    <3> QED
      BY <2>1, <2>3, <2>7, <3>1
  <2>9. stack' = <<Rest(Listed, m + 1)>> /\ status' = "running"
    BY <1>2, <2>1, <2>4, <2>5
  <2>10. Listing(m + 1)'
    BY <1>1, <2>6, <2>8, <2>9 DEF Listing
  <2> QED
    BY <1>1, <1>2, <1>3, <2>9, <2>10 DEF ToolInv
<1> QED
  BY <1>4, <1>5

\* A walk over one folder: the two directories and its lines.
LEMMA WalkFacts ==
    ASSUME Keyed(VolumeRecords), NEW top, NEW below, NEW p, OneFolder(top, below, p)
    PROVE  /\ top \in Seq({top[i] : i \in DOMAIN top}) /\ Len(top) \in Nat /\ DOMAIN top = 1 .. Len(top)
           /\ below \in Seq({below[i] : i \in DOMAIN below}) /\ Len(below) \in Nat
           /\ DOMAIN below = 1 .. Len(below) /\ Rest(below, 0) = below
           /\ p \in 0 .. Len(top) /\ (p = 0 => Len(top) = 0 /\ Len(below) = 0)
           /\ p > 0 => top[p].dtype = DtDir /\ below = ReadDirInode(VolumeRecords, top[p].file)
           /\ \A i \in DOMAIN top : top[i].dtype = DtDir => i = p
           /\ \A i \in DOMAIN below : below[i].dtype # DtDir
           /\ Lined(TreeLines(top, below, p), top, below, p)
<1>1. top \in Seq({top[i] : i \in DOMAIN top}) /\ Len(top) \in Nat /\ DOMAIN top = 1 .. Len(top)
  BY DirectorySeq DEF OneFolder
<1>0. Rest(below, 0) = below
  <2>1. <<>> \in Seq({}) /\ 0 + 1 = 1
    OBVIOUS
  <2>2. CASE below = <<>>
    BY <2>1, <2>2, SubSeqFull DEF Rest
  <2>3. CASE below = ReadDirInode(VolumeRecords, top[p].file)
    <3>1. below \in Seq({below[i] : i \in DOMAIN below})
      BY <2>3, DirectorySeq
    <3> QED
      BY <2>1, <3>1, SubSeqFull DEF Rest
  <2> QED
    BY <2>2, <2>3 DEF OneFolder
<1>2. CASE top = <<>> /\ below = <<>> /\ p = 0
  <2>1. /\ Len(top) = 0 /\ Len(below) = 0 /\ DOMAIN below = 1 .. Len(below) /\ p \in 0 .. Len(top)
        /\ top \in Seq({}) /\ below \in Seq({}) /\ below \in Seq({below[i] : i \in DOMAIN below})
    BY <1>2
  <2>2. Lined(TreeLines(top, below, p), top, below, p)
    BY <2>1, TreeLined
  <2>3. ~ (p > 0)
    BY <1>2
  <2> QED
    BY <1>1, <1>2, <1>0, <2>1, <2>2, <2>3 DEF OneFolder
<1>3. CASE /\ p \in DOMAIN top /\ top[p].dtype = DtDir
           /\ below = ReadDirInode(VolumeRecords, top[p].file)
  <2>1. below \in Seq({below[i] : i \in DOMAIN below}) /\ Len(below) \in Nat
        /\ DOMAIN below = 1 .. Len(below)
    BY <1>3, DirectorySeq
  <2>2. p \in 0 .. Len(top) /\ p # 0
    BY <1>1, <1>3
  <2>3. Lined(TreeLines(top, below, p), top, below, p)
    BY <1>1, <2>1, <2>2, TreeLined
  <2> QED
    BY <1>1, <1>3, <1>0, <2>1, <2>2, <2>3 DEF OneFolder
<1> QED
  BY <1>2, <1>3 DEF OneFolder

\* A line more of a walk.
LEMMA WalkOn ==
    ASSUME Keyed(VolumeRecords), NEW top, NEW below, NEW p, OneFolder(top, below, p),
           NEW m \in 0 .. Len(top) + Len(below) - 1
    PROVE  LET lines == TreeLines(top, below, p)
               k == m - Len(below)
           IN  /\ m + 1 \in 0 .. Len(top) + Len(below)
               /\ Append(SubSeq(lines, 1, m), lines[m + 1]) = SubSeq(lines, 1, m + 1)
               /\ m < p => lines[m + 1] = Line(top[m + 1], 0)
               /\ m >= p /\ m < p + Len(below) => lines[m + 1] = Line(below[m - p + 1], 1)
               /\ m >= p + Len(below) => lines[m + 1] = Line(top[k + 1], 0)
<1> DEFINE t == Len(top)
           b == Len(below)
           lines == TreeLines(top, below, p)
<1>1. t \in Nat /\ b \in Nat /\ p \in Nat /\ m \in Nat /\ m < t + b /\ p <= t
  <2>1. t \in Nat /\ b \in Nat /\ p \in 0 .. t
    BY WalkFacts, Zenon
  <2>2. m \in 0 .. t + b - 1
    OBVIOUS
  <2> HIDE DEF t, b
  <2> QED
    BY <2>1, <2>2
<1>2. Lined(lines, top, below, p)
  BY WalkFacts
<1>3. Len(lines) = t + b /\ DOMAIN lines = 1 .. t + b /\ lines \in Seq({lines[i] : i \in DOMAIN lines})
  BY <1>2 DEF Lined
<1>4. /\ \A i \in DOMAIN lines : i <= p => lines[i] = Line(top[i], 0)
      /\ \A i \in DOMAIN lines : i > p /\ i <= p + b => lines[i] = Line(below[i - p], 1)
      /\ \A i \in DOMAIN lines : i > p + b => lines[i] = Line(top[i - b], 0)
  BY <1>2 DEF Lined
<1> HIDE DEF lines, t, b
<1>5. m \in 0 .. Len(lines) /\ m < Len(lines) /\ m + 1 \in DOMAIN lines /\ m + 1 \in 0 .. t + b
  BY <1>1, <1>3
<1>6. Append(SubSeq(lines, 1, m), lines[m + 1]) = SubSeq(lines, 1, m + 1)
  <2> DEFINE S == {lines[i] : i \in DOMAIN lines}
  <2>1. lines \in Seq(S)
    BY <1>3
  <2> HIDE DEF S
  <2> QED
    BY <1>5, <2>1, FurtherOn
<1>7. ASSUME m < p PROVE lines[m + 1] = Line(top[m + 1], 0)
  <2>1. m + 1 <= p
    BY <1>1, <1>7
  <2> QED
    BY <1>4, <1>5, <2>1, Zenon
<1>8. ASSUME m >= p, m < p + b PROVE lines[m + 1] = Line(below[m - p + 1], 1)
  <2>1. m + 1 > p /\ m + 1 <= p + b /\ (m + 1) - p = m - p + 1
    BY <1>1, <1>8
  <2>2. lines[m + 1] = Line(below[(m + 1) - p], 1)
    BY <1>4, <1>5, <2>1, Zenon
  <2> QED
    BY <2>1, <2>2, Zenon
<1>9. ASSUME m >= p + b PROVE lines[m + 1] = Line(top[m - b + 1], 0)
  <2>1. m + 1 > p + b /\ (m + 1) - b = m - b + 1
    BY <1>1, <1>9
  <2>2. lines[m + 1] = Line(top[(m + 1) - b], 0)
    BY <1>4, <1>5, <2>1, Zenon
  <2> QED
    BY <2>1, <2>2, Zenon
<1> QED
  BY <1>5, <1>6, <1>7, <1>8, <1>9, Zenon DEF lines, t, b

LEMMA ToolPrintsTree ==
    ASSUME ToolInv, UNCHANGED fixVars, PrintTree, Keyed(VolumeRecords)
    PROVE  ToolInv'
<1> DEFINE e == Head(Top)
           line(depth) == [name |-> e.name, file |-> e.file, depth |-> depth]
<1>1. /\ pc' = pc /\ runs' = runs /\ Volume' = Volume /\ VolumeRecords' = VolumeRecords
      /\ command' = command
  BY ToolFrame DEF PrintTree
<1>2. /\ status = "running" /\ status' = "running" /\ command.op = "tree" /\ Top # <<>>
      /\ printed' = Append(printed, line(Depth))
      /\ stack' = IF e.dtype = DtDir THEN Opened(e.file) ELSE Popped
  BY DEF PrintTree
<1>3. pc = "idle" /\ runs = MaxRuns /\ Volume.kind = "container"
  BY <1>2 DEF ToolInv
<1>4. PICK top, below, p, m : Touring(top, below, p, m)
  BY <1>2 DEF ToolInv
<1> DEFINE lines == TreeLines(top, below, p)
           t == Len(top)
           b == Len(below)
<1>5. OneFolder(top, below, p) /\ OneFolder(top, below, p)'
  BY <1>4, ToolFrame DEF Touring
<1>6. m \in 0 .. t + b /\ printed = SubSeq(lines, 1, m)
  BY <1>4 DEF Touring
<1>7. t \in Nat /\ b \in Nat /\ p \in 0 .. t
  BY <1>5, WalkFacts, Zenon
<1>8. SUFFICES /\ m < t + b
               /\ Append(printed, line(Depth)) = Append(printed, lines[m + 1])
               /\ \/ m + 1 < p /\ stack' = <<Rest(top, m + 1)>>
                  \/ m + 1 >= p + b /\ stack' = <<Rest(top, m + 1 - b)>>
                  \/ /\ p \in DOMAIN top /\ m + 1 \in p .. p + b
                     /\ stack' = <<Rest(top, p), Rest(below, m + 1 - p)>>
  <2>1. m \in 0 .. t + b - 1
    BY <1>6, <1>7, <1>8
  <2>2. m + 1 \in 0 .. t + b /\ printed' = SubSeq(lines, 1, m + 1)
    BY <1>2, <1>5, <1>6, <1>8, <2>1, WalkOn
  <2> DEFINE n == m + 1
             Left == \/ n < p /\ stack' = <<Rest(top, n)>>
                     \/ n >= p + b /\ stack' = <<Rest(top, n - b)>>
                     \/ /\ p \in DOMAIN top /\ n \in p .. p + b
                        /\ stack' = <<Rest(top, p), Rest(below, n - p)>>
  <2>a. Left
    <3>1. m + 1 - b = n - b /\ m + 1 - p = n - p
      BY <1>6, <1>7
    <3> HIDE DEF n
    <3> QED
      BY <1>8, <3>1 DEF n
  <2>b. OneFolder(top, below, p)' /\ n \in 0 .. t + b /\ printed' = SubSeq(lines, 1, n) /\ status' # "ok"
    BY <1>2, <1>5, <2>2
  <2> HIDE DEF n
  <2>3. Touring(top, below, p, n)'
    BY <2>a, <2>b, Zenon DEF Touring
  <2> QED
    BY <1>1, <1>2, <1>3, <2>3 DEF ToolInv
<1>9. \/ m < p /\ stack = <<Rest(top, m)>>
      \/ m >= p + b /\ stack = <<Rest(top, m - b)>>
      \/ p \in DOMAIN top /\ m \in p .. p + b /\ stack = <<Rest(top, p), Rest(below, m - p)>>
  BY <1>2, <1>4 DEF Touring
<1> HIDE DEF lines, t, b
<1>10. ASSUME NEW k \in 0 .. t, stack = <<Rest(top, k)>>
       PROVE  /\ k < t /\ k + 1 \in DOMAIN top /\ Depth = 0 /\ e = top[k + 1]
              /\ Popped = <<Rest(top, k + 1)>>
              /\ \A x : Opened(x) = <<Rest(top, k + 1), ReadDirInode(VolumeRecords, x)>>
  <2> DEFINE a == Rest(top, k)
  <2>1. Len(stack) = 1 /\ stack[1] = a
    BY <1>10, Stacks
  <2>2. Top = a /\ Depth = 0
    BY <2>1 DEF Top, Depth
  <2>3. Popped = <<Tail(a)>>
    <3> HIDE DEF a
    <3> QED
      BY <1>10, <2>1, <2>2, Stacks DEF Popped, a
  <2>4. /\ k < t /\ e = top[k + 1] /\ Tail(a) = Rest(top, k + 1)
    <3>1. top \in Seq({top[i] : i \in DOMAIN top}) /\ k \in 0 .. Len(top)
      BY <1>5, WalkFacts, Zenon DEF t
    <3>2. k # t
      BY <1>2, <2>2, <3>1, FurtherOn DEF t
    <3>3. k < Len(top)
      BY <1>7, <3>2 DEF t
    <3> QED
      BY <2>2, <3>1, <3>3, FurtherOn DEF t
  <2>5. k + 1 \in DOMAIN top
    <3>1. DOMAIN top = 1 .. t
      BY <1>5, WalkFacts, Zenon DEF t
    <3> QED
      BY <1>7, <2>4, <3>1
  <2>6. ASSUME NEW x PROVE Opened(x) = <<Rest(top, k + 1), ReadDirInode(VolumeRecords, x)>>
    <3>1. Opened(x) = Append(<<Rest(top, k + 1)>>, ReadDirInode(VolumeRecords, x))
      BY <2>3, <2>4 DEF Opened
    <3> QED
      BY <3>1, Stacks, Zenon
  <2> HIDE DEF a
  <2> QED
    BY <2>2, <2>3, <2>4, <2>5, <2>6
<1>11. ASSUME NEW k \in 0 .. b, stack = <<Rest(top, p), Rest(below, k)>>
       PROVE  /\ k < b /\ k + 1 \in DOMAIN below /\ Depth = 1 /\ e = below[k + 1]
              /\ Popped = <<Rest(top, p), Rest(below, k + 1)>>
  <2> DEFINE a == Rest(top, p)
             c == Rest(below, k)
  <2>1. Len(stack) = 2 /\ stack[2] = c
    BY <1>11, Stacks
  <2>2. Top = c /\ Depth = 1
    BY <2>1 DEF Top, Depth
  <2>3. Popped = <<a, Tail(c)>>
    <3> HIDE DEF a, c
    <3> QED
      BY <1>11, <2>1, <2>2, Stacks DEF Popped, a, c
  <2>4. /\ k < b /\ e = below[k + 1] /\ Tail(c) = Rest(below, k + 1)
    <3>1. below \in Seq({below[i] : i \in DOMAIN below}) /\ k \in 0 .. Len(below)
      BY <1>5, WalkFacts, Zenon DEF b
    <3>2. k # b
      BY <1>2, <2>2, <3>1, FurtherOn DEF b
    <3>3. k < Len(below)
      BY <1>7, <3>2 DEF b
    <3> QED
      BY <2>2, <3>1, <3>3, FurtherOn DEF b
  <2>5. k + 1 \in DOMAIN below
    <3>1. DOMAIN below = 1 .. b
      BY <1>5, WalkFacts, Zenon DEF b
    <3> QED
      BY <1>7, <2>4, <3>1
  <2> HIDE DEF c
  <2> QED
    BY <2>2, <2>3, <2>4, <2>5
<1> HIDE DEF e
<1>12. CASE m < p /\ stack = <<Rest(top, m)>>
  <2>1. /\ m \in 0 .. t /\ m < t + b /\ m \in 0 .. t + b - 1 /\ m + 1 <= p
    BY <1>6, <1>7, <1>12
  <2>2. /\ m < t /\ m + 1 \in DOMAIN top /\ Depth = 0 /\ e = top[m + 1]
        /\ Popped = <<Rest(top, m + 1)>>
        /\ \A x : Opened(x) = <<Rest(top, m + 1), ReadDirInode(VolumeRecords, x)>>
    BY <1>10, <1>12, <2>1
  <2>3. lines[m + 1] = Line(top[m + 1], 0)
    BY <1>5, <1>12, <2>1, WalkOn DEF lines, t, b
  <2>4. line(Depth) = lines[m + 1]
    BY <2>2, <2>3 DEF Line
  <2>5. CASE e.dtype = DtDir
    <3>1. m + 1 = p
      BY <1>5, <2>2, <2>5, WalkFacts
    <3>2. p \in DOMAIN top /\ below = ReadDirInode(VolumeRecords, e.file)
      <4>1. p > 0 /\ e = top[p]
        BY <1>7, <1>12, <1>6, <2>2, <3>1
      <4> QED
        <5>1. below = ReadDirInode(VolumeRecords, top[p].file)
          BY <1>5, <4>1, WalkFacts, Zenon
        <5> QED
          BY <2>2, <3>1, <4>1, <5>1
    <3>3. stack' = <<Rest(top, p), below>>
      BY <1>2, <2>2, <2>5, <3>1, <3>2
    <3>4. Rest(below, m + 1 - p) = below
      <4>1. m + 1 - p = 0
        BY <1>6, <1>7, <3>1
      <4>2. Rest(below, 0) = below
        BY <1>5, WalkFacts, Zenon
      <4> QED
        BY <4>1, <4>2
    <3>5. m + 1 \in p .. p + b
      BY <1>7, <3>1
    <3> QED
      BY <2>1, <2>4, <3>2, <3>3, <3>4, <3>5
  <2>6. CASE e.dtype # DtDir
    <3>1. m + 1 # p
      <4>1. m + 1 = p => p > 0
        BY <1>6, <1>7, <1>12
      <4>2. p > 0 => top[p].dtype = DtDir
        BY <1>5, WalkFacts, Zenon
      <4> QED
        BY <2>2, <2>6, <4>1, <4>2
    <3>2. m + 1 < p
      BY <1>6, <1>7, <2>1, <3>1
    <3> QED
      BY <1>2, <2>1, <2>2, <2>4, <2>6, <3>2
  <2> QED
    BY <2>5, <2>6
<1>13. CASE m >= p + b /\ stack = <<Rest(top, m - b)>>
  <2>1. m - b \in 0 .. t
    BY <1>6, <1>7, <1>13
  <2>2. /\ m - b < t /\ m - b + 1 \in DOMAIN top /\ Depth = 0 /\ e = top[m - b + 1]
        /\ Popped = <<Rest(top, m - b + 1)>>
    BY <1>10, <1>13, <2>1
  <2>3. m < t + b /\ m \in 0 .. t + b - 1 /\ m - b + 1 # p /\ m + 1 - b = m - b + 1 /\ m + 1 >= p + b
    BY <1>6, <1>7, <1>13, <2>2
  <2>4. lines[m + 1] = Line(top[m - b + 1], 0)
    BY <1>5, <1>13, <2>3, WalkOn DEF lines, t, b
  <2>5. line(Depth) = lines[m + 1]
    BY <2>2, <2>4 DEF Line
  <2>6. e.dtype # DtDir
    <3>1. \A i \in DOMAIN top : top[i].dtype = DtDir => i = p
      BY <1>5, WalkFacts, Zenon
    <3> QED
      BY <2>2, <2>3, <3>1
  <2> QED
    BY <1>2, <2>2, <2>3, <2>5, <2>6
<1>14. CASE p \in DOMAIN top /\ m \in p .. p + b /\ stack = <<Rest(top, p), Rest(below, m - p)>>
  <2>1. m - p \in 0 .. b
    BY <1>7, <1>14
  <2>2. /\ m - p < b /\ m - p + 1 \in DOMAIN below /\ Depth = 1 /\ e = below[m - p + 1]
        /\ Popped = <<Rest(top, p), Rest(below, m - p + 1)>>
    BY <1>11, <1>14, <2>1
  <2>3. /\ m < t + b /\ m \in 0 .. t + b - 1 /\ m + 1 - p = m - p + 1
        /\ m + 1 \in p .. p + b /\ m >= p /\ m < p + b
    BY <1>6, <1>7, <1>14, <2>2
  <2>4. lines[m + 1] = Line(below[m - p + 1], 1)
    BY <1>5, <2>3, WalkOn DEF lines, t, b
  <2>5. line(Depth) = lines[m + 1]
    BY <2>2, <2>4 DEF Line
  <2>6. e.dtype # DtDir
    BY <1>5, <2>2, WalkFacts
  <2> QED
    BY <1>2, <1>14, <2>2, <2>3, <2>5, <2>6
<1> QED
  BY <1>9, <1>12, <1>13, <1>14

LEMMA ToolEndsDir ==
    ASSUME ToolInv, UNCHANGED fixVars, EndDir, Keyed(VolumeRecords)
    PROVE  ToolInv'
<1>1. /\ pc' = pc /\ runs' = runs /\ Volume' = Volume /\ VolumeRecords' = VolumeRecords
      /\ command' = command /\ Listed' = Listed /\ Lines' = Lines
  BY ToolFrame DEF EndDir
<1>2. /\ status = "running" /\ Top = <<>> /\ printed' = printed
      /\ IF Len(stack) = 1 THEN status' = "ok"
         ELSE stack' = SubSeq(stack, 1, Len(stack) - 1) /\ status' = status
  BY DEF EndDir, Exit
<1>3. pc = "idle" /\ runs = MaxRuns /\ Volume.kind = "container" /\ status' \in {"running", "ok"}
  BY <1>2 DEF ToolInv
<1>4. CASE command.op = "ls"
  <2>1. PICK m : Listing(m)
    BY <1>2, <1>4 DEF ToolInv
  <2>2. m \in 0 .. Len(Listed) /\ printed = SubSeq(Lines, 1, m) /\ stack = <<Rest(Listed, m)>>
    BY <1>2, <2>1 DEF Listing
  <2>3. Top = Rest(Listed, m) /\ Len(stack) = 1
    BY <2>2, Stacks DEF Top
  <2>4. m = Len(Listed)
    <3> DEFINE S == {Listed[i] : i \in DOMAIN Listed}
    <3>1. Listed \in Seq(S) /\ Len(Listed) \in Nat
      BY LinesOfEntries
    <3> HIDE DEF S
    <3>2. ~ (m < Len(Listed))
      BY <1>2, <2>2, <2>3, <3>1, FurtherOn
    <3> QED
      BY <2>2, <3>1, <3>2
  <2>5. Listing(m)'
    BY <1>1, <1>2, <2>2, <2>3, <2>4 DEF Listing
  <2> QED
    BY <1>1, <1>3, <1>4, <2>5 DEF ToolInv
<1>5. CASE command.op = "tree"
  <2>1. PICK top, below, p, m : Touring(top, below, p, m)
    BY <1>2, <1>5 DEF ToolInv
  <2> DEFINE t == Len(top)
             b == Len(below)
             lines == TreeLines(top, below, p)
  <2>2. OneFolder(top, below, p) /\ OneFolder(top, below, p)'
    BY <2>1, ToolFrame DEF Touring
  <2>3. m \in 0 .. t + b /\ printed = SubSeq(lines, 1, m)
    BY <2>1 DEF Touring
  <2>4. t \in Nat /\ b \in Nat /\ p \in 0 .. t
    BY <2>2, WalkFacts, Zenon
  <2>5. \/ m < p /\ stack = <<Rest(top, m)>>
        \/ m >= p + b /\ stack = <<Rest(top, m - b)>>
        \/ p \in DOMAIN top /\ m \in p .. p + b /\ stack = <<Rest(top, p), Rest(below, m - p)>>
    BY <1>2, <2>1 DEF Touring
  <2>6. ASSUME NEW k \in 0 .. t, stack = <<Rest(top, k)>> PROVE k = t /\ Len(stack) = 1
    <3>1. top \in Seq({top[i] : i \in DOMAIN top}) /\ k \in 0 .. Len(top)
      BY <2>2, WalkFacts, Zenon
    <3>2. Rest(top, k) = <<>> /\ Len(stack) = 1
      BY <1>2, <2>6, Stacks DEF Top
    <3>3. ~ (k < Len(top))
      BY <3>1, <3>2, FurtherOn
    <3> QED
      BY <2>4, <3>2, <3>3
  <2>7. ASSUME NEW k \in 0 .. b, stack = <<Rest(top, p), Rest(below, k)>>
        PROVE  k = b /\ Len(stack) = 2
    <3>1. below \in Seq({below[i] : i \in DOMAIN below}) /\ k \in 0 .. Len(below)
      BY <2>2, WalkFacts, Zenon
    <3>2. Rest(below, k) = <<>> /\ Len(stack) = 2
      BY <1>2, <2>7, Stacks DEF Top
    <3>3. ~ (k < Len(below))
      BY <3>1, <3>2, FurtherOn
    <3> QED
      BY <2>4, <3>2, <3>3
  <2>8. Touring(top, below, p, m)'
    <3> HIDE DEF t, b, lines
    <3>1. CASE m < p /\ stack = <<Rest(top, m)>>
      <4>1. m \in 0 .. t
        BY <2>3, <2>4, <3>1
      <4> QED
        BY <2>4, <2>6, <3>1, <4>1
    <3>2. CASE m >= p + b /\ stack = <<Rest(top, m - b)>>
      <4>1. m - b \in 0 .. t
        BY <2>3, <2>4, <3>2
      <4>2. m - b = t /\ Len(stack) = 1
        BY <2>6, <3>2, <4>1
      <4>3. m = t + b /\ status' = "ok" /\ printed' = SubSeq(lines, 1, m)
        BY <1>2, <2>3, <2>4, <4>2
      <4> QED
        BY <2>2, <2>3, <4>3 DEF Touring, t, b, lines
    <3>3. CASE p \in DOMAIN top /\ m \in p .. p + b /\ stack = <<Rest(top, p), Rest(below, m - p)>>
      <4>1. m - p \in 0 .. b
        BY <2>4, <3>3
      <4>2. m - p = b /\ Len(stack) = 2
        BY <2>7, <3>3, <4>1
      <4>3. m - b = p /\ m >= p + b
        BY <2>3, <2>4, <4>2
      <4>4. stack' = <<Rest(top, m - b)>> /\ status' = "running" /\ printed' = SubSeq(lines, 1, m)
        <5>1. stack' = SubSeq(stack, 1, 1)
          BY <1>2, <4>2
        <5>2. SubSeq(stack, 1, 1) = <<Rest(top, p)>>
          BY <3>3, Stacks, Zenon
        <5> QED
          BY <1>2, <2>3, <4>2, <4>3, <5>1, <5>2
      <4> QED
        BY <2>2, <2>3, <4>3, <4>4 DEF Touring, t, b, lines
    <3> QED
      BY <2>5, <3>1, <3>2, <3>3
  <2> QED
    BY <1>1, <1>3, <1>5, <2>8 DEF ToolInv
<1>6. CASE command.op \notin {"ls", "tree"}
  BY <1>1, <1>2, <1>3, <1>6 DEF ToolInv
<1> QED
  BY <1>4, <1>5, <1>6

LEMMA ToolStep ==
    SpaceInv /\ TreeInv /\ VolumeInv /\ FurnishedInv /\ ToolInv /\ [Next]_vars => ToolInv'
<1> SUFFICES ASSUME SpaceInv, TreeInv, VolumeInv, FurnishedInv, ToolInv, [Next]_vars PROVE ToolInv'
  OBVIOUS
<1>1. CASE Inject /\ UNCHANGED <<mountVars, cliVars>>
  <2>1. status = "idle"
    <3>1. SUFFICES ASSUME pc = "idle", runs = MaxRuns PROVE FALSE
      BY <3>1 DEF ToolInv
    <3>2. ~ (runs < MaxRuns)
      BY <3>1, BoundsAssumption
    <3> QED
      BY <1>1, <3>1, <3>2 DEF Inject, Load, LoadFails, AllocBlocks, WriteData, BuildTree,
         BuildReferences, Count, WriteImage, WriteFails
  <2> QED
    BY <1>1, <2>1 DEF ToolInv, cliVars
<1>2. CASE MountStep /\ status = "idle" /\ UNCHANGED <<fixVars, cliVars>>
  BY <1>2, ToolQuiet
<1>3. CASE CliStep /\ UNCHANGED <<fixVars, mountVars>>
  <2>1. Volume.kind = "container" =>
           WellKept(Volume) /\ Keyed(VolumeRecords) /\ Furnished(Volume)
    BY VolumeSound, VolumeFurnished
  <2>2. Volume.kind = "container" =>
           Keyed(VolumeRecords) /\ \E top : \E below : \E p : OneFolder(top, below, p)
    BY <2>1, FolderFound
  <2>3. status = "running" => Keyed(VolumeRecords)
    BY <2>1 DEF ToolInv
  <2>4. ASSUME NEW op, NEW path, Begin(op, path) PROVE ToolInv'
    BY <1>3, <2>2, <2>4, ToolBegins
  <2>5. CASE Abort
    <3>1. status' = "error" /\ pc' = pc /\ runs' = runs
      BY <1>3, <2>5 DEF Abort, Exit, fixVars
    <3>2. pc = "idle" /\ runs = MaxRuns
      BY <2>5 DEF Abort, Cli
    <3> QED
      BY <3>1, <3>2 DEF ToolInv
  <2>6. CASE PrintEntry
    BY <1>3, <2>3, <2>6, ToolPrintsEntry DEF PrintEntry
  <2>7. CASE PrintTree
    BY <1>3, <2>3, <2>7, ToolPrintsTree DEF PrintTree
  <2>8. CASE EndDir
    BY <1>3, <2>3, <2>8, ToolEndsDir DEF EndDir
  <2> QED
    BY <1>3, <2>4, <2>5, <2>6, <2>7, <2>8 DEF CliStep
<1>4. CASE UNCHANGED vars
  BY <1>4, ToolQuiet DEF vars
<1> QED
  BY <1>1, <1>2, <1>3, <1>4 DEF Next

(* `tree` prints every entry of the volume once, below the directory that  *)
(* holds it, `ls` prints what the mounted directory shows, and the counts  *)
(* of `info` are those of the lines of `tree`, on any image that the       *)
(* injector leaves (main.rs:44-96 and 122-139).                            *)
THEOREM ToolsPrintEverything == Spec => []ToolsPrintAll
<1>1. SpaceInv /\ TreeInv /\ VolumeInv /\ FurnishedInv /\ ToolInv => ToolsPrintAll
  <2> SUFFICES ASSUME SpaceInv, TreeInv, VolumeInv, FurnishedInv, ToolInv, status = "ok"
               PROVE  ToolsPrintAll
    BY DEF ToolsPrintAll
  <2>1. Volume.kind = "container"
    BY DEF ToolInv
  <2>2. WellKept(Volume) /\ Keyed(VolumeRecords) /\ Furnished(Volume)
    BY <2>1, VolumeSound, VolumeFurnished
  <2>3. ASSUME command.op = "ls" PROVE printed = Lines
    <3>1. PICK m : Listing(m)
      BY <2>3 DEF ToolInv
    <3>2. m = Len(Lines) /\ printed = SubSeq(Lines, 1, m)
      BY <2>2, <3>1, LinesOfEntries DEF Listing
    <3> QED
      BY <2>2, <3>2, LinesOfEntries, SubSeqFull
  <2>4. ASSUME command.op = "info"
        PROVE  printed[1].files + printed[1].dirs + printed[1].links = Cardinality(VolumeEntries)
    <3> DEFINE summary == [files |-> Volume.files, dirs |-> Volume.dirs, links |-> Volume.links]
    <3>1. printed = <<summary>>
      BY <2>4 DEF ToolInv
    <3>2. printed[1] = summary
      <4> HIDE DEF summary
      <4> QED
        BY <3>1
    <3> QED
      BY <2>2, <3>2, EntriesCounted
  <2>5. ASSUME command.op = "tree" PROVE TreePrinted
    <3>1. PICK top, below, p, m : Touring(top, below, p, m)
      BY <2>5 DEF ToolInv
    <3> DEFINE lines == TreeLines(top, below, p)
    <3>2. OneFolder(top, below, p) /\ m = Len(top) + Len(below) /\ printed = SubSeq(lines, 1, m)
      BY <3>1 DEF Touring
    <3>3. Len(lines) = Len(top) + Len(below) /\ lines \in Seq({lines[i] : i \in DOMAIN lines})
      <4>1. Lined(lines, top, below, p)
        BY <2>2, <3>2, WalkFacts
      <4> QED
        BY <4>1 DEF Lined
    <3>4. printed = lines
      <4> HIDE DEF lines
      <4> QED
        BY <3>2, <3>3, SubSeqFull
    <3> QED
      BY <2>2, <3>2, <3>4, NothingPrinted, AllPrinted
  <2> QED
    BY <2>3, <2>4, <2>5 DEF ToolsPrintAll, Lines, Listed
<1>2. InjectSpec => []LaidInv
  BY LaidInit, LaidStep, Inductive, SpaceInductive, TreeInductive, PTL DEF InjectSpec
<1>3. InjectSpec => []FurnishedInv
  BY <1>2, FurnishedInit, FurnishedStep, Inductive, SpaceInductive, TreeInductive, PTL DEF InjectSpec
<1>4. Spec => []IInv /\ []SpaceInv /\ []TreeInv /\ []FurnishedInv
  BY <1>3, OnlyInjectorWrites, Inductive, SpaceInductive, TreeInductive, PTL
<1>5. Spec => []BufferInv
  BY BufferInvInit, BufferInvNext, PTL DEF Spec
<1>6. Spec => []VolumeInv
  BY <1>4, <1>5, VolumeInit, VolumeStep, PTL DEF Spec
<1>7. Spec => []ToolInv
  BY <1>4, <1>6, ToolInit, ToolStep, PTL DEF Spec
<1> QED
  BY <1>1, <1>4, <1>6, <1>7, PTL

=============================================================================
