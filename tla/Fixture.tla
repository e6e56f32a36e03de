------------------------------ MODULE Fixture ------------------------------
(***************************************************************************)
(* The injector of test files, crates/apfs-fixture/src/main.rs.  It loads  *)
(* an image that mkapfs formatted, allocates blocks in the space manager's *)
(* bitmap, adds records to the two trees and counts to the superblock, and *)
(* writes the image back over the file.  A failed assertion or `expect`    *)
(* ends it before the write; the write itself may fail half-way.           *)
(*                                                                         *)
(* The image is what the injector and the readers see of the blocks: the   *)
(* bitmap and the two free counts, the file-system tree and the tree of    *)
(* extent references (one node each), the counts of the volume, the data   *)
(* of blocks, and `stale`, the objects whose checksum is out of date.      *)
(***************************************************************************)
EXTENDS FsRecords, TLC

CONSTANTS
    Blocks,       \* blocks of the image
    Formatted,    \* the images there may be, as mkapfs (or anyone) left them
    NameLen,      \* name -> its bytes
    Hash,         \* name -> the hash in its directory record
    ZattrBytes,   \* zlib stream of packed.txt
    RsrcBytes,    \* resource fork of packed-rsrc.bin
    MaxRuns,      \* bound: how often the injector is run
    MaxFaults     \* bound: failing calls of the operating system

VARIABLES
    disk,     \* the image file; Torn after a write that failed
    img,      \* the injector's copy
    pc,       \* "idle", "alloc", "tree", "refs", "count", "write"
    exit,     \* how its last run ended: "none", "ok", "panic"
    blk,      \* first blocks of the allocations made so far
    runs,     \* how often it ran
    faults    \* how many calls have failed

fixVars == <<disk, img, pc, exit, blk, runs>>

Torn == [kind |-> "torn", parts |-> <<>>]
NoImage == [kind |-> "none"]

\* The names, in the order of their bytes; mkapfs made two.
BigBin == 1
Docs == 2
Hello == 3
Link == 4
PackedRsrc == 5
PackedTxt == 6
PlainTxt == 7
PrivDirName == 8
Readme == 9
RootName == 10

DivCeil(a, b) == (a + b - 1) \div b
RsrcBlocks == DivCeil(RsrcBytes, BlockBytes)
Wanted == <<1, 1, 2, 1, 2, RsrcBlocks>>   \* hello, readme, big (3 times), fork
Total == 7 + RsrcBlocks

FixtureInit ==
    /\ disk \in Formatted /\ img = NoImage
    /\ pc = "idle" /\ exit = "none" /\ blk = <<>>
    /\ runs = 0 /\ faults = 0

(* What a formatted image is: its counts are right, and its blocks exist.  *)
Fields == {"kind", "parts", "hashed", "fold", "desc", "data", "omap", "system", "used", "chunkFree",
           "devFree", "tree", "refs", "content", "next", "files", "dirs", "links", "allocCount",
           "alloced", "stale"}

\* const BS
ASSUME BlockSizeAssumption == BlockBytes = 4096
ASSUME BlocksAssumption == Blocks \in Nat /\ RsrcBlocks \in Nat \ {0}

ASSUME FormattedAssumption ==
    \A d \in Formatted : d.kind = "container" =>
        /\ d = [f \in Fields |-> d[f]]
        /\ d.used \subseteq 0 .. Blocks - 1 /\ d.devFree = d.chunkFree
        /\ d.chunkFree = Cardinality((0 .. Blocks - 1) \ d.used)

ASSUME BoundsAssumption == MaxRuns \in Nat /\ MaxFaults \in Nat

Ends(how) == pc' = "idle" /\ exit' = how /\ img' = NoImage /\ blk' = <<>>

----------------------------------------------------------------------------
(* discover, omap_lookup_first, discover_spaceman, and main's own demands. *)
Latest(d) ==
    CHOOSE i \in DOMAIN d.desc : \A j \in DOMAIN d.desc :
        d.desc[j].nx => /\ d.desc[i].nx
                        /\ d.desc[j].xid < d.desc[i].xid \/ (d.desc[j].xid = d.desc[i].xid /\ j <= i)

\* main takes the times of the new inodes from the root's.
RootKnown(d) ==
    \E i \in DOMAIN ReadNode(d.tree) :
        ReadNode(d.tree)[i].id = RootDir /\ ReadNode(d.tree)[i].type = InodeRec

Discovered(d) ==
    /\ d.kind = "container"
    /\ \E i \in DOMAIN d.desc : d.desc[i].nx
    /\ \E i \in DOMAIN d.data : d.data[i] = d.desc[Latest(d)].spaceman
    /\ d.desc[Latest(d)].fs \in d.omap
    /\ d.hashed \/ d.fold
    /\ RootKnown(d)

Load ==
    /\ pc = "idle" /\ runs < MaxRuns
    /\ runs' = runs + 1
    /\ IF Discovered(disk)
         THEN img' = disk /\ pc' = "alloc" /\ blk' = <<>> /\ exit' = "none"
         ELSE Ends("panic")
    /\ UNCHANGED <<disk, faults>>

\* expect("read image")
LoadFails ==
    /\ pc = "idle" /\ runs < MaxRuns /\ faults < MaxFaults
    /\ runs' = runs + 1 /\ faults' = faults + 1
    /\ Ends("panic") /\ UNCHANGED disk

(* alloc_blocks: the first run of free blocks that is long enough.         *)
\* Mutated: a run may reach beyond the last block.
RunsOver(used, n) == {s \in 0 .. Blocks : s .. s + n - 1 \cap used = {}}

\* Mutated: the last block of the run is not looked at.
RunsTouching(used, n) == {s \in 0 .. Blocks - n : s .. s + n - 2 \cap used = {}}

\* Mutated: a run that ends at the last block is not found.
RunsShort(used, n) == {s \in 0 .. Blocks - n - 1 : s .. s + n - 1 \cap used = {}}

Runs(used, n) == {s \in 0 .. Blocks - n : s .. s + n - 1 \cap used = {}}

\* Mutated: the run's last block stays free in the bitmap.
Taken(s, n) == s .. s + n - 2

Marked(s, n) == s .. s + n - 1
FixedByAlloc == {"chunk", "spaceman"}

\* The objects written and not given a new checksum (fix_checksum).
Fixed(objs, fixed) == (img.stale \cup objs) \ fixed

AllocBlocks ==
    /\ pc = "alloc" /\ Len(blk) < Len(Wanted)
    /\ LET n == Wanted[Len(blk) + 1]
           free == Runs(img.used, n)
       IN  IF free = {} THEN Ends("panic")
           ELSE \E s \in free :
                /\ \A r \in free : s <= r
                /\ img' = [img EXCEPT !.used = @ \cup Marked(s, n),
                                      !.chunkFree = @ - n, !.devFree = @ - n,
                                      !.stale = Fixed({"chunk", "spaceman"}, FixedByAlloc)]
                /\ blk' = Append(blk, s)
                /\ UNCHANGED <<pc, exit>>
    /\ UNCHANGED <<disk, runs, faults>>

\* Mutated: every extent starts with the file's first block of content.
ChunksAgain(n, s, from, bytes) ==
    [b \in s .. s + DivCeil(bytes, BlockBytes) - 1 |-> <<n, b - s>>]

(* write_data: the blocks the bytes fill; <<n, k>> is block k of the       *)
(* content of name n.  The last allocated block of big.bin is not written. *)
(* Each call fills blocks of its own, so that the five calls before the    *)
(* last allocation are here with the one behind it.                        *)
Chunks(n, s, from, bytes) ==
    [b \in s .. s + DivCeil(bytes, BlockBytes) - 1 |-> <<n, from + b - s>>]

Overwritten(content, written) ==
    [b \in DOMAIN content \cup UNION {DOMAIN c : c \in written} |->
        IF \E c \in written : b \in DOMAIN c
        THEN (CHOOSE c \in written : b \in DOMAIN c)[b] ELSE content[b]]

Written ==
    {Chunks(Hello, blk[1], 0, 28), Chunks(Readme, blk[2], 0, 1000), Chunks(BigBin, blk[3], 0, 8192),
     Chunks(BigBin, blk[4], 2, 4096), Chunks(BigBin, blk[5], 3, 2048),
     Chunks(PackedRsrc, blk[6], 0, RsrcBytes)}

WriteData ==
    /\ pc = "alloc" /\ Len(blk) = Len(Wanted)
    /\ img' = [img EXCEPT !.content = Overwritten(@, Written)]
    /\ pc' = "tree"
    /\ UNCHANGED <<disk, exit, blk, runs, faults>>

----------------------------------------------------------------------------
\* The record builders, with the lengths of what they build.
Rec(id, type, number, name, klen, vlen, val) ==
    [id |-> id, type |-> type, number |-> number, name |-> name,
     klen |-> klen, vlen |-> vlen, val |-> val]

Pad8(n) == DivCeil(n, 8) * 8
Zeroed == [parent |-> 0, private |-> 0, mode |-> "file", kids |-> 1, stream |-> 0,
           compressed |-> FALSE, hasSize |-> FALSE, uncompressed |-> 0]

\* `val` has a data stream unless its size is 0.
BuildInode(id, parent, name, val) ==
    Rec(id, InodeRec, 0, 0, 8,
        96 + Pad8(NameLen[name] + 1) + 4 + (IF val.stream > 0 THEN 44 ELSE 0),
        [val EXCEPT !.parent = parent, !.private = id])

BuildDrec(parent, name, file, dtype) ==
    Rec(parent, DirRec, Hash[name], name, 13 + NameLen[name], 18, [file |-> file, dtype |-> dtype])

BuildDstreamId(id) == Rec(id, DstreamId, 0, 0, 8, 4, [refs |-> 1])

BuildFileExtent(id, logical, blocks, phys) ==
    Rec(id, FileExtent, logical, 0, 16, 24, [len |-> blocks * BlockBytes, phys |-> phys])

AttrLen == <<22, 17, 20>>   \* bytes of the names of the attributes
BuildXattr(id, name, bytes, val) ==
    Rec(id, XattrRec, 0, name, 11 + AttrLen[name], 4 + bytes, val)

BuildPhysExt(phys, blocks, owner) ==
    Rec(phys, PhysExt, 0, 0, 8, 20, [blocks |-> blocks, owner |-> owner])

Plain(size) == [Zeroed EXCEPT !.stream = size]
Compressed(size) == [Zeroed EXCEPT !.compressed = TRUE, !.hasSize = TRUE, !.uncompressed = size]
File(id, parent, name, val) ==
    <<BuildInode(id, parent, name, val), BuildDrec(parent, name, id, DtReg)>>

\* The ids of the objects: next_obj_id and the eight after it.
Streams(next) == next + 8

NewRecords(next, b) ==
    File(next, RootDir, Hello, Plain(28))
    \o <<BuildDstreamId(next), BuildFileExtent(next, 0, 1, b[1])>>
    \o <<BuildInode(next + 1, RootDir, Docs, [Zeroed EXCEPT !.mode = "dir", !.kids = 2]),
         BuildDrec(RootDir, Docs, next + 1, DtDir)>>
    \o File(next + 2, next + 1, Readme, Plain(1000))
    \o <<BuildDstreamId(next + 2), BuildFileExtent(next + 2, 0, 1, b[2])>>
    \o File(next + 3, next + 1, BigBin, Plain(14336))
    \o <<BuildDstreamId(next + 3),
         BuildFileExtent(next + 3, 0, 2, b[3]),
         BuildFileExtent(next + 3, 2 * BlockBytes, 1, b[4]),
         BuildFileExtent(next + 3, 3 * BlockBytes, 2, b[5])>>
    \o File(next + 5, RootDir, PlainTxt, Compressed(39))
    \o File(next + 6, RootDir, PackedTxt, Compressed(3000))
    \o File(next + 7, RootDir, PackedRsrc, Compressed(100000))
    \o <<BuildXattr(next + 5, DecmpfsAttr, 56, [algo |-> 9, size |-> 39]),
         BuildXattr(next + 6, DecmpfsAttr, 16 + ZattrBytes, [algo |-> 3, size |-> 3000]),
         BuildXattr(next + 7, DecmpfsAttr, 16, [algo |-> 4, size |-> 100000]),
         BuildXattr(next + 7, RsrcAttr, 48, [stream |-> Streams(next), size |-> RsrcBytes]),
         BuildFileExtent(Streams(next), 0, RsrcBlocks, b[6])>>
    \o <<BuildInode(next + 4, RootDir, Link, [Zeroed EXCEPT !.mode = "link"]),
         BuildDrec(RootDir, Link, next + 4, DtLnk),
         BuildXattr(next + 4, SymlinkAttr, 10, [target |-> Hello])>>

NewReferences(next, b) ==
    <<BuildPhysExt(b[1], 1, next), BuildPhysExt(b[2], 1, next + 2),
      BuildPhysExt(b[3], 2, next + 3), BuildPhysExt(b[4], 1, next + 3),
      BuildPhysExt(b[5], 2, next + 3), BuildPhysExt(b[6], RsrcBlocks, Streams(next))>>

----------------------------------------------------------------------------
(* serialize_node: the table grows by 64 bytes at a time, keys go forward  *)
(* from its end, values backward from the end of the block; each entry has *)
(* the place of its key and value.                                         *)
TableLen(toc, n) == IF n * 8 > toc THEN DivCeil(n * 8, 64) * 64 ELSE toc

Sums(len) == LET f[i \in 0 .. Len(len)] == IF i = 0 THEN 0 ELSE f[i - 1] + len[i] IN f
KeySums(recs) == Sums([i \in DOMAIN recs |-> recs[i].klen])
ValSums(recs) == Sums([i \in DOMAIN recs |-> recs[i].vlen])

Entry(k, v, r, i) == [ko |-> k[i - 1], kl |-> r.klen, vo |-> v[i], vl |-> r.vlen]

SerializeNode(toc, recs) ==
    LET len == TableLen(toc, Len(recs))
        k == KeySums(recs)
        v == ValSums(recs)
    IN  [nkeys |-> Len(recs), toc |-> len, recs |-> recs, vals |-> ValEnd - v[Len(recs)],
         entries |-> [i \in DOMAIN recs |-> Entry(k, v, recs[i], i)],
         keyAt |-> [i \in DOMAIN recs |-> KeyArea(len) + k[i - 1]],
         valAt |-> [i \in DOMAIN recs |-> ValEnd - v[i]]]

\* assert!(keys_end <= vals_start)
Fits(toc, recs) ==
    KeyArea(TableLen(toc, Len(recs))) + KeySums(recs)[Len(recs)] <= ValEnd - ValSums(recs)[Len(recs)]

(* A sort that keeps the order of what compares equal: `earlier` has the   *)
(* pairs of places <<j, k>> such that j's element comes before k's.        *)
Arranged(s, earlier) ==
    LET rank == [k \in DOMAIN s |-> 1 + Cardinality({j \in DOMAIN s : <<j, k>> \in earlier})]
    IN  [i \in DOMAIN s |-> s[CHOOSE k \in DOMAIN s : rank[k] = i]]

Sorted(recs) ==
    Arranged(recs, {p \in (DOMAIN recs) \X (DOMAIN recs) :
        LET a == recs[p[1]]  b == recs[p[2]] IN Before(a, b) \/ (~ Before(b, a) /\ p[1] < p[2])})

\* The root directory gains six children.
WithChildren(recs) ==
    [i \in DOMAIN recs |->
        IF recs[i].id = RootDir /\ recs[i].type = InodeRec
        THEN [recs[i] EXCEPT !.val.kids = @ + 6] ELSE recs[i]]

BuildTree ==
    /\ pc = "tree"
    /\ LET old == ReadNode(img.tree)
           recs == Sorted(WithChildren(old) \o NewRecords(img.next, blk))
       IN  IF Fits(img.tree.toc, recs)
           THEN /\ img' = [img EXCEPT !.tree = SerializeNode(@.toc, recs),
                                      !.stale = Fixed({"tree"}, {"tree"})]
                /\ pc' = "refs" /\ UNCHANGED <<exit, blk>>
           ELSE Ends("panic")
    /\ UNCHANGED <<disk, runs, faults>>

BuildReferences ==
    /\ pc = "refs"
    /\ LET recs == Sorted(ReadNode(img.refs) \o NewReferences(img.next, blk)) IN
       IF Fits(img.refs.toc, recs)
       THEN /\ img' = [img EXCEPT !.refs = SerializeNode(@.toc, recs),
                                  !.stale = Fixed({"refs"}, {"refs"})]
            /\ pc' = "count" /\ UNCHANGED <<exit, blk>>
       ELSE Ends("panic")
    /\ UNCHANGED <<disk, runs, faults>>

\* Mutated: the stream of the resource fork gets no id of its own.
NextId(next) == Streams(next)

NextAfter(next) == Streams(next) + 1

Count ==
    /\ pc = "count"
    /\ img' = [img EXCEPT !.next = NextAfter(@), !.files = @ + 6, !.dirs = @ + 1, !.links = @ + 1,
                          !.allocCount = @ + Total, !.alloced = @ + Total,
                          !.stale = Fixed({"volume"}, {"volume"})]
    /\ pc' = "write"
    /\ UNCHANGED <<disk, exit, blk, runs, faults>>

\* std::fs::write truncates the file, then fills it.
WriteImage ==
    /\ pc = "write"
    /\ disk' = img /\ Ends("ok")
    /\ UNCHANGED <<runs, faults>>

WriteFails ==
    /\ pc = "write" /\ faults < MaxFaults
    /\ disk' = Torn /\ Ends("panic")
    /\ faults' = faults + 1 /\ UNCHANGED runs

Inject ==
    \/ Load \/ LoadFails \/ AllocBlocks \/ WriteData \/ BuildTree \/ BuildReferences
    \/ Count \/ WriteImage \/ WriteFails

InjectSpec == FixtureInit /\ [][Inject]_fixVars

----------------------------------------------------------------------------
Readable == disk.kind = "container"
Records == ReadNode(disk.tree)
OfType(recs, type) == {recs[i] : i \in {j \in DOMAIN recs : recs[j].type = type}}

BlocksOf(e) == e.val.phys .. e.val.phys + e.val.len \div BlockBytes - 1

(* The chunk's and the device's count of free blocks are the bitmap's, in  *)
(* the injector's copy at every step and in the file (main.rs:543-577).    *)
FreeCountsMatch ==
    /\ img.kind = "container" =>
         img.chunkFree = Cardinality((0 .. Blocks - 1) \ img.used) /\ img.devFree = img.chunkFree
    /\ disk.kind = "container" =>
         disk.chunkFree = Cardinality((0 .. Blocks - 1) \ disk.used) /\ disk.devFree = disk.chunkFree

Accounted(d) ==
    LET extents == OfType(ReadNode(d.tree), FileExtent)
        taken == UNION {BlocksOf(e) : e \in extents}
    IN
    /\ \A e, f \in extents : e # f => BlocksOf(e) \cap BlocksOf(f) = {}
    /\ taken \cap d.system = {} /\ d.used = d.system \cup taken
    /\ d.alloced = Cardinality(taken)
    /\ {<<r.id, r.val.blocks, r.val.owner>> : r \in OfType(ReadNode(d.refs), PhysExt)}
         = {<<e.val.phys, e.val.len \div BlockBytes, e.id>> : e \in extents}

(* No block belongs to two extents or to an extent and the system, no      *)
(* other block is taken, and the reference tree and the volume's count     *)
(* have exactly the files' extents (main.rs:543-577, 830-862).             *)
SpaceAccounted == Readable => Accounted(disk)

(* What the proofs assume of a formatted image: its space is accounted,    *)
(* its records have numbers for keys and lengths, so have the tables of    *)
(* its two nodes, and a fresh one has room in them for the records of one  *)
(* injection, whatever blocks they name.                                   *)
RecFields == {"id", "type", "number", "name", "klen", "vlen", "val"}

Keyed(recs) ==
    /\ recs \in Seq({recs[i] : i \in DOMAIN recs})
    /\ \A i \in DOMAIN recs :
          LET r == recs[i] IN
          /\ r = [f \in RecFields |-> r[f]]
          /\ r.id \in Nat /\ r.type \in Nat /\ r.number \in Nat /\ r.name \in Nat
          /\ r.klen \in Nat /\ r.vlen \in Nat

HasRoom(d) ==
    LET b == <<0, 0, 0, 0, 0, 0>> IN
    /\ Fits(d.tree.toc, Sorted(WithChildren(ReadNode(d.tree)) \o NewRecords(d.next, b)))
    /\ Fits(d.refs.toc, Sorted(ReadNode(d.refs) \o NewReferences(d.next, b)))
    /\ \A i \in DOMAIN ReadNode(d.refs) :
          ReadNode(d.refs)[i].klen = 8 /\ ReadNode(d.refs)[i].vlen = 20

ASSUME AccountedAssumption ==
    \A d \in Formatted : d.kind = "container" =>
        /\ Accounted(d) /\ Keyed(ReadNode(d.tree)) /\ Keyed(ReadNode(d.refs))
        /\ d.tree.toc \in Nat /\ d.refs.toc \in Nat
        /\ d.next \in Nat /\ d.files \in Nat
        /\ d.files = 0 => HasRoom(d)

ASSUME LengthsAssumption ==
    /\ ZattrBytes \in Nat
    /\ \A name \in 1 .. 10 : NameLen[name] \in Nat

ASSUME HashAssumption ==
    /\ 1 .. 10 \subseteq DOMAIN Hash /\ DOMAIN Hash \subseteq Nat \ {0}
    /\ \A name \in DOMAIN Hash : Hash[name] \in Nat

Dtype(mode) == CASE mode = "dir" -> DtDir [] mode = "link" -> DtLnk [] OTHER -> DtReg

WellKept(d) ==
    LET recs == ReadNode(d.tree)
        inodes == OfType(recs, InodeRec)
        drecs == OfType(recs, DirRec)
        mode(m) == {r \in inodes : r.val.mode = m}
    IN
    /\ Ascending(recs) /\ Ascending(ReadNode(d.refs))
    /\ \A e \in drecs : \E r \in inodes :
          r.id = e.val.file /\ r.val.parent = e.id /\ e.val.dtype = Dtype(r.val.mode)
    /\ \A e \in drecs : e.name \in DOMAIN Hash /\ e.number = Hash[e.name]
    /\ \A r \in inodes : Cardinality({e \in drecs : e.val.file = r.id}) = 1
    /\ \A r \in mode("dir") : r.val.kids = Cardinality({e \in drecs : e.id = r.id})
    /\ \A i \in DOMAIN recs : recs[i].id < d.next
    /\ d.files = Cardinality(mode("file")) /\ d.links = Cardinality(mode("link"))
    /\ d.dirs = Cardinality(mode("dir")) - 2
    /\ d.stale = {}

(* The tree is what a checker accepts: keys ascend and are unique, entries *)
(* and inodes belong together, children and objects are counted, the next  *)
(* id is unused and every checksum is current (main.rs:93-95, 601-863).    *)
TreeSound == Readable => WellKept(disk)

(* What the proofs assume of a formatted image's trees: they are what a    *)
(* checker accepts, inodes have all their fields, references are to blocks *)
(* alone, and if the node holds the records of an injection, their names   *)
(* are not there yet, and it does not hold those of a second one, as the   *)
(* nodes of 4096 bytes do not.  Of the volume in a partition, which is     *)
(* only mounted: a sound tree.                                             *)
Regular(d) ==
    /\ d.next > RootDir
    /\ \A r \in OfType(ReadNode(d.tree), InodeRec) :
          r.number = 0 /\ r.name = 0 /\ r.val = [f \in DOMAIN Zeroed |-> r.val[f]]
    /\ \A e \in OfType(ReadNode(d.tree), FileExtent) : e.val.phys \in BlocksOf(e)
    /\ \A i \in DOMAIN ReadNode(d.refs) :
          LET r == ReadNode(d.refs)[i] IN r.type = PhysExt /\ r.number = 0 /\ r.name = 0

Injected(recs, next, b) == Sorted(WithChildren(recs) \o NewRecords(next, b))

HoldsOne(d) ==
    LET b == <<0, 0, 0, 0, 0, 0>>
        recs == Injected(ReadNode(d.tree), d.next, b)
    IN  Fits(d.tree.toc, recs) =>
          /\ \A e \in OfType(ReadNode(d.tree), DirRec) : e.id # RootDir
          /\ ~ Fits(TableLen(d.tree.toc, Len(recs)), Injected(recs, NextAfter(d.next), b))

Sized(d) ==
    \A r \in OfType(ReadNode(d.tree), InodeRec) : r.val.stream \in Nat /\ r.val.uncompressed \in Nat

ASSUME KeptAssumption ==
    \A d \in Formatted :
        /\ d.kind = "container" => WellKept(d) /\ Regular(d) /\ HoldsOne(d) /\ Sized(d)
        /\ d.kind # "container" =>
              /\ DOMAIN d.parts \subseteq Nat
              /\ \A i \in DOMAIN d.parts :
                    LET part == d.parts[i] IN
                    part.apfs /\ part.image.kind = "container" =>
                        WellKept(part.image) /\ Keyed(ReadNode(part.image.tree)) /\ Sized(part.image)

\* The blocks of a stream hold the content, chunk after chunk.
Holds(extents, name, bytes) ==
    \A k \in 0 .. DivCeil(bytes, BlockBytes) - 1 :
        \E i \in DOMAIN extents :
            LET b == extents[i].val.phys + k - extents[i].number \div BlockBytes IN
            /\ b \in BlocksOf(extents[i]) /\ b \in DOMAIN disk.content
            /\ disk.content[b] = <<name, k>>

ReadsBack(recs, path, size) ==
    LET found == LookupPath(recs, disk.fold, path) IN
    /\ found.status = "ok" /\ found.size = size
    /\ Holds(Extents(recs, found.private), path[Len(path)], size)

ForkReadsBack(recs) ==
    LET found == LookupPath(recs, disk.fold, <<PackedRsrc>>)
        fork == Xattr(recs, found.id, RsrcAttr)
    IN  Holds(Extents(recs, fork.stream), PackedRsrc, fork.size)

(* Every injected file reads back block by block, through its inode and    *)
(* extents or, if compressed, through its resource fork, and the link has  *)
(* its target, whatever holes its blocks were taken from (main.rs:636-666, *)
(* 694-802).                                                               *)
FilesReadBack ==
    Readable /\ disk.files > 0 =>
        /\ ReadsBack(Records, <<Hello>>, 28)
        /\ ReadsBack(Records, <<Docs, Readme>>, 1000)
        /\ ReadsBack(Records, <<Docs, BigBin>>, 14336)
        /\ ForkReadsBack(Records)
        /\ ReadLink(Records, LookupPath(Records, disk.fold, <<Link>>)) = [target |-> Hello]

(* The injector only gives up for a reason: the image is not a fresh one,  *)
(* its tree is full, a call failed, or no room for the blocks in a row     *)
(* (main.rs:576, 380).                                                     *)
GivesUpForAReason ==
    exit = "panic" /\ faults = 0 =>
        \/ ~ Discovered(disk)
        \/ disk.files > 0
        \/ \A s \in 0 .. Blocks - Total : s .. s + Total - 1 \cap disk.used # {}
=============================================================================
