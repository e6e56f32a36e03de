----------------------------- MODULE FsRecords -----------------------------
(***************************************************************************)
(* The records of a volume's file-system tree and the readers of           *)
(* crates/apfs-core/src/fs.rs: inode, read_dir_inode, lookup_child,        *)
(* lookup_path, read_dir, extents, xattr, readlink.  They are functions of *)
(* the records; the tree search under them is RangeScan's.                 *)
(*                                                                         *)
(* A record is its key (id, type, number, name), the lengths of key and    *)
(* value, and the value.  A name is a number: names are numbered in the    *)
(* order of their bytes, and name + Upper is the same name in capitals.    *)
(***************************************************************************)
EXTENDS Integers, Sequences, FiniteSets

CONSTANT BlockBytes   \* bytes of a block, and of a node

ASSUME BlockBytesAssumption == BlockBytes \in Nat \ {0}

\* Record types, well-known inode numbers and entry types (types.rs).
PhysExt == 2
InodeRec == 3
XattrRec == 4
DstreamId == 6
FileExtent == 8
DirRec == 9
RootParent == 1
RootDir == 2
PrivDir == 3
DtDir == 4
DtReg == 8
DtLnk == 10

RsrcAttr == 1       \* com.apple.ResourceFork
DecmpfsAttr == 2    \* com.apple.decmpfs
SymlinkAttr == 3    \* com.apple.fs.symlink

Upper == 1000

(* split_jkey and the order of keys: object, type, then what the type has. *)
PrefixBefore(r, id, type) == r.id < id \/ (r.id = id /\ r.type < type)

Before(a, b) ==
    \/ PrefixBefore(a, b.id, b.type)
    \/ /\ a.id = b.id /\ a.type = b.type
       /\ a.number < b.number \/ (a.number = b.number /\ a.name < b.name)

Ascending(recs) == \A i, j \in DOMAIN recs : i < j => Before(recs[i], recs[j])

----------------------------------------------------------------------------
(* A root node: `nkeys` records, `toc` bytes of table, the entries in it,  *)
(* where the keys and values of the records were put in the block, and     *)
(* `vals`, where the values begin.  Node::key counts from the end of the   *)
(* table, Node::value back from the info at the end of the block.  An      *)
(* entry behind the table would lie over the keys, and a key that reaches  *)
(* beyond `vals` under the values: neither is read as it was meant.        *)
KeyArea(toc) == 56 + toc
ValEnd == BlockBytes - 40

Garbled == [id |-> 0, type |-> 0, number |-> 0, name |-> 0, klen |-> 0, vlen |-> 0,
            val |-> [bytes |-> "any"]]

\* The record that the i-th entry of the table leads to.
RecordAt(n, i) ==
    LET e == n.entries[i] IN
    IF /\ i * 8 <= n.toc /\ n.keyAt[i] + e.kl <= n.vals
       /\ n.keyAt[i] = KeyArea(n.toc) + e.ko /\ n.recs[i].klen = e.kl
       /\ n.valAt[i] = ValEnd - e.vo /\ n.recs[i].vlen = e.vl
    THEN n.recs[i] ELSE Garbled

ReadNode(n) == SubSeq([i \in DOMAIN n.entries |-> RecordAt(n, i)], 1, n.nkeys)

----------------------------------------------------------------------------
First(positions) == CHOOSE p \in positions : \A q \in positions : p <= q

\* scan_from with a callback that stops behind the records of (id, type).
Scan(recs, id, type) ==
    LET end == Len(recs) + 1
        lo == First({p \in 1 .. end : p < end => ~ PrefixBefore(recs[p], id, type)})
        hi == First({p \in lo .. end : p < end => recs[p].id # id \/ recs[p].type # type})
    IN  SubSeq(recs, lo, hi - 1)

NotFound == [status |-> "NotFound"]
Failed(s) == [status |-> s]

\* Mutated: the size is the data stream's, compressed or not.
ParseInodeStream(r) ==
    [status |-> "ok", id |-> r.id, parent |-> r.val.parent, private |-> r.val.private,
     mode |-> r.val.mode, kids |-> r.val.kids, compressed |-> r.val.compressed,
     size |-> r.val.stream]

(* Inode::parse: the size is the data stream's; a compressed file has none *)
(* and gives its uncompressed size, if the flag says that it is there.     *)
ParseInode(r) ==
    [status |-> "ok", id |-> r.id, parent |-> r.val.parent, private |-> r.val.private,
     mode |-> r.val.mode, kids |-> r.val.kids, compressed |-> r.val.compressed,
     size |-> IF r.val.compressed /\ r.val.stream = 0 /\ r.val.hasSize
              THEN r.val.uncompressed ELSE r.val.stream]

Inode(recs, id) ==
    LET s == Scan(recs, id, InodeRec) IN IF s = <<>> THEN NotFound ELSE ParseInode(s[1])

ReadDirInode(recs, dir) ==
    LET s == Scan(recs, dir, DirRec) IN
    [i \in DOMAIN s |-> [name |-> s[i].name, file |-> s[i].val.file, dtype |-> s[i].val.dtype]]

SameName(fold, a, b) == IF fold THEN a % Upper = b % Upper ELSE a = b

\* The first entry of that name; 0 is no object.
LookupChild(recs, fold, dir, name) ==
    LET s == ReadDirInode(recs, dir)
        hits == {i \in DOMAIN s : SameName(fold, s[i].name, name)}
    IN  IF hits = {} THEN 0 ELSE s[First(hits)].file

LookupPath(recs, fold, path) ==
    LET at[i \in 0 .. Len(path)] ==
          IF i = 0 THEN RootDir
          ELSE IF at[i - 1] = 0 THEN 0 ELSE LookupChild(recs, fold, at[i - 1], path[i])
    IN  IF at[Len(path)] = 0 THEN NotFound ELSE Inode(recs, at[Len(path)])

ReadDir(recs, fold, path) ==
    LET inode == LookupPath(recs, fold, path) IN
    IF inode.status # "ok" THEN inode
    ELSE IF inode.mode # "dir" THEN Failed("NotADirectory")
    ELSE [status |-> "ok", entries |-> ReadDirInode(recs, inode.id)]

Extents(recs, stream) == Scan(recs, stream, FileExtent)

\* The value of the first attribute of that name.
Xattr(recs, id, name) ==
    LET s == Scan(recs, id, XattrRec)
        hits == {i \in DOMAIN s : s[i].name = name}
    IN  IF hits = {} THEN NotFound ELSE s[First(hits)].val

ReadLink(recs, inode) ==
    IF inode.mode # "link" THEN Failed("Parse") ELSE Xattr(recs, inode.id, SymlinkAttr)
=============================================================================
