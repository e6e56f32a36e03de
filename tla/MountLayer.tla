----------------------------- MODULE MountLayer -----------------------------
(***************************************************************************)
(* The file system that WinFsp calls (crates/apfs-winfsp/src/fs.rs), over  *)
(* an injected image: a program opens a path, lists it page by page, asks  *)
(* for its attributes, tries to change it, closes it.                      *)
(*                                                                         *)
(* The listing lies in a buffer of the open handle: it is filled when an   *)
(* enumeration starts, and later calls take their pages out of it.  A fill *)
(* reads one inode per entry and may fail at any of them.                  *)
(*                                                                         *)
(* External: the buffer and the caller's place in the listing, which the   *)
(* driver keeps.  It passes no marker to the first call and after a rewind,*)
(* and a new one only when a page was delivered.  It sends the directory   *)
(* calls of a handle one after the other and handles share nothing, so one *)
(* handle shows what many do.                                              *)
(***************************************************************************)
EXTENDS Fixture

CONSTANTS
    Paths,       \* the paths programs ask for, as sequences of names
    PageSizes    \* how many entries may fit in a caller's buffer

ASSUME PageSizesAssumption == PageSizes \subseteq Nat

ASSUME PathsAssumption == Paths \subseteq Seq(Nat)

(* What is mounted holds what the injector wrote, or nothing: a formatted  *)
(* volume counts no objects and has a root directory without entries; its  *)
(* only entries are those of the root and of the private directory.        *)
EmptyVolume(d) ==
    LET inodes == OfType(ReadNode(d.tree), InodeRec) IN
    /\ d.files = 0 /\ d.dirs = 0 /\ d.links = 0
    /\ \A e \in OfType(ReadNode(d.tree), DirRec) : e.id = RootParent
    /\ \E r \in inodes : r.id = RootDir
    /\ \A r \in inodes : r.id = RootDir =>
          r.val.mode = "dir" /\ r.val.stream = 0 /\ ~ r.val.compressed

ASSUME EmptyAssumption ==
    \A d \in Formatted :
        /\ d.kind = "container" => EmptyVolume(d)
        /\ d.kind # "container" => \A i \in DOMAIN d.parts :
              d.parts[i].apfs /\ d.parts[i].image.kind = "container" => EmptyVolume(d.parts[i].image)

VARIABLES
    inode,    \* the inode of the open handle, or Closed
    buffer,   \* its directory buffer, or Absent
    marker,   \* the driver's place: the last name delivered, or NoMarker
    given,    \* the entries delivered since the enumeration began
    reply     \* the last answer

mountVars == <<inode, buffer, marker, given, reply>>

Closed == [status |-> "closed"]
Absent == [made |-> FALSE, entries |-> <<>>]
Buffer(entries) == [made |-> TRUE, entries |-> entries]
NoMarker == 0

MountInit ==
    /\ inode = Closed /\ buffer = Absent /\ marker = NoMarker /\ given = <<>>
    /\ reply = [op |-> "none", status |-> "ok"]

(* open_container: the image itself or, if it is none, the first APFS      *)
(* partition of the disk it shows.                                         *)
OpenContainer(d) ==
    LET apfs == {i \in DOMAIN d.parts : d.parts[i].apfs} IN
    IF d.kind = "container" THEN d
    ELSE IF apfs = {} THEN NoImage ELSE d.parts[CHOOSE i \in apfs : \A j \in apfs : i <= j].image

Volume == OpenContainer(disk)
VolumeRecords == ReadNode(Volume.tree)

\* Images are mounted when the injector is done with them.
Mounted == pc = "idle" /\ runs = MaxRuns /\ Volume.kind = "container"

Answer(op, status) == reply' = [op |-> op, status |-> status]
Fault == faults < MaxFaults /\ faults' = faults + 1

\* attributes, fill_file_info
FileInfo(i) == [id |-> i.id, dir |-> i.mode = "dir", size |-> i.size]

Resolve(path) == LookupPath(VolumeRecords, Volume.fold, path)

\* The inode, and a context with a new buffer.
Open(path) ==
    /\ Mounted /\ inode = Closed
    /\ LET found == Resolve(path) IN
       /\ reply' = [op |-> "open", status |-> found.status, path |-> path,
                    info |-> IF found.status = "ok" THEN FileInfo(found) ELSE NoImage]
       /\ inode' = IF found.status = "ok" THEN found ELSE Closed
    /\ UNCHANGED <<buffer, marker, given, faults>>

OpenFails ==
    /\ Mounted /\ inode = Closed /\ Fault
    /\ Answer("openFailed", "IoDeviceError")
    /\ UNCHANGED <<inode, buffer, marker, given>>

\* The handle's end is the buffer's; the driver forgets its place.
Close ==
    /\ inode # Closed
    /\ inode' = Closed /\ buffer' = Absent /\ marker' = NoMarker /\ given' = <<>>
    /\ Answer("close", "ok") /\ UNCHANGED faults

GetFileInfo ==
    /\ inode # Closed
    /\ reply' = [op |-> "info", status |-> "ok", info |-> FileInfo(inode)]
    /\ UNCHANGED <<inode, buffer, marker, given, faults>>

\* create, write, rename, set_delete and the others that would change a file.
Refuse ==
    /\ Mounted
    /\ Answer("change", "MediaWriteProtected")
    /\ UNCHANGED <<inode, buffer, marker, given, faults>>

----------------------------------------------------------------------------
\* The entries of the open directory, with the inodes they name.
Entries ==
    LET recs == VolumeRecords
        s == ReadDirInode(recs, inode.id)
    IN  [i \in DOMAIN s |-> [name |-> s[i].name, info |-> FileInfo(Inode(recs, s[i].file))]]

\* The first k of them; the release of the buffer sorts them.
ByName(entries) ==
    Arranged(entries, {p \in (DOMAIN entries) \X (DOMAIN entries) :
        LET a == entries[p[1]].name  b == entries[p[2]].name IN a < b \/ (a = b /\ p[1] < p[2])})
Filled(k) == ByName(SubSeq(Entries, 1, k))

\* Mutated: the buffer is filled once and never reset.
AcquiredOnce(from) == ~ buffer.made

\* acquire(marker.is_none()): TRUE for a new buffer and for one to be reset.
Acquired(from) == ~ buffer.made \/ from = NoMarker

\* Where the caller's enumeration stands: rewound, or behind the last page.
Place(rewind) == IF rewind THEN NoMarker ELSE marker
Restarted(from) == IF from = NoMarker THEN <<>> ELSE given

ListRefused ==
    /\ inode # Closed /\ inode.mode # "dir"
    /\ Answer("list", "NotADirectory")
    /\ UNCHANGED <<inode, buffer, marker, given, faults>>

(* `?` in the fill: k entries are in the buffer, which is released all the *)
(* same, and the call fails.                                               *)
FillFails(rewind) ==
    /\ inode # Closed /\ inode.mode = "dir" /\ Acquired(Place(rewind)) /\ Fault
    /\ LET n == Len(Entries) IN
       \E k \in 0 .. n : (k > 0 => k < n) /\ buffer' = Buffer(Filled(k))
    /\ marker' = Place(rewind) /\ given' = Restarted(Place(rewind))
    /\ Answer("list", "IoDeviceError") /\ UNCHANGED inode

\* What a sorted buffer holds behind a name.
Behind(entries, name) ==
    SubSeq(entries, 1 + Cardinality({i \in DOMAIN entries : entries[i].name <= name}), Len(entries))

\* The entries behind the marker, as many as fit.
ReadDirectory(rewind) ==
    /\ inode # Closed /\ inode.mode = "dir"
    /\ LET from == Place(rewind)
           now == IF Acquired(from) THEN Filled(Len(Entries)) ELSE buffer.entries
           rest == Behind(now, from)
       IN  \E size \in PageSizes :
             LET page == SubSeq(rest, 1, IF size < Len(rest) THEN size ELSE Len(rest)) IN
             /\ buffer' = Buffer(now)
             /\ given' = Restarted(from) \o page
             /\ marker' = IF page = <<>> THEN from ELSE page[Len(page)].name
             /\ reply' = [op |-> "list", status |-> "ok", end |-> page = rest]
    /\ UNCHANGED <<inode, faults>>

MountStep ==
    \/ \E path \in Paths : Open(path)
    \/ OpenFails \/ Close \/ GetFileInfo \/ Refuse \/ ListRefused
    \/ \E rewind \in BOOLEAN : FillFails(rewind) \/ ReadDirectory(rewind)

----------------------------------------------------------------------------
(* The tree the injector promises, with the sizes Explorer shows.          *)
Promise(path, dir, size) == [path |-> path, dir |-> dir, size |-> size]

Promised ==
    {Promise(<<>>, TRUE, 0)} \cup
    IF Volume.files = 0 THEN {} ELSE
    {Promise(<<Hello>>, FALSE, 28), Promise(<<Docs>>, TRUE, 0),
     Promise(<<Docs, Readme>>, FALSE, 1000), Promise(<<Docs, BigBin>>, FALSE, 14336),
     Promise(<<PlainTxt>>, FALSE, 39), Promise(<<PackedTxt>>, FALSE, 3000),
     Promise(<<PackedRsrc>>, FALSE, 100000), Promise(<<Link>>, FALSE, 0)}

Spelled(name) == IF Volume.fold THEN name % Upper ELSE name
SamePath(a, b) == Len(a) = Len(b) /\ \A i \in DOMAIN a : a[i] = Spelled(b[i])

(* A path opens exactly if the injector wrote something there, spelled as  *)
(* the volume allows, and shows its kind and size (fs.rs:90-97 and         *)
(* 141-154, lookup_child and lookup_path, the records of the injector).    *)
OpensWhatWasWritten ==
    reply.op = "open" =>
        LET want == {p \in Promised : SamePath(p.path, reply.path)} IN
        IF want = {} THEN reply.status = "NotFound"
        ELSE /\ reply.status = "ok"
             /\ \E p \in want : reply.info.dir = p.dir /\ reply.info.size = p.size

(* No page comes out of a buffer that a failed fill left half full, also   *)
(* when the caller goes on or rewinds after the failure (fs.rs:200-218).   *)
PageFromWholeFill ==
    reply.op = "list" /\ reply.status = "ok" => buffer.entries = Filled(Len(Entries))

(* An enumeration that reaches its end has delivered every entry of the    *)
(* directory once, in the order of names, with the attributes of the inode *)
(* it names, whatever fills failed before and however it was rewound       *)
(* (fs.rs:190-219).                                                        *)
ListingComplete ==
    reply.op = "list" /\ reply.status = "ok" /\ reply.end =>
        LET entries == Entries IN
        /\ Len(given) = Len(entries)
        /\ \A i, j \in DOMAIN given : i < j => given[i].name < given[j].name
        /\ {entries[k] : k \in DOMAIN entries} = {given[i] : i \in DOMAIN given}
=============================================================================
