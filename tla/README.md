# APFS for Windows: a TLA+ model

The repository reads APFS disks on Windows: `apfs-core` parses a container,
`apfs-winfsp` shows its volumes as drive letters through WinFsp, and
`apfs-mount --watch` mounts disks as they are plugged in. This directory holds a
model of it, the configurations TLC checks, and proofs TLAPS checks.

Paths below are relative to `crates/`; line numbers are those of the sources.

## 1. The system and its parts

| part | state it keeps | operations |
|---|---|---|
| watcher, `apfs-winfsp/src/main.rs` | the map `mounted` (disk number -> hosts), the local variables of `watch_loop` | poll: probe mounted disks, drop hosts of lost ones, mount the volumes of new ones |
| mount layer, `apfs-winfsp/src/fs.rs` | an open container; per handle its inode and a directory buffer | open, close, read, read_directory, get info; every mutating call is refused |
| updater, `apfs-winfsp/src/updater.rs` | two files on disk, the version compiled into the process | run_update, from a background thread and from the command line |
| container, `apfs-core/src/container.rs` | the chosen superblock | open, volume, free_block_count |
| object map and B-trees, `omap.rs`, `btree.rs` | none between calls | lookup, load_virtual, scan_from, walk_leaves |
| volume and records, `volume.rs`, `fs.rs` | superblock, root of the volume's object map | inode, read_dir, extents, xattr, read_file_at |
| compressed files, `decmpfs.rs` | none between calls | read_at |
| devices, `device.rs` | the mutex and the alignment guess | read_at |
| `gpt.rs`, `checksum.rs`, `obj.rs`, `raw.rs`, `hash.rs`, `types.rs` | none | pure functions of bytes |
| fixture injector, `apfs-fixture/src/main.rs` | the whole image in memory until the last step | load, allocate, write data, rebuild two trees, count, write back |
| command line, `apfs-cli/src/main.rs` | the output so far, the recursion of `tree` | `info`, `ls`, `cat`, `tree`, `dump-fstree` |
| WinFsp loader, installers, CI, `tools/` | none at run time | load a DLL, install files, release |

How they interact. The watcher is one thread. For every partition of every new
disk it opens a `FileDevice` of its own by path, and a container over it; a host
shares the container with WinFsp's thread pool. Requests of one volume run
concurrently and meet only in the device: everything else is read again for each
request. The updater runs in a thread beside the watcher and, as another process,
from the command line; both replace the same two files. Other actors are the
system that wrote the disk, the user who plugs and pulls, and programs that take
drive letters. The injector writes test files into an image that nothing else has
mounted; the mount layer and the command line then read what it wrote, through
`apfs-core`.

What is hard, and where: disks that vanish or are exchanged between two steps of
the watcher; letters lost to other programs; one call of several failing (mount
then start, the first binary then the second); disks pulled while a checkpoint was
written; nodes that form circles or are not in order; ranges of equal prefixes
that start in the middle of a leaf; sector alignment, discovered while several
threads read; the edges of extents, compressed blocks and files; a directory buffer that
outlives the call that filled it; counts that three objects have to agree on. The list with
lines is under `hazards` in `PROJECT.json`, with the properties that cover each.

What makes each part correct:

- watcher: letters and hosts stay in step; a disk that is in is served, a disk
  that is out is released; no volume has two letters;
- updater: each file keeps its own program, and users end on the newest release;
- container: it opens at the last complete checkpoint, whatever was torn;
- object map: a hit is the newest version, a miss an absence, and lookups return;
- scans: the wanted records, all of them, once and in order;
- devices and files: exactly the bytes asked for, or an error with a reason;
- injector: the counts follow the bitmap, no data in use is overwritten, the trees
  are what the readers search, and every file reads back;
- mount layer: a path opens if something was written there and with its size; a
  listing that ends has shown every entry once, by name, out of a buffer that was
  filled whole;
- command line: `tree` prints every entry under its directory, `ls` what the mounted
  directory shows, `info` the counts of both.

## 2. Modules

| module | models | checked by |
|---|---|---|
| `Watcher` | `main.rs` 87-153, 225-336; `ApfsFilesystem::new`, `Volume::open` and `gpt.rs` as calls that succeed or fail | `MCWatcher` |
| `DriveLetters` | nothing of the code: what a user is promised | implemented by `Watcher` |
| `Updater` | `updater.rs` 34-105 | `MCUpdater` |
| `Checkpoint` | `container.rs` 123-170, 209-236, `checksum.rs`, `obj.rs` | `MCCheckpoint` |
| `OmapLookup` | `omap.rs`, `btree.rs` 39-284 | `MCOmapLookup` |
| `RangeScan` | `btree.rs` 288-407, the callbacks of `fs.rs` 163-288 | `MCRangeScan` |
| `OrderedScan` | nothing of the code: what a scan promises | implemented by `RangeScan` |
| `FileDevice` | `device.rs` | through `Decmpfs` |
| `FileRead` | `fs.rs` 264-330 and `read` of the mount layer; extends `FileDevice` | through `Decmpfs` |
| `Decmpfs` | `decmpfs.rs`; extends `FileRead`, so that it is the whole read path | `MCReadPath` |
| `FsRecords` | `fs.rs` 17-262: the readers of records (inode, directory, path, extents, attribute, link) as functions of a node; the layout of a node | through `Cli` |
| `Fixture` | `apfs-fixture/src/main.rs`; extends `FsRecords` | through `Cli` |
| `MountLayer` | `apfs-winfsp/src/fs.rs` without `read`, `open_container` of `main.rs`; extends `Fixture` | through `Cli` |
| `Cli` | `apfs-cli/src/main.rs`; extends `MountLayer`, so that it is image, mount and tools together | `MCFixtureMount` |
| `WatcherProofs`, `UpdaterProofs`, `CheckpointProofs`, `OmapProofs`, `RangeScanProofs`, `ReadPathProofs`, `InjectorProofs`, `ImageProofs` | proofs | TLAPS |

Definitions have the names of the code where they can. A definition marked
*Mutated* is a bug the code could have had; it is used by no specification, and
`PROJECT.json` says which property excludes it.

**Watcher.** `pc` is the position in `watch_loop`, one action per call that can
fail or be overtaken. A host has one owner at a time (the map entry, the vector
being built, the vector being dropped, or the local variable between `mount` and
`start`), so `hosts` maps owners to hosts and Rust's drops are the removal of a host
from its owner. Disks are named by arrival: a disk pulled and plugged in again is
two arrivals, because handles to the first stay dead. `Fault` lets any call fail
for a reason of its own, `MaxFaults` times. Two variables only remember, for the
properties, and no guard reads them: `misread`, the numbers found gone whose own probe
failed for such a reason, and `exchanged`, the arrivals that got a number of which the
loop still had the hosts or the container of an earlier disk. Partitions are identified by their
index in the table, so two disks whose tables differ in bounds but not in length
look alike to a container opened on the exchanged disk. `POLL_INTERVAL` is a step
like any other.

**Updater.** A version is a number; a file contains a program and a version; a
process runs the version its file had when it started. CI refuses a tag that
differs from the crate version, so the version downloaded is the version compiled
in. `self_update` is external: it installs when the release is newer than
`current_version`, or fails.

**Checkpoint.** The writer is external: it writes the data ring, a checkpoint map,
the superblock, and at a clean unmount block zero, and may stop at any point with
the block it was writing torn. The reader follows `Container::open` block by block.
The two alternate: the disk is in one machine at a time. A block is its type, its
transaction and whether its checksum matches.

**OmapLookup, RangeScan.** A tree is a constant: a set of blocks with nodes, not
necessarily well formed. Keys are pairs of numbers with the code's order. Binary
searches, descent and recursion are steps, with the recursion of `scan_rec` as a
stack of frames; `OutOfBlock`, `ChildUnreadable` and `RecordFails` are the parse errors,
which can happen at any record. `walk_leaves` is `RangeScan` with `walk` true. The
callbacks are one definition: take while the prefix matches, stop at an accepted
record or at the first other prefix. A scanned tree also carries what its writer
meant, which no step reads: its records in key order, and for each node the span of
them that lies below it. `WellFormed` says that nodes and spans agree, level by level.

**FileDevice, FileRead, Decmpfs.** A byte of the disk is named by its address, so
reading is right if the right addresses come back; 0 is a zero byte. The device
keeps the mutex, the guess and one read per thread; the system delivers any number
of bytes it may, and refuses (error 87) what is not on sector boundaries. Whether the
guess starts at all depends on the path alone, so a regular file opened by a path that
begins with `\\?\` is read in sectors, too; its length is then taken to be whole small
sectors, as that of an image of 4096-byte blocks is. `errors` counts what the system
fails although it need not, on any thread: a read, the opening of the volume that
starts each request (`VolumeFails`), the scan of the extents, or an attribute
(`XattrFails`). A compressed file is the number of bytes each block decompresses to; its byte at
position p is p + 1. The attribute and the fork are read by scans that `RangeScan`
models; here they fail or not. Bytes a block decompresses to are those `zlib_block`
returns, so a block above its limit (`MAX_INFLATE` at most) is `Broken` like one that does
not inflate. `done`, `failed` and `panic` are the ways a request
ends.

**FsRecords, Fixture, MountLayer, Cli.** The image is what injector and readers see of
its blocks: the bitmap and the two free counts, two trees of one node each, the
counts of the volume, `content` (which block holds which part of which file) and
`stale`, the objects whose checksum is out of date. A record has its key, the lengths
of key and value, and its value's fields; names are numbered in the order of their
bytes, a name plus `Upper` is the same name in capitals, and its hash and length are
those of the committed test image. `SerializeNode` gives every record the place
`serialize_node` gives it, and `ReadNode` reads a node through those places: it finds a
record only where the place has that record's key and value whole, behind the table and
in front of the values, so that a node filled beyond `Fits` does not read back. `Load` ends
with a panic where discovery asserts; each allocation is a step; the write can leave
the file `Torn`, of which nothing is known but that it is no container.

The injector is run `MaxRuns` times before anything mounts the image: its own comment
(`apfs-fixture/src/main.rs` 8-9) says that it is sound only for an image nothing else
has mounted. A mount and a tool both only read and share nothing, so a behaviour has
one of them. Handles share nothing either, and the driver sends the directory calls
of a handle one after the other: one handle shows what many do. External are the
driver's marker (none at first and after a rewind, else the last name delivered) and
the buffer of the `winfsp` crate (reset on request, sorted by name on release, released
also where the fill returned early).

## 3. Runs

| run | expected | instance | what it shows |
|---|---|---|---|
| `WatcherHostile` | pass | two disks (three volumes and an encrypted one) that share a number, two numbers, four letters of which one is taken at the start, one fault, one foreign move | letters and hosts in step, keys own hosts, drops only for a reason of the disk's own, release, service of every disk that did not take another's place, complete service without faults, implementation of `DriveLetters` |
| `WatcherSwap` | violation | no faults at all | after an exchange the letters of the disk before stay, and the new disk gets none |
| `WatcherPartial` | violation | one disk, one fault | a volume that failed once is never mounted |
| `UpdaterPair` | pass | two processes, three releases, one failure or kill | programs in their files, convergence |
| `UpdaterPartial` | violation | one process, two releases | "already current" with an old `apfs.exe` |
| `CheckpointCrash` | pass | rings of 5 and 3 blocks, 5 transactions, 2 failing reads | opening after every crash |
| `CheckpointFree` | violation | 3 transactions, no failing read | the free count of another checkpoint |
| `OmapLookup` | pass | all trees of the shapes in `MCOmapLookup` over five keys, all wanted keys; all graphs of two broken nodes | hits, misses, bounds, termination |
| `RangeScan` | pass | all trees of the shapes in `MCRangeScan`, prefixes 1..3; circular and too deep ones | delivery, termination |
| `ReadPath` | pass | two threads, four devices (a file by its plain path and by a raw one, sectors of 2 and of 4 bytes), five plain files, damaged and sound compressed files, one failing call | exact bytes, service, termination |
| `DecmpfsPanic` | violation | the same | the panic on damaged data |
| `FixtureMount` | pass | images of 24 blocks with holes of every kind, on a volume that folds case, one that does not, one without hashed names, one without a space manager, and in a partition; two injector runs, two failing calls, twelve paths, four page sizes | counts and bitmap, accounting of blocks, sound trees, files read back, no panic without a reason; opening, whole pages, complete listings; output of the tools |

Why the bounds are enough. Watcher: two disks at one number give every order of
exchange, two numbers let a disk be healthy while another goes; three volumes on two
partitions with a refused one reach every loop exit, four letters with one taken
let letters run out and come back; the faults are single because the loop treats each call
alone. Checkpoint: five descriptor blocks hold two checkpoints and wrap in the middle
of one, so every position of the ring is torn in some run. Trees of three levels
with a depth limit of 2 reach the limit and pass it; nodes of up to three keys
give the search its three cases. Read path: blocks of two sectors, a partition that
starts off the large sector size on a disk that ends off it, and a last block
that ends with the disk. Image: 24 blocks hold one injection (ten blocks in six runs)
around holes that split it anywhere, or leave too little in all or in a row; a second
injection always finds the tree full or no room, which is the way the assertions are
reached. Pages of 1, 2 and 3 entries cut a directory of seven at every place, and two
faults let a fill fail, the caller go on, and fail again.

`CHECK_DEADLOCK FALSE` stands in `OmapLookup`, `RangeScan`, `ReadPath`, `DecmpfsPanic` and
`FixtureMount`, where a lookup, a scan, the requests or the programs end. The watcher, the updater
and the disk never stop.

Fairness. The watcher's thread keeps running (weak fairness of the loop as a whole);
nothing is assumed of disks, letters or failures. `EmptySlotReleased` and
`StableDiskServed` then speak of disks and letters that settle. `StableDiskServed` asks for a
host of the very disk that stays, and leaves out the disks that took another's
place: those are not mounted while they stay in, as the behaviour of `WatcherSwap` shows. In the updater the
checker comes back (weak fairness of `Begin` and of the run), and users log on again
from time to time (strong fairness of `Restart`: the check may be in progress whenever
they could). Lookups, scans and requests run until they return: weak fairness per
thread; the mutex needs no more because every holder makes finitely many reads.
`FixtureMount` assumes no fairness: the injector and the tools are straight-line programs
that may be killed, and programs list as long as they like.

The five violations are disagreements between a sentence of the sources and what the
code does; `findings` quotes them.

- Exchanged disk: `disk_present` asks the number, not the disk, so the letters of the
  old disk stay; and since a number in the map is skipped whatever disk it has by now, the
  new one gets none as long as it stays in.
- Partial mount: a disk with one host is skipped from then on.
- Partial update: versions are compared with the running program for both files.
- Free count: the first space manager in the ring is not that of the open checkpoint.
- Damaged compressed file: `data[off..off + take]` with `off` behind the data.

Documents that differ from the code in what they list, where the model follows the code:
`decmpfs.rs` 10 names type 1 as the uncompressed inline one, the code takes 9 for it and
refuses 1; `docs/ARCHITECTURE.md` 113-114 and the non-goals of the repository's `README.md`
count all compressed files among those refused, which the code, its tests and the roadmap
do not.

## 4. Proofs

TLAPS proves, for every value of the constants that satisfies the assumptions named
in the modules:

- `WatcherProofs`: type correctness, `LetterAccounting`, `KeysOwnHosts`,
  `DroppedOnlyWhenGone`, and that the watcher implements `DriveLetters`. None of these is
  inductive: while a disk is being mounted its hosts have no key yet, and a letter is
  ours between `mount` and `start`. `IInv` adds what the loop's position says of the
  owners that are empty, of the disk number being mounted (never a key), and of the
  letter chosen. `DiskInv` adds that a host of a number reads a disk that is at that
  number or out, that a disk once out does not come back, and that a number found gone is
  either in `misread` or has hosts of disks that are out. Only `Remove` takes running hosts
  away (`OnlyRemoveDrops`), so a drop is of a number whose own probe failed or of a disk
  that is out. `VolumesInv` adds that the volume about to be
  mounted has no host yet, because its disk is under no key and the hosts being built are
  of earlier volumes. With it `Mount` is a step `Show`, a drop or a failed start is
  `Hide`, a foreign program's move is `Take` or `Release`, and every other step stutters.
- `UpdaterProofs`: type correctness and `EachBinaryInItsFile`, for any releases. The
  invariant adds that a process that installs is at one of the two binaries of the loop.
- `CheckpointProofs`: type correctness, `OpensLastCommit`, `OpensNewestReadable`,
  `FailsOnlyUnreadable`, `SpacemanFound`, for rings of any size from three and two
  blocks. The invariant says that the last commit's superblock is whole at `cpos`,
  that no valid block is newer, that a torn block is never at `cpos`, and what the
  scan has seen up to block `i`.
- `OmapProofs`: type correctness, `SearchInBounds` in any tree, and in well-formed
  trees of any size and depth `HitIsNewestVersion` and `MissIsAbsent`. The invariant
  says that the newest version, if there is one, lies below the current node and
  between the bounds of the search; a lemma per case of `ChildIndex` shows that
  the child chosen keeps it.
- `ReadPathProofs`: of the device on its own, `DeviceSpec`, which any thread may ask
  for any bytes: type correctness, `ReadsExactly`, `GuessSettles` and `InRangeServed`, for
  every pair of sector sizes that divide. The invariant says that the reader in progress
  is the one that holds the mutex, that it uses the current guess, that the guess fits
  the device, that a raw device has delivered whole sectors, so that a read is refused
  with the small guess only where the sectors are large, and that a window widened to
  sectors ends on the disk.
  Of the whole read path on any number of threads: type correctness,
  `ReadsFile`, `FileServed`, `ReadsCompressed`, `CompressedServed`, and `ReadsExactly` under
  them. A plain read keeps a buffer that is the file up to the extents already copied
  and zeros behind them; extents that do not overlap make each step right. A compressed read
  keeps what was gathered equal to the file up to the current position, and the place
  of the chunk in progress equal to the block it was cut from.
- `RangeScanProofs`: type correctness in any tree, circular ones included, and in
  well-formed trees of any size and depth `DeliversWanted`: the scan implements
  `OrderedScan`. The argument gives every position of the scan a number of records: `At`
  is how many lie before the next one the stack leads to. `ScanInv` says that the frames
  are a path of the tree whose spans nest, that the bounds of the search enclose the
  first key that is not below the prefix, that a frame to the left of the
  innermost one has nothing wanted left, and `Progress`: what was delivered is what is
  wanted of the first `At` records. Each step moves `At` over records that are not
  wanted, or over the one delivered.
- `InjectorProofs`: of the injector alone, on images of any size. First `FreeCountsMatch`;
  that it allocates only blocks that were free when it opened the image
  (`AllocationsFree`); and that records which fit are laid out by `SerializeNode` with
  table, keys and values apart from one another, and read back by `ReadNode`
  (`NodeRoundTrip`: its hypothesis `Fits` is the assertion of `serialize_node`, and every
  tree the injector builds has passed it). `SumsGrow` puts the keys one behind the other
  and the values one before the other, and `Fits` keeps the two apart.
  The invariant relates the injector's copy to the file it was loaded from. Then
  `SpaceAccounted` after any number of runs: `SpaceInv` says, for each place in the run,
  which parts of the copy are still the file's and what the rebuilt ones hold, namely the
  old extents and the six new ones. `ArrangedFacts` says what a stable sort returns (a
  permutation, in order), so that nothing is lost in a rebuilt tree
  (`SortedPermutes`), and the blocks taken are counted through the bitmap's free
  count. Last `TreeSound`, of images of any content after any number of runs. `TreeInv`
  says that the file's trees are kept (`Kept`) and what the copy's trees are at each
  place of a run: the file's, or the records of one injection sorted among them. What
  `Kept` adds to `TreeSound` is needed by the next run: the fields of inodes, references
  that name blocks, and that the node has no room for a second injection, which would
  write the same names again. The new keys differ among themselves because each record
  has a number of its own (`Code`, `NewRecordsPart`), from the old ones because their ids
  are not used yet, and in the root because it is empty. `Paired` is what a checker asks
  of inodes and entries; `PairedGrows` shows that the root with six children more, the
  eight new inodes and their eight entries keep it, and `ModesGrow` that six files, a
  directory and a link are counted.
- `ImageProofs`: of injector, mount layer and tools together. `OnlyInjectorWrites` carries
  over what is proved of the injector alone. Then:
  - `PageFromWholeFill` for any order of calls. While the driver holds a marker, the buffer
    is the whole directory; a buffer that a failed fill left half full goes with no marker,
    and the next call resets it.
  - `GivesUpForAReason`: as long as no call has failed (`Undisturbed`), every image is a
    formatted or an injected one, and the first run found leaves, before or behind it,
    enough of any run that all remaining blocks fit in (`RoomLeft`). The rebuilt nodes
    fit because the records have the same keys and lengths whatever blocks they name
    (`NewRecordsAlike`).
  - `ListingComplete`: `ListInv` says that what was given is the start of the sorted
    directory up to the marker, and `BehindMarker` that as many names of it are not above
    the marker as have been given. That takes names that differ, which is where the
    tree comes in: two records of one directory with one name would have one key
    (`DirectoryNamed`), and the mounted volume is sound (`VolumeInv` says where it comes
    from).
  - `TypeOK` with mount and tools (`TypeInv`): every inode that an entry names is found
    (`FilesFound`), so that what is reported of it is a number.
  - `OpensWhatWasWritten`, for paths of any length: `ChildFound` says what a search of a
    directory for a name returns, `LaidInv` that the volume has either an empty root or
    just the eight objects of one injection, each in its place (`LaidAt`). A path of one
    or two names then leads where the tables of the injector say, one of three or more
    nowhere, because nothing lies deeper (`ShallowPath`, `LaidPath`). `OpenInv` says that
    an answer is what the path leads to.
  - `NothingOverwritten`: an image that is written back has, in every block that the
    image had in use before, the data that was there. `UntouchedInv` says so of the copy in
    memory; `ContentMoves` lists which steps change data at all, and the step that does
    writes the six runs, which `AllocationsFree` says were free. Nodes, counts and bitmap
    are no data in this sense: the injector rewrites them in place, and `TreeSound`,
    `SpaceAccounted` and `FreeCountsMatch` speak of them.
  - `FilesReadBack`, in the injector and in everything that may be mounted: no two of the
    six runs of blocks share a block, so that no `write_data` spoils what an earlier one
    wrote (`ContentWritten`, `ContentInv`), and a range scan finds every extent and
    attribute record of an object (`ScanAll`, `XattrFound`). `HoldingInv` says that a volume
    with files holds the tree's eight objects, their extents and attributes, and the six
    contents in the blocks these name; the inode a path leads to then names the stream
    whose extents have every chunk (`StreamHolds`).
  - `ToolsPrintAll`: `FurnishedInv` says that a volume has no entries, or those of one
    injection and no others, and counts them. So there is at most one folder
    (`OneFolder`), and what `tree` has to print is a sequence known before it starts: the
    root's entries up to the folder, the folder's, and the rest of the root's
    (`TreeLines`). `ToolInv` says that what was printed is the start of what has to be
    printed, and that the stack holds just the rest. In the end every line comes from
    one of the eight objects and every object has a line (`SourceFacts`), so there are as
    many lines as entries (`LinesCounted`), and the last line above it that is one level
    higher is that of the directory that holds it (`HolderFound`).

`SpacemanFound`, `GuessSettles` and `InRangeServed` are not checked by a run of their own:
they are proved for every instance, and what a reader of files would see of the last
two is in `FileServed` and `ReadsExactly`.

The assumptions are those of the modules: types of the constants, ring sizes, extents
that do not overlap, blocks of a compressed file within its chunk size, images that
are sound when they are formatted (`FormattedAssumption`: counts; `AccountedAssumption`:
space accounted, keys, lengths and the tables' sizes that are numbers, and room for one injection in the nodes of an
image without files; `KeptAssumption`: sound trees, room for no second injection, which
nodes of 4096 bytes do not have, an empty root under the first, and stream ids and
sizes that are numbers; `EmptyAssumption`: a formatted volume has a root directory, no entries
but those of the root and of the private directory, and counts no objects), paths of numbers (`PathsAssumption`), blocks of 4096 bytes
(`BlockSizeAssumption`, the fixture's `const BS`), lengths of names and attributes that are
numbers (`LengthsAssumption`), names and hashes that are numbers; nothing about a disk's contents except
`WellFormed` where a property names it. Each theorem goes Init, Next, consequence; the
Next step has a case per action.

Only model-checked is what is temporal (`EmptySlotReleased`, `StableDiskServed`,
`FaultlessArrivalMounted`, `EventuallyRunsLatest`, `LookupReturns`, `ScanReturns`,
`RequestsReturn`): liveness is beyond the prover. Every invariant that a run checks is a
theorem.

## 5. Not modelled

- Bytes: parsing of headers, records, names, times; the Fletcher sum; inflate and the
  injector's deflate. They appear as "parses or not", "matches or not", "decompresses
  to n bytes", and as lengths.
- Arithmetic overflow of 64-bit disk addresses: sizes in the model are those of
  real disks.
- `get_volume_info`, which answers constants, and `get_security_by_name`, which resolves a
  path as `open` does.
- Argument parsing and the layout of the tools' output.
- Images of several chunks or several checkpoints under the injector, and directories
  that contain themselves under `tree`: the injector is for fresh images of one chunk, and
  the trees it writes have no circles. `hazards` lists the three with their lines.
- The DLL loader, installers and CI, which have no state of this program.
- `uncompressed_size` (`decmpfs.rs` 80-85), which no code calls.

## 6. Plan

Done: watcher, updater, checkpoint, lookup, scan, read path, then the injector,
the mount layer and the tools, in that order of importance to a user; proofs of all
of them.

Left: images of several chunks.
