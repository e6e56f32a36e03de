------------------------------ MODULE Decmpfs ------------------------------
(***************************************************************************)
(* Reading a compressed file (crates/apfs-core/src/decmpfs.rs, read_at):   *)
(* the content lies in the decmpfs attribute, or in blocks of BlockLen     *)
(* uncompressed bytes in the resource fork, which are decompressed one     *)
(* after the other; copy_window copies the wanted part of each.            *)
(*                                                                         *)
(* Together with FileRead this is all of Volume::read_file_at: its         *)
(* requests are for plain files, directories and compressed files.         *)
(***************************************************************************)
EXTENDS FileRead

CONSTANT BlockLen   \* uncompressed bytes of a resource-fork block (64 KiB)

ASSUME BlockLenAssumption == BlockLen \in Nat \ {0}

(***************************************************************************)
(* A compressed file: `header` says whether it has an attribute with the   *)
(* magic number, `type` is its compression type, `size` the uncompressed   *)
(* size of the header, `blocks` the number of bytes zlib_block makes of    *)
(* each block, or Broken if it fails (out of bounds, undecodable, or more  *)
(* than its limit, MAX_INFLATE at most), and `listed` the block count the  *)
(* fork's table gives.  Files in the attribute have a single block; that   *)
(* of a "plain" one (type 9) is only cut out, which cannot fail.  Types 3  *)
(* and 4 are "zlib" and "rsrc"; the others, type 1 included, are          *)
(* "unsupported".                                                          *)
(***************************************************************************)
Broken == -1
InXattr == {"plain", "zlib"}
Types == InXattr \cup {"rsrc", "unsupported"}

BlockCount(size) == (size + BlockLen - 1) \div BlockLen

ASSUME CompressedAssumption ==
    \A t \in Threads : \A q \in Requests[t] :
        q.file.kind = "compressed" =>
            /\ q.file.header \in BOOLEAN
            /\ q.file.header =>
                 /\ q.file.type \in Types /\ q.file.size \in Nat
                 /\ q.file.blocks \in Seq(Nat \cup {Broken})
                 /\ q.file.type # "rsrc" => Len(q.file.blocks) = 1
                 /\ q.file.type = "plain" => q.file.blocks[1] # Broken
                 /\ q.file.type = "rsrc" => Len(q.file.blocks) = BlockCount(q.file.size)

VARIABLE copied   \* thread -> the local variable `done` of read_rsrc_zlib

vars == <<devVars, fileVars, copied>>

Init == DeviceInit /\ FileInit /\ copied = [t \in Threads |-> 0]

File(t) == req[t].file

Result(t, r) == fpc' = [fpc EXCEPT ![t] = r]
Quiet == UNCHANGED <<req, ei, devVars>>

\* parse_header, then offset >= size, then the dispatch on the type.
BeginCompressed(t) ==
    /\ fpc[t] = "begin" /\ File(t).kind = "compressed"
    /\ IF ~ File(t).header THEN Result(t, "failed") /\ UNCHANGED out
       ELSE IF Off(t) >= File(t).size THEN Result(t, "done") /\ UNCHANGED out
       ELSE IF File(t).type = "unsupported" THEN Result(t, "failed") /\ UNCHANGED out
       ELSE /\ out' = [out EXCEPT ![t] = Zeros(MinOf(req[t].len, File(t).size - Off(t)))]
            /\ Result(t, IF File(t).type = "rsrc" THEN "fork" ELSE "inline")
    /\ Quiet /\ UNCHANGED copied

(* copy_window(data[0 .. len), off, n bytes of the buffer from `at`): the  *)
(* bytes that exist, then zeros.  The slice data[off..] of a block that is *)
(* shorter than `off` panics, even when nothing is left to take.  `base`   *)
(* is the file position of the block; the byte at position p is p + 1.     *)
Panics(len, off) == off > len

Window(t, base, len, off, at, n) ==
    [k \in 1 .. Want(t) |->
        IF k - 1 \in at .. at + n - 1
        THEN LET w == off + (k - 1 - at) IN IF w < len THEN base + w + 1 ELSE 0
        ELSE out[t][k]]

\* Types 3 and 9: one window of the attribute's data.
CopyInline(t) ==
    /\ fpc[t] = "inline"
    /\ LET len == File(t).blocks[1] IN
         IF len = Broken THEN Result(t, "failed") /\ UNCHANGED out
         ELSE IF Panics(len, Off(t)) THEN Result(t, "panic") /\ UNCHANGED out
         ELSE /\ out' = [out EXCEPT ![t] = Window(t, 0, len, Off(t), 0, Want(t))]
              /\ Result(t, "done")
    /\ Quiet /\ UNCHANGED copied

\* Mutated: a partial last block is not counted.
OpenForkFloor(t) ==
    /\ fpc[t] = "fork"
    /\ IF File(t).listed # File(t).size \div BlockLen
         THEN Result(t, "failed") ELSE Result(t, "block")
    /\ copied' = [copied EXCEPT ![t] = 0]
    /\ Quiet /\ UNCHANGED out

\* The resource fork is read whole; its block count must fit the size.
OpenFork(t) ==
    /\ fpc[t] = "fork"
    /\ IF File(t).listed # BlockCount(File(t).size)
         THEN Result(t, "failed") ELSE Result(t, "block")
    /\ copied' = [copied EXCEPT ![t] = 0]
    /\ Quiet /\ UNCHANGED out

\* Volume::xattr fails on the way to a sound attribute, or to a sound fork.
XattrFails(t) ==
    /\ fpc[t] \in {"begin", "fork"} /\ File(t).kind = "compressed"
    /\ errors < MaxErrors /\ errors' = errors + 1
    /\ Result(t, "failed")
    /\ UNCHANGED <<req, ei, out, copied, dev, align, mutex, dpc, ask, guess, done, got>>

\* Mutated: the offset of the request, not of the loop.
WithinFirst(t) == Off(t) % BlockLen

At(t) == Off(t) + copied[t]
BlockIdx(t) == At(t) \div BlockLen
Within(t) == At(t) % BlockLen
UncompLen(t) == MinOf(File(t).size - BlockIdx(t) * BlockLen, BlockLen)
Take(t) == MinOf(MaxOf(UncompLen(t) - Within(t), 0), Want(t) - copied[t])

\* Mutated: `done = take` for `done += take`.
CopyBlockSet(t) ==
    /\ fpc[t] = "block" /\ copied[t] < Want(t)
    /\ LET len == File(t).blocks[BlockIdx(t) + 1] IN
         IF len = Broken THEN Result(t, "failed") /\ UNCHANGED <<out, copied>>
         ELSE IF Take(t) = 0 THEN Result(t, "done") /\ UNCHANGED <<out, copied>>
         ELSE IF Panics(len, Within(t)) THEN Result(t, "panic") /\ UNCHANGED <<out, copied>>
         ELSE /\ out' = [out EXCEPT ![t] = Window(t, BlockIdx(t) * BlockLen, len,
                                                  Within(t), copied[t], Take(t))]
              /\ copied' = [copied EXCEPT ![t] = Take(t)]
              /\ UNCHANGED fpc
    /\ Quiet

\* One turn of the loop over the blocks.
CopyBlock(t) ==
    /\ fpc[t] = "block" /\ copied[t] < Want(t)
    /\ LET len == File(t).blocks[BlockIdx(t) + 1] IN
         IF len = Broken THEN Result(t, "failed") /\ UNCHANGED <<out, copied>>
         ELSE IF Take(t) = 0 THEN Result(t, "done") /\ UNCHANGED <<out, copied>>
         ELSE IF Panics(len, Within(t)) THEN Result(t, "panic") /\ UNCHANGED <<out, copied>>
         ELSE /\ out' = [out EXCEPT ![t] = Window(t, BlockIdx(t) * BlockLen, len,
                                                  Within(t), copied[t], Take(t))]
              /\ copied' = [copied EXCEPT ![t] = @ + Take(t)]
              /\ UNCHANGED fpc
    /\ Quiet

EndBlocks(t) ==
    /\ fpc[t] = "block" /\ copied[t] >= Want(t)
    /\ Result(t, "done")
    /\ Quiet /\ UNCHANGED <<out, copied>>

ReadCompressed(t) ==
    \/ BeginCompressed(t) \/ CopyInline(t) \/ OpenFork(t) \/ XattrFails(t)
    \/ CopyBlock(t) \/ EndBlocks(t)

Next == \E t \in Threads : ReadCompressed(t) \/ (ReadFileAt(t) /\ UNCHANGED copied)

\* A request runs on its thread until it returns.
Spec == Init /\ [][Next]_vars
             /\ \A t \in Threads : WF_vars(ReadCompressed(t) \/ (ReadFileAt(t) /\ UNCHANGED copied))

----------------------------------------------------------------------------
(* A file as the system that compressed it left it, in one of the types    *)
(* that are served: every block has the bytes it should.                   *)
Whole(f) ==
    /\ f.header /\ f.type # "unsupported"
    /\ f.type \in InXattr => f.blocks[1] = f.size
    /\ f.type = "rsrc" =>
         /\ f.listed = BlockCount(f.size)
         /\ \A b \in 1 .. BlockCount(f.size) :
               f.blocks[b] = MinOf(BlockLen, f.size - (b - 1) * BlockLen)

\* The data of the file has a byte at position p.
HasByte(f, p) ==
    IF f.type \in InXattr THEN p < f.blocks[1]
    ELSE p % BlockLen < f.blocks[p \div BlockLen + 1]

(* A compressed file reads like the file that was compressed, at every     *)
(* offset and across block boundaries, and positions the damaged data does *)
(* not have read as zeros (decmpfs.rs:87-205).                             *)
ReadsCompressed ==
    \A t \in Threads :
        fpc[t] = "done" /\ File(t).kind = "compressed" =>
            /\ Len(out[t]) = Expected(Off(t), req[t].len, File(t).size)
            /\ \A k \in 1 .. Len(out[t]) :
                  out[t][k] = IF HasByte(File(t), Off(t) + k - 1) THEN Off(t) + k ELSE 0

(* A sound compressed file of a type that is served fails, or panics, only *)
(* if a read failed, be it another thread's: of the volume, the attribute, *)
(* the fork or a disk (decmpfs.rs:87-205, winfsp fs.rs:180-186).           *)
CompressedServed ==
    \A t \in Threads :
        fpc[t] \in {"failed", "panic"} /\ errors = 0 /\ File(t).kind = "compressed" =>
            ~ Whole(File(t))

(* Every request returns: the loop over the blocks always advances, and no *)
(* thread waits for the device for ever (decmpfs.rs:175-203, device.rs:68).*)
RequestsReturn == \A t \in Threads : <>(fpc[t] \in {"done", "failed", "panic"})

(* copy_window is documented as "zero-filling any shortfall (defensive: a  *)
(* well-formed file never needs the fill)" (decmpfs.rs:127-128): no data,  *)
(* however short, makes it panic.                                          *)
ShortfallZeroFilled == \A t \in Threads : fpc[t] # "panic"

(* Type invariant of the readers.                                          *)
TypeOK ==
    /\ DeviceTypeOK
    /\ \A t \in Threads : req[t] \in Requests[t]
    /\ fpc \in [Threads -> {"begin", "extent", "reading", "inline", "fork", "block",
                            "done", "failed", "panic"}]
    /\ ei \in [Threads -> Nat \ {0}]
    /\ out \in [Threads -> Seq(Nat)]
    /\ copied \in [Threads -> Nat]
=============================================================================
