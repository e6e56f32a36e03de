------------------------------ MODULE FileRead ------------------------------
(***************************************************************************)
(* Reading a range of a file: ApfsFilesystem::read (crates/apfs-winfsp/    *)
(* src/fs.rs) calls Volume::read_file_at (crates/apfs-core/src/fs.rs),     *)
(* which zero-fills the buffer and then reads, extent by extent, the part  *)
(* of each that the range covers, through the device of FileDevice.        *)
(*                                                                         *)
(* WinFsp runs the requests on several threads; each has its own buffer    *)
(* and all share the device.                                               *)
(***************************************************************************)
EXTENDS FileDevice

CONSTANTS
    BlockSize,   \* bytes of a block
    Requests     \* Requests[t]: what thread t may be asked for

(***************************************************************************)
(* A file: `kind` is "plain", "dir" or "compressed" (see Decmpfs), `size`  *)
(* the inode's size, `extents` the extent records in key order: logical    *)
(* address, length, physical block (0 for a hole), all of them the disk's  *)
(* own, so that they may overlap no other and lie inside the partition.    *)
(***************************************************************************)
Extent == [logical : Nat, len : Nat, phys : Nat]

Separate(exts) ==
    \A j, k \in DOMAIN exts : j < k => exts[j].logical + exts[j].len <= exts[k].logical

OnDisk(exts, d) ==
    \A k \in DOMAIN exts :
        exts[k].phys # 0 => exts[k].phys * BlockSize + exts[k].len <= d.part

ASSUME BlockAssumption == BlockSize \in Nat \ {0}

ASSUME RequestAssumption ==
    \A t \in Threads : \A q \in Requests[t] :
        /\ q.off \in Nat /\ q.len \in Nat
        /\ q.file.kind \in {"plain", "dir", "compressed"}
        /\ q.file.kind = "plain" =>
             /\ q.file.size \in Nat /\ q.file.extents \in Seq(Extent)
             /\ Separate(q.file.extents)
             /\ \A d \in Devices : OnDisk(q.file.extents, d)

VARIABLES
    req,    \* thread -> the file, offset and buffer length it is asked for
    fpc,    \* thread -> "begin", "extent", "reading", ... or a result
    ei,     \* thread -> the extent looked at, from 1
    out     \* thread -> the buffer's valid part; 0 is a zero byte

fileVars == <<req, fpc, ei, out>>

FileInit ==
    /\ req \in {r \in [Threads -> UNION {Requests[t] : t \in Threads}] :
                  \A t \in Threads : r[t] \in Requests[t]}
    /\ fpc = [t \in Threads |-> "begin"]
    /\ ei = [t \in Threads |-> 1]
    /\ out = [t \in Threads |-> <<>>]

MinOf(a, b) == IF a < b THEN a ELSE b
MaxOf(a, b) == IF a > b THEN a ELSE b

\* Mutated: the buffer keeps what was in it.
Unset(k) == [j \in 1 .. k |-> -1]

Off(t) == req[t].off
Want(t) == Len(out[t])
Zeros(n) == [k \in 1 .. n |-> 0]

\* is_dir, then offset >= size, then the zero-filled buffer.
BeginFile(t) ==
    /\ fpc[t] = "begin" /\ req[t].file.kind # "compressed"
    /\ LET f == req[t].file IN
         IF f.kind = "dir" THEN fpc' = [fpc EXCEPT ![t] = "failed"] /\ UNCHANGED out
         ELSE IF Off(t) >= f.size THEN fpc' = [fpc EXCEPT ![t] = "done"] /\ UNCHANGED out
         ELSE /\ out' = [out EXCEPT ![t] = Zeros(MinOf(req[t].len, f.size - Off(t)))]
              /\ fpc' = [fpc EXCEPT ![t] = "extent"]
    /\ UNCHANGED <<req, ei, devVars>>

\* container.volume: the volume is opened again for every request, whatever the file.
VolumeFails(t) ==
    /\ fpc[t] = "begin"
    /\ errors < MaxErrors /\ errors' = errors + 1
    /\ fpc' = [fpc EXCEPT ![t] = "failed"]
    /\ UNCHANGED <<req, ei, out, dev, align, mutex, dpc, ask, guess, done, got>>

\* self.extents: the scan that collects the extent records fails.
ExtentsFail(t) ==
    /\ fpc[t] = "extent" /\ ei[t] = 1
    /\ errors < MaxErrors /\ errors' = errors + 1
    /\ fpc' = [fpc EXCEPT ![t] = "failed"]
    /\ UNCHANGED <<req, ei, out, dev, align, mutex, dpc, ask, guess, done, got>>

\* Mutated: the read is not cut at the end of the extent.
ReadEndUncut(t) == Off(t) + Want(t)

Ext(t) == req[t].file.extents[ei[t]]
ReadStart(t) == MaxOf(Off(t), Ext(t).logical)
ReadEnd(t) == MinOf(Off(t) + Want(t), Ext(t).logical + Ext(t).len)
MoreExtents(t) == fpc[t] = "extent" /\ ei[t] <= Len(req[t].file.extents)

\* `continue`: the extent is outside the range, or a hole.
SkipExtent(t) ==
    /\ MoreExtents(t)
    /\ ReadStart(t) >= ReadEnd(t) \/ Ext(t).phys = 0
    /\ ei' = [ei EXCEPT ![t] = @ + 1]
    /\ UNCHANGED <<req, fpc, out, devVars>>

\* Mutated: every extent is read from its first block.
ReadExtentStart(t) ==
    /\ MoreExtents(t)
    /\ ReadStart(t) < ReadEnd(t) /\ Ext(t).phys # 0
    /\ CallRead(t, Ext(t).phys * BlockSize, ReadEnd(t) - ReadStart(t))
    /\ fpc' = [fpc EXCEPT ![t] = "reading"]
    /\ UNCHANGED <<req, ei, out>>

ReadExtent(t) ==
    /\ MoreExtents(t)
    /\ ReadStart(t) < ReadEnd(t) /\ Ext(t).phys # 0
    /\ CallRead(t, Ext(t).phys * BlockSize + (ReadStart(t) - Ext(t).logical),
                ReadEnd(t) - ReadStart(t))
    /\ fpc' = [fpc EXCEPT ![t] = "reading"]
    /\ UNCHANGED <<req, ei, out>>

\* The bytes go to their place in the buffer.
StoreExtent(t) ==
    /\ fpc[t] = "reading" /\ dpc[t] = "ok"
    /\ EndRead(t)
    /\ out' = [out EXCEPT ![t] =
         [k \in 1 .. Want(t) |->
            IF k - 1 \in ReadStart(t) - Off(t) .. ReadEnd(t) - Off(t) - 1
            THEN got[t][k - (ReadStart(t) - Off(t))] ELSE out[t][k]]]
    /\ ei' = [ei EXCEPT ![t] = @ + 1]
    /\ fpc' = [fpc EXCEPT ![t] = "extent"]
    /\ UNCHANGED req

\* `?`: the request fails, whatever was read before.
ExtentFails(t) ==
    /\ fpc[t] = "reading" /\ dpc[t] = "err"
    /\ EndRead(t)
    /\ fpc' = [fpc EXCEPT ![t] = "failed"]
    /\ UNCHANGED <<req, ei, out>>

EndFile(t) ==
    /\ fpc[t] = "extent" /\ ei[t] > Len(req[t].file.extents)
    /\ fpc' = [fpc EXCEPT ![t] = "done"]
    /\ UNCHANGED <<req, ei, out, devVars>>

ReadFileAt(t) ==
    \/ VolumeFails(t) \/ BeginFile(t) \/ ExtentsFail(t) \/ SkipExtent(t) \/ ReadExtent(t)
    \/ StoreExtent(t) \/ ExtentFails(t) \/ EndFile(t)
    \/ DeviceStep(t) /\ UNCHANGED fileVars

----------------------------------------------------------------------------
(* The byte at position p of a file: the address of the disk that holds    *)
(* it, or 0 in a hole, in a hole record and behind the last extent.        *)
Content(f, p) ==
    LET over == {k \in DOMAIN f.extents :
                   /\ f.extents[k].phys # 0 /\ f.extents[k].logical <= p
                   /\ p < f.extents[k].logical + f.extents[k].len}
    IN  IF over = {} THEN 0
        ELSE LET e == f.extents[CHOOSE k \in over : TRUE]
             IN  dev.start + e.phys * BlockSize + (p - e.logical)

\* A read is short only at the end of the file (fs.rs:290-291).
Expected(off, len, size) == IF off >= size THEN 0 ELSE MinOf(len, size - off)

(* What a read of a file returns is the file: every byte from its own      *)
(* extent, zeros in the holes, and as many bytes as were asked for, short  *)
(* only at end of file (fs.rs:290-330), whatever other threads read.       *)
ReadsFile ==
    \A t \in Threads :
        LET f == req[t].file IN
        fpc[t] = "done" /\ f.kind = "plain" =>
            /\ Len(out[t]) = Expected(Off(t), req[t].len, f.size)
            /\ \A k \in 1 .. Len(out[t]) : out[t][k] = Content(f, Off(t) + k - 1)

(* A file whose extents lie in the partition is read without an error      *)
(* unless the system fails a legal read, be it another thread's, on every  *)
(* kind of device and path, up to the last byte of the disk (fs.rs:313-328 *)
(* with device.rs:41-142).                                                 *)
FileServed ==
    \A t \in Threads :
        fpc[t] = "failed" /\ errors = 0 => req[t].file.kind # "plain"
=============================================================================
