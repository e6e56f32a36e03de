----------------------------- MODULE Checkpoint -----------------------------
(***************************************************************************)
(* Which checkpoint a container is opened at (crates/apfs-core/src/        *)
(* container.rs).  Container::open scans the checkpoint descriptor ring    *)
(* for the newest superblock with a valid checksum; free_block_count scans *)
(* the checkpoint data ring for the space manager.                         *)
(*                                                                         *)
(* The disk was written by another system, copy on write: a checkpoint     *)
(* writes its ephemeral objects into the data ring, a checkpoint map and   *)
(* then its superblock into the descriptor ring (docs/ARCHITECTURE.md:     *)
(* 88-97); block zero is a copy made by a clean unmount.  The disk may be  *)
(* pulled at any moment, which leaves the block being written torn.  The   *)
(* reader has the disk only while the writer does not.                     *)
(***************************************************************************)
EXTENDS Integers

CONSTANTS
    DescBlocks,   \* blocks of the checkpoint descriptor ring
    DataBlocks,   \* blocks of the checkpoint data ring
    MaxXid,       \* bound: the last transaction
    MaxFaults     \* bound: failing block reads

ASSUME RingAssumption ==
    /\ DescBlocks \in Nat /\ DescBlocks >= 3   \* a checkpoint beside the one it replaces
    /\ DataBlocks \in Nat /\ DataBlocks >= 2

ASSUME BoundAssumption == MaxXid \in Nat \ {0} /\ MaxFaults \in Nat

Desc == 0 .. DescBlocks - 1
Data == 0 .. DataBlocks - 1

\* kind: the object type in the block's header; ok: its checksum matches.
Block == [kind : {"none", "map", "super", "spaceman"}, xid : Nat, ok : BOOLEAN]

VARIABLES
    desc,        \* the checkpoint descriptor ring
    data,        \* the checkpoint data ring
    zero,        \* block zero
    committed,   \* the transaction whose superblock was written last
    cpos, dpos,  \* where its superblock and its space manager are
    wpc,         \* the writer: "idle", "data", "map", "super", "zero", "out"
    faults,      \* failed reads so far
    rpc,         \* the reader: "off", "scan", "open", "free" or a result
    i,           \* next block to scan
    best,        \* transaction of `best`, 0 for None
    skipped,     \* descriptor blocks that did not read (-1 for block zero)
    fskipped,    \* data blocks that did not read
    freeXid      \* transaction whose free count was returned, 0 for none

diskVars   == <<desc, data, zero, committed, cpos, dpos, wpc>>
readerVars == <<faults, rpc, i, best, skipped, fskipped, freeXid>>
vars == <<desc, data, zero, committed, cpos, dpos, wpc,
          faults, rpc, i, best, skipped, fskipped, freeXid>>

NoBlock == [kind |-> "none", xid |-> 0, ok |-> FALSE]
Super(x, whole) == [kind |-> "super", xid |-> x, ok |-> whole]
Map(x) == [kind |-> "map", xid |-> x, ok |-> TRUE]
Spaceman(x, whole) == [kind |-> "spaceman", xid |-> x, ok |-> whole]

\* A freshly formatted container: one checkpoint and its copy in block zero.
Init ==
    /\ desc = [d \in Desc |-> IF d = 0 THEN Map(1) ELSE IF d = 1 THEN Super(1, TRUE) ELSE NoBlock]
    /\ data = [d \in Data |-> IF d = 0 THEN Spaceman(1, TRUE) ELSE NoBlock]
    /\ zero = Super(1, TRUE)
    /\ committed = 1 /\ cpos = 1 /\ dpos = 0
    /\ wpc = "out"
    /\ faults = 0 /\ rpc = "off" /\ i = 0 /\ best = 0
    /\ skipped = {} /\ fskipped = {} /\ freeXid = 0

----------------------------------------------------------------------------
(* The system that writes the disk.                                        *)

\* Mutated: the ring does not wrap.
AfterNoWrap(d, size) == d + 1

After(d, size) == IF d + 1 = size THEN 0 ELSE d + 1
DataPos  == After(dpos, DataBlocks)
MapPos   == After(cpos, DescBlocks)
SuperPos == After(MapPos, DescBlocks)

Attach ==
    /\ wpc = "out" /\ rpc = "off"
    /\ wpc' = "idle"
    /\ UNCHANGED <<desc, data, zero, committed, cpos, dpos, readerVars>>

\* A block is torn from the moment its write starts until it is complete.
StartCheckpoint ==
    /\ wpc = "idle" /\ committed < MaxXid
    /\ data' = [data EXCEPT ![DataPos] = Spaceman(committed + 1, FALSE)]
    /\ wpc' = "data"
    /\ UNCHANGED <<desc, zero, committed, cpos, dpos, readerVars>>

FinishData ==
    /\ wpc = "data"
    /\ data' = [data EXCEPT ![DataPos] = Spaceman(committed + 1, TRUE)]
    /\ desc' = [desc EXCEPT ![MapPos] = Map(committed + 1)]
    /\ wpc' = "map"
    /\ UNCHANGED <<zero, committed, cpos, dpos, readerVars>>

StartSuper ==
    /\ wpc = "map"
    /\ desc' = [desc EXCEPT ![SuperPos] = Super(committed + 1, FALSE)]
    /\ wpc' = "super"
    /\ UNCHANGED <<data, zero, committed, cpos, dpos, readerVars>>

\* The superblock is whole: the transaction is committed.
Commit ==
    /\ wpc = "super"
    /\ desc' = [desc EXCEPT ![SuperPos] = Super(committed + 1, TRUE)]
    /\ committed' = committed + 1
    /\ cpos' = SuperPos /\ dpos' = DataPos
    /\ wpc' = "idle"
    /\ UNCHANGED <<data, zero, readerVars>>

\* Clean unmount: block zero becomes a copy of the newest superblock.
StartUnmount ==
    /\ wpc = "idle"
    /\ zero' = Super(committed, FALSE)
    /\ wpc' = "zero"
    /\ UNCHANGED <<desc, data, committed, cpos, dpos, readerVars>>

FinishUnmount ==
    /\ wpc = "zero"
    /\ zero' = Super(committed, TRUE)
    /\ wpc' = "out"
    /\ UNCHANGED <<desc, data, committed, cpos, dpos, readerVars>>

\* The disk is pulled, or the power fails, at any point.
Pull ==
    /\ wpc # "out"
    /\ wpc' = "out"
    /\ UNCHANGED <<desc, data, zero, committed, cpos, dpos, readerVars>>

Writer ==
    \/ Attach \/ StartCheckpoint \/ FinishData \/ StartSuper \/ Commit
    \/ StartUnmount \/ FinishUnmount \/ Pull

----------------------------------------------------------------------------
(* Container::open.                                                        *)

Fault == faults < MaxFaults /\ faults' = faults + 1

\* Block zero is only parsed, so a torn copy still gives the ring's bounds.
Probe ==
    /\ rpc = "off" /\ wpc = "out"
    /\ rpc' = "scan" /\ i' = 0 /\ best' = 0
    /\ UNCHANGED <<diskVars, faults, skipped, fskipped, freeXid>>

ProbeFails ==
    /\ rpc = "off" /\ wpc = "out" /\ Fault
    /\ rpc' = "failed"
    /\ skipped' = {-1}
    /\ UNCHANGED <<diskVars, i, best, fskipped, freeXid>>

\* Mutated: the checksum is not verified.
AnySuper(b) == b.kind = "super"

\* A descriptor block counts if it is a superblock and its checksum matches.
Valid(b) == b.kind = "super" /\ b.ok

\* Mutated: the first valid superblock is taken.
FirstFound(x) == best = 0

Newer(x) == best = 0 \/ x > best

ScanBlock ==
    /\ rpc = "scan" /\ i < DescBlocks
    /\ best' = IF Valid(desc[i]) /\ Newer(desc[i].xid) THEN desc[i].xid ELSE best
    /\ i' = i + 1
    /\ UNCHANGED <<diskVars, faults, rpc, skipped, fskipped, freeXid>>

\* read_at fails: continue with the next block.
SkipBlock ==
    /\ rpc = "scan" /\ i < DescBlocks /\ Fault
    /\ skipped' = skipped \cup {i}
    /\ i' = i + 1
    /\ UNCHANGED <<diskVars, rpc, best, fskipped, freeXid>>

\* Mutated: block zero has to be valid.
NeedBlockZero ==
    /\ rpc = "scan" /\ i = DescBlocks
    /\ best' = IF zero.ok /\ Newer(zero.xid) THEN zero.xid ELSE best
    /\ rpc' = IF best' = 0 \/ ~ zero.ok THEN "failed" ELSE "open"
    /\ UNCHANGED <<diskVars, faults, i, skipped, fskipped, freeXid>>

\* The fall back to block zero, then the error when nothing was found.
ChooseSuperblock ==
    /\ rpc = "scan" /\ i = DescBlocks
    /\ best' = IF zero.ok /\ Newer(zero.xid) THEN zero.xid ELSE best
    /\ rpc' = IF best' = 0 THEN "failed" ELSE "open"
    /\ UNCHANGED <<diskVars, faults, i, skipped, fskipped, freeXid>>

(* Container::free_block_count on the open container.                      *)

StartFree ==
    /\ rpc = "open"
    /\ rpc' = "free" /\ i' = 0
    /\ UNCHANGED <<diskVars, faults, best, skipped, fskipped, freeXid>>

IsSpaceman(b) == b.kind = "spaceman" /\ b.ok

\* The first space manager found is the answer.
ReadFree ==
    /\ rpc = "free" /\ i < DataBlocks
    /\ IF IsSpaceman(data[i])
         THEN rpc' = "counted" /\ freeXid' = data[i].xid
         ELSE UNCHANGED <<rpc, freeXid>>
    /\ i' = i + 1
    /\ UNCHANGED <<diskVars, faults, best, skipped, fskipped>>

SkipFree ==
    /\ rpc = "free" /\ i < DataBlocks /\ Fault
    /\ fskipped' = fskipped \cup {i}
    /\ i' = i + 1
    /\ UNCHANGED <<diskVars, rpc, best, skipped, freeXid>>

FreeFails ==
    /\ rpc = "free" /\ i = DataBlocks
    /\ rpc' = "nospaceman"
    /\ UNCHANGED <<diskVars, faults, i, best, skipped, fskipped, freeXid>>

\* The container is dropped.
Close ==
    /\ rpc \in {"open", "failed", "counted", "nospaceman"}
    /\ rpc' = "off" /\ i' = 0 /\ best' = 0
    /\ skipped' = {} /\ fskipped' = {} /\ freeXid' = 0
    /\ UNCHANGED <<diskVars, faults>>

Reader ==
    \/ Probe \/ ProbeFails \/ ScanBlock \/ SkipBlock \/ ChooseSuperblock
    \/ StartFree \/ ReadFree \/ SkipFree \/ FreeFails \/ Close

Next == Writer \/ Reader

Spec == Init /\ [][Next]_vars

----------------------------------------------------------------------------
(* Type invariant of the disk, its writer and the reader.                  *)
TypeOK ==
    /\ desc \in [Desc -> Block] /\ data \in [Data -> Block] /\ zero \in Block
    /\ committed \in 1 .. MaxXid /\ cpos \in Desc /\ dpos \in Data
    /\ wpc \in {"idle", "data", "map", "super", "zero", "out"}
    /\ faults \in 0 .. MaxFaults
    /\ rpc \in {"off", "scan", "open", "free", "failed", "counted", "nospaceman"}
    /\ i \in Nat /\ best \in Nat /\ freeXid \in Nat
    /\ skipped \subseteq Desc \cup {-1} /\ fskipped \subseteq Data

\* The container is open at transaction `best`.
IsOpen == rpc \in {"open", "free", "counted", "nospaceman"}

(* Crash safety as docs/ARCHITECTURE.md:92-97 claims it, "if power dies    *)
(* mid-transaction the old checkpoint is still the newest valid one": when *)
(* every block reads, the container opens at exactly the last transaction  *)
(* whose superblock was completed, wherever in a checkpoint or an unmount  *)
(* the disk was pulled, and never at a torn one.                           *)
OpensLastCommit == IsOpen /\ skipped = {} => best = committed

(* Unreadable blocks (container.rs:147-149 skips them) make the container  *)
(* open at an older checkpoint at worst: the newest one that reads.        *)
OpensNewestReadable ==
    IsOpen =>
        /\ best \in 1 .. committed
        /\ \A d \in Desc \ skipped : Valid(desc[d]) => desc[d].xid <= best
        /\ zero.ok => zero.xid <= best

(* No crash of the writer makes the container unreadable: opening fails    *)
(* only if block zero or the block of the last commit did not read.        *)
FailsOnlyUnreadable == rpc = "failed" => -1 \in skipped \/ cpos \in skipped

(* The space manager is always found when the data ring reads.             *)
SpacemanFound == rpc = "nospaceman" => dpos \in fskipped

(* "Number of free blocks in the container" (container.rs:203) of the      *)
(* checkpoint that is open: what free_block_count returns comes from the   *)
(* space manager of that checkpoint when every block reads.                *)
FreeCountCurrent == rpc = "counted" /\ skipped = {} /\ fskipped = {} => freeXid = best
=============================================================================
