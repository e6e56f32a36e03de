-------------------------- MODULE CheckpointProofs --------------------------
(***************************************************************************)
(* Proofs about Checkpoint, for every ring size, number of transactions    *)
(* and number of failing reads.                                            *)
(***************************************************************************)
EXTENDS Checkpoint, TLAPS

(* The disk between any two steps of its writer: the last commit is whole, *)
(* at its place in both rings, no whole superblock is newer, and when the  *)
(* next superblock is written its space manager is there already.          *)
DiskInv ==
    /\ desc[cpos] = Super(committed, TRUE)
    /\ data[dpos] = Spaceman(committed, TRUE)
    /\ \A d \in Desc : Valid(desc[d]) => desc[d].xid \in 1 .. committed
    /\ zero.ok => zero.xid \in 1 .. committed
    /\ wpc \in {"data", "map", "super"} => committed < MaxXid
    /\ wpc \in {"map", "super"} => data[DataPos] = Spaceman(committed + 1, TRUE)

(* The reader works on a disk at rest, and has seen what it has passed.    *)
ScanInv ==
    /\ rpc # "off" => wpc = "out"
    /\ rpc = "off" => skipped = {} /\ fskipped = {}
    /\ rpc \in {"scan", "open"} => fskipped = {}
    /\ rpc = "scan" =>
         /\ i \in 0 .. DescBlocks /\ best \in 0 .. committed
         /\ \A d \in Desc : d < i /\ d \notin skipped /\ Valid(desc[d]) =>
               best # 0 /\ desc[d].xid <= best
    /\ rpc = "free" =>
         /\ i \in 0 .. DataBlocks
         /\ \A d \in Data : d < i /\ d \notin fskipped => ~ IsSpaceman(data[d])

IInv ==
    /\ TypeOK /\ DiskInv /\ ScanInv
    /\ OpensNewestReadable /\ FailsOnlyUnreadable /\ SpacemanFound

(* The ring positions of the next checkpoint are in the rings, and differ  *)
(* from those of the last one, which it therefore leaves alone.            *)
LEMMA RingPositions ==
    ASSUME cpos \in Desc, dpos \in Data
    PROVE  /\ MapPos \in Desc /\ SuperPos \in Desc /\ DataPos \in Data
           /\ MapPos # cpos /\ SuperPos # cpos /\ DataPos # dpos
BY RingAssumption DEF Desc, Data, MapPos, SuperPos, DataPos, After

(* The freshly formatted disk satisfies the invariant.                     *)
LEMMA InitInv == Init => IInv
BY RingAssumption, BoundAssumption
   DEF Init, IInv, TypeOK, DiskInv, ScanInv, OpensNewestReadable, IsOpen,
       FailsOnlyUnreadable, SpacemanFound, Desc, Data, Block, NoBlock, Super, Map,
       Spaceman, Valid

(* Every step of the writer keeps the last commit readable; the reader is  *)
(* off meanwhile.                                                          *)
LEMMA WriterInv == IInv /\ Writer => IInv'
<1> SUFFICES ASSUME IInv, Writer PROVE IInv'
    OBVIOUS
<1>p. /\ cpos \in Desc /\ dpos \in Data
      /\ MapPos \in Desc /\ SuperPos \in Desc /\ DataPos \in Data
      /\ MapPos # cpos /\ SuperPos # cpos /\ DataPos # dpos
  BY RingPositions DEF IInv, TypeOK
<1>r. rpc = "off" /\ rpc' = "off" /\ UNCHANGED readerVars
  BY DEF IInv, TypeOK, ScanInv, Writer, Attach, StartCheckpoint, FinishData, StartSuper,
         Commit, StartUnmount, FinishUnmount, Pull, readerVars
<1>b. /\ \A x \in Nat, w \in BOOLEAN :
           Super(x, w) \in Block /\ Map(x) \in Block /\ Spaceman(x, w) \in Block
      /\ committed \in Nat /\ committed + 1 \in Nat /\ MaxXid \in Nat
  BY BoundAssumption DEF Super, Map, Spaceman, Block, IInv, TypeOK
<1>q. dpos' = dpos => DataPos' = DataPos
  BY DEF DataPos, After
<1>t. TypeOK' /\ DiskInv'
  <2> USE <1>p, <1>b, <1>q DEF IInv, TypeOK, DiskInv
  <2>1. CASE Attach
    BY <2>1 DEF Attach, readerVars, Valid
  <2>2. CASE StartCheckpoint
    <3>1. data' \in [Data -> Block] /\ data'[dpos] = data[dpos]
      BY <2>2 DEF StartCheckpoint
    <3> QED  BY <2>2, <3>1 DEF StartCheckpoint, readerVars, Valid
  <2>3. CASE FinishData
    <3>1. data' \in [Data -> Block] /\ data'[dpos] = data[dpos]
      BY <2>3 DEF FinishData
    <3>2. /\ desc' \in [Desc -> Block] /\ desc'[cpos] = desc[cpos]
          /\ \A d \in Desc : Valid(desc'[d]) => desc'[d] = desc[d]
      BY <2>3 DEF FinishData, Valid, Map
    <3> QED  BY <2>3, <3>1, <3>2 DEF FinishData, readerVars, Valid
  <2>4. CASE StartSuper
    <3>1. /\ desc' \in [Desc -> Block] /\ desc'[cpos] = desc[cpos]
          /\ \A d \in Desc : Valid(desc'[d]) => desc'[d] = desc[d]
      BY <2>4 DEF StartSuper, Valid, Super
    <3> QED  BY <2>4, <3>1 DEF StartSuper, readerVars, Valid
  <2>5. CASE Commit
    <3>1. /\ desc' \in [Desc -> Block]
          /\ desc'[SuperPos] = Super(committed + 1, TRUE)
          /\ \A d \in Desc \ {SuperPos} : desc'[d] = desc[d]
      BY <2>5 DEF Commit
    <3>2. committed + 1 \in 1 .. MaxXid /\ data[DataPos] = Spaceman(committed + 1, TRUE)
      BY <2>5 DEF Commit
    <3>3. \A d \in Desc : Valid(desc'[d]) => desc'[d].xid \in 1 .. committed + 1
      BY <3>1 DEF Valid, Super
    <3>4. wpc' = "idle" /\ cpos' = SuperPos /\ dpos' = DataPos /\ committed' = committed + 1
          /\ data' = data /\ zero' = zero
      BY <2>5 DEF Commit
    <3>5. zero.ok => zero.xid \in 1 .. committed + 1
      OBVIOUS
    <3>6. TypeOK'
      BY <1>r, <3>1, <3>2, <3>4 DEF readerVars
    <3> QED  BY <3>1, <3>2, <3>3, <3>4, <3>5, <3>6 DEF Valid
  <2>6. CASE StartUnmount
    BY <2>6 DEF StartUnmount, readerVars, Super, Valid
  <2>7. CASE FinishUnmount
    <3>1. zero' \in Block /\ zero'.xid = committed
      BY <2>7 DEF FinishUnmount, Super
    <3>2. /\ UNCHANGED <<desc, data, committed, cpos, dpos, readerVars>>
          /\ wpc' = "out"
      BY <2>7 DEF FinishUnmount
    <3> QED  BY <3>1, <3>2 DEF readerVars, Valid
  <2>8. CASE Pull
    BY <2>8 DEF Pull, readerVars, Valid
  <2> QED
    BY <2>1, <2>2, <2>3, <2>4, <2>5, <2>6, <2>7, <2>8 DEF Writer
<1> QED
  BY <1>r, <1>t
     DEF IInv, ScanInv, OpensNewestReadable, IsOpen, FailsOnlyUnreadable, SpacemanFound,
         readerVars

(* Every step of the reader keeps what it has established so far.          *)
LEMMA ReaderInv == IInv /\ Reader => IInv'
<1> SUFFICES ASSUME IInv, Reader PROVE IInv'
    OBVIOUS
<1> USE RingAssumption, BoundAssumption
    DEF IInv, DiskInv, ScanInv, OpensNewestReadable, IsOpen, FailsOnlyUnreadable,
        SpacemanFound, diskVars, TypeOK, Fault
<1>1. CASE Probe
  BY <1>1 DEF Probe, Desc
<1>2. CASE ProbeFails
  BY <1>2 DEF ProbeFails
<1>3. CASE ScanBlock
  BY <1>3 DEF ScanBlock, Newer, Desc, Valid, Block
<1>4. CASE SkipBlock
  BY <1>4 DEF SkipBlock, Desc
<1>5. CASE ChooseSuperblock
  BY <1>5 DEF ChooseSuperblock, Newer, Desc, Valid, Super, Block
<1>6. CASE StartFree
  BY <1>6 DEF StartFree, Data
<1>7. CASE ReadFree
  BY <1>7 DEF ReadFree, Data, Block
<1>8. CASE SkipFree
  BY <1>8 DEF SkipFree, Data
<1>9. CASE FreeFails
  BY <1>9 DEF FreeFails, Data, IsSpaceman, Spaceman
<1>10. CASE Close
  BY <1>10 DEF Close
<1> QED
  BY <1>1, <1>2, <1>3, <1>4, <1>5, <1>6, <1>7, <1>8, <1>9, <1>10 DEF Reader

THEOREM Inductive == Spec => []IInv
<1>1. IInv /\ UNCHANGED vars => IInv'
  BY DEF IInv, TypeOK, DiskInv, ScanInv, OpensNewestReadable, IsOpen,
         FailsOnlyUnreadable, SpacemanFound, vars, Valid, IsSpaceman, DataPos, After
<1> QED
  BY <1>1, InitInv, WriterInv, ReaderInv, PTL DEF Spec, Next

(* container.rs:144-166: unreadable blocks make the container open at the  *)
(* newest superblock that reads, for every ring size.                      *)
THEOREM NewestReadable == Spec => []OpensNewestReadable
BY Inductive, PTL DEF IInv

(* docs/ARCHITECTURE.md:92-97: wherever the writer was interrupted, the    *)
(* container opens at the last committed transaction.                      *)
THEOREM CrashSafe == Spec => []OpensLastCommit
<1>1. IInv => OpensLastCommit
  BY DEF IInv, TypeOK, DiskInv, OpensNewestReadable, OpensLastCommit, Valid, Super
<1> QED
  BY <1>1, Inductive, PTL

(* Opening fails only when the block that matters did not read.            *)
THEOREM FailuresJustified == Spec => []FailsOnlyUnreadable
BY Inductive, PTL DEF IInv

(* The space manager is found wherever its mapping lies in the data ring,  *)
(* unless a block did not read (container.rs, space_counts).               *)
THEOREM SpacemanAlwaysFound == Spec => []SpacemanFound
BY Inductive, PTL DEF IInv

(* Type correctness of the reader and the disk.                            *)
THEOREM TypeCorrect == Spec => []TypeOK
BY Inductive, PTL DEF IInv
=============================================================================
