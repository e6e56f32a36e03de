--------------------------- MODULE UpdaterProofs ---------------------------
(***************************************************************************)
(* What the self-updater never does, for any number of processes of        *)
(* apfs-mount.exe, any releases and any failures.                          *)
(***************************************************************************)
EXTENDS Updater, TLAPS

\* A binary is only installed in a round of the loop.
InRound == \A p \in Procs : pc[p] = "install" => bi[p] \in 1 .. Len(Bins)

IInv == TypeOK /\ InRound /\ EachBinaryInItsFile

LEMMA BinsFacts ==
    /\ Len(Bins) = 2
    /\ \A i \in 1 .. Len(Bins) : Bins[i] \in BinSet
  BY DEF Bins, BinSet

LEMMA InitInvariant == Init => IInv
  BY BinsFacts, UpdaterAssumption DEF Init, IInv, TypeOK, InRound, EachBinaryInItsFile, BinSet

LEMMA StepInvariant ==
    ASSUME IInv, NEW p \in Procs, Begin(p) \/ RunUpdate(p) \/ Restart(p) \/ Kill(p)
    PROVE  IInv'
<1> USE BinsFacts, UpdaterAssumption DEF IInv, TypeOK, InRound, EachBinaryInItsFile
<1>1. CASE Begin(p)
  BY <1>1 DEF Begin
<1>2. CASE UpToDate(p)
  BY <1>2 DEF UpToDate
<1>3. CASE Download(p)
  BY <1>3 DEF Download
<1>4. CASE Install(p)
  <2>1. Bins[bi[p]] \in BinSet /\ bi[p] + 1 \in 1 .. Len(Bins) + 1
    BY <1>4 DEF Install
  <2>2. disk' = [disk EXCEPT ![Bins[bi[p]]] = [bin |-> Bins[bi[p]], ver |-> target[p]]]
    BY <1>4 DEF Install, InstallPath
  <2>3. disk' \in [BinSet -> [bin : BinSet, ver : 1 .. MaxVersion]]
    BY <2>1, <2>2
  <2>4. EachBinaryInItsFile'
    BY <2>1, <2>2
  <2>5. InRound' /\ bi' \in [Procs -> 1 .. Len(Bins) + 1]
    BY <1>4, <2>1 DEF Install
  <2> QED
    BY <1>4, <2>3, <2>4, <2>5 DEF Install
<1>5. CASE Fail(p)
  BY <1>5 DEF Fail
<1>6. CASE Return(p)
  BY <1>6 DEF Return
<1>7. ASSUME StartFromDisk(p), failures' \in 0 .. MaxFailures PROVE IInv'
  <2>1. disk["apfs-mount.exe"].ver \in 1 .. MaxVersion
    BY DEF BinSet
  <2> QED
    BY <1>7, <2>1 DEF StartFromDisk
<1>8. CASE Restart(p)
  BY <1>7, <1>8 DEF Restart
<1>9. CASE Kill(p)
  <2>1. failures' \in 0 .. MaxFailures
    BY <1>9 DEF Kill
  <2> QED
    BY <1>7, <1>9, <2>1 DEF Kill
<1> QED
  BY <1>1, <1>2, <1>3, <1>4, <1>5, <1>6, <1>8, <1>9 DEF RunUpdate

LEMMA NextInvariant == IInv /\ [Next]_vars => IInv'
<1> SUFFICES ASSUME IInv, [Next]_vars PROVE IInv'
  OBVIOUS
<1>1. CASE Publish
  BY <1>1, UpdaterAssumption
  DEF Publish, IInv, TypeOK, InRound, EachBinaryInItsFile
<1>2. CASE UNCHANGED vars
  BY <1>2 DEF vars, IInv, TypeOK, InRound, EachBinaryInItsFile
<1> QED
  BY <1>1, <1>2, StepInvariant DEF Next

(* The updater's state keeps its types (updater.rs:34-82).                 *)
THEOREM TypeCorrect == Spec => []TypeOK
<1>1. IInv => TypeOK
  BY DEF IInv
<1> QED
  BY <1>1, InitInvariant, NextInvariant, PTL DEF Spec

(* Each file keeps containing its own program, with any number of          *)
(* processes updating at once and wherever one of them fails or is killed  *)
(* (updater.rs:42-55).                                                     *)
THEOREM FilesKeepTheirPrograms == Spec => []EachBinaryInItsFile
<1>1. IInv => EachBinaryInItsFile
  BY DEF IInv
<1> QED
  BY <1>1, InitInvariant, NextInvariant, PTL DEF Spec
=============================================================================
