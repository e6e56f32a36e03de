------------------------------ MODULE Updater ------------------------------
(***************************************************************************)
(* Self-update (crates/apfs-winfsp/src/updater.rs): run_update brings the  *)
(* two binaries of a release up to date one after the other.  It is run by *)
(* the watcher's background thread (a minute after start, then daily) and  *)
(* by `apfs-mount update`; both are processes of apfs-mount.exe and        *)
(* compare the version they were COMPILED with against the newest release. *)
(*                                                                         *)
(* A download or a replacement can fail, and a process can be ended in the *)
(* middle of it; a process runs what apfs-mount.exe contained when it was  *)
(* started.                                                                *)
(***************************************************************************)
EXTENDS Naturals, Sequences

CONSTANTS
    Procs,        \* processes of apfs-mount.exe that update
    MaxVersion,   \* bound: the newest release that is ever published
    MaxFailures   \* bound: failed fetches, failed installs, killed processes

ASSUME UpdaterAssumption == MaxVersion \in Nat \ {0} /\ MaxFailures \in Nat

\* `for bin in ["apfs-mount.exe", "apfs.exe"]`
Bins == <<"apfs-mount.exe", "apfs.exe">>
BinSet == {"apfs-mount.exe", "apfs.exe"}

VARIABLES
    latest,    \* the newest published release
    disk,      \* file name -> the program and version the file contains
    failures,  \* failures so far
    running,   \* process -> the version it was compiled with
    pc,        \* process -> "idle", "check", "install"
    bi,        \* process -> index in Bins of the binary being updated
    target,    \* process -> the release it is downloading
    updated,   \* process -> the local variable `updated`
    result     \* process -> what the last run_update returned

vars == <<latest, disk, failures, running, pc, bi, target, updated, result>>

Init ==
    /\ latest = 1
    /\ disk = [b \in BinSet |-> [bin |-> b, ver |-> 1]]
    /\ failures = 0
    /\ running = [p \in Procs |-> 1]
    /\ pc = [p \in Procs |-> "idle"]
    /\ bi = [p \in Procs |-> 1]
    /\ target = [p \in Procs |-> 1]
    /\ updated = [p \in Procs |-> FALSE]
    /\ result = [p \in Procs |-> "none"]

\* CI publishes a new version tag.
Publish ==
    /\ latest < MaxVersion
    /\ latest' = latest + 1
    /\ UNCHANGED <<disk, failures, running, pc, bi, target, updated, result>>

\* Mutated: the index starts from 0.
BeginAtZero(p) ==
    /\ pc[p] = "idle"
    /\ pc' = [pc EXCEPT ![p] = "check"]
    /\ bi' = [bi EXCEPT ![p] = 0]
    /\ updated' = [updated EXCEPT ![p] = FALSE]
    /\ result' = [result EXCEPT ![p] = "none"]
    /\ UNCHANGED <<latest, disk, failures, running, target>>

Begin(p) ==
    /\ pc[p] = "idle"
    /\ pc' = [pc EXCEPT ![p] = "check"]
    /\ bi' = [bi EXCEPT ![p] = 1]
    /\ updated' = [updated EXCEPT ![p] = FALSE]
    /\ result' = [result EXCEPT ![p] = "none"]
    /\ UNCHANGED <<latest, disk, failures, running, target>>

\* Mutated: the comparison is the wrong way round.
UpToDateSwapped(p) ==
    /\ pc[p] = "check" /\ bi[p] <= Len(Bins)
    /\ latest >= running[p]
    /\ bi' = [bi EXCEPT ![p] = @ + 1]
    /\ UNCHANGED <<latest, disk, failures, running, pc, target, updated, result>>

\* Update::update: nothing to do when the release is not newer than the
\* version this process was compiled with, whatever the file contains.
UpToDate(p) ==
    /\ pc[p] = "check" /\ bi[p] <= Len(Bins)
    /\ latest <= running[p]
    /\ bi' = [bi EXCEPT ![p] = @ + 1]
    /\ UNCHANGED <<latest, disk, failures, running, pc, target, updated, result>>

Download(p) ==
    /\ pc[p] = "check" /\ bi[p] <= Len(Bins)
    /\ latest > running[p]
    /\ target' = [target EXCEPT ![p] = latest]
    /\ pc' = [pc EXCEPT ![p] = "install"]
    /\ UNCHANGED <<latest, disk, failures, running, bi, updated, result>>

\* Mutated: self_update's default, the file of the running program.
RunningExe(b) == "apfs-mount.exe"

\* bin_path_in_archive picks the program, bin_install_path the file it replaces.
InstallPath(b) == b

Install(p) ==
    /\ pc[p] = "install"
    /\ disk' = [disk EXCEPT ![InstallPath(Bins[bi[p]])] =
                    [bin |-> Bins[bi[p]], ver |-> target[p]]]
    /\ updated' = [updated EXCEPT ![p] = TRUE]
    /\ bi' = [bi EXCEPT ![p] = @ + 1]
    /\ pc' = [pc EXCEPT ![p] = "check"]
    /\ UNCHANGED <<latest, failures, running, target, result>>

\* A failure of either binary returns at once; what was installed stays.
Fail(p) ==
    /\ pc[p] \in {"check", "install"} /\ bi[p] <= Len(Bins)
    /\ failures < MaxFailures
    /\ failures' = failures + 1
    /\ pc' = [pc EXCEPT ![p] = "idle"]
    /\ result' = [result EXCEPT ![p] = "err"]
    /\ UNCHANGED <<latest, disk, running, bi, target, updated>>

Return(p) ==
    /\ pc[p] = "check" /\ bi[p] > Len(Bins)
    /\ pc' = [pc EXCEPT ![p] = "idle"]
    /\ result' = [result EXCEPT ![p] = IF updated[p] THEN "updated" ELSE "current"]
    /\ UNCHANGED <<latest, disk, failures, running, bi, target, updated>>

StartFromDisk(p) ==
    /\ running' = [running EXCEPT ![p] = disk["apfs-mount.exe"].ver]
    /\ pc' = [pc EXCEPT ![p] = "idle"]
    /\ result' = [result EXCEPT ![p] = "none"]
    /\ UNCHANGED <<latest, disk, bi, target, updated>>

\* The process ends between two checks and is started again (next logon,
\* or the next `apfs-mount update`).
Restart(p) == pc[p] = "idle" /\ StartFromDisk(p) /\ UNCHANGED failures

\* It is ended in the middle of run_update.
Kill(p) ==
    /\ pc[p] # "idle" /\ failures < MaxFailures
    /\ failures' = failures + 1
    /\ StartFromDisk(p)

RunUpdate(p) == UpToDate(p) \/ Download(p) \/ Install(p) \/ Fail(p) \/ Return(p)

Next == Publish \/ \E p \in Procs : Begin(p) \/ RunUpdate(p) \/ Restart(p) \/ Kill(p)

(***************************************************************************)
(* The checker loop comes back every day and an update that started goes   *)
(* on; users log on again from time to time.  Releases are never obliged   *)
(* to appear.                                                              *)
(***************************************************************************)
Fairness == \A p \in Procs :
    WF_vars(Begin(p)) /\ WF_vars(RunUpdate(p)) /\ SF_vars(Restart(p))

Spec == Init /\ [][Next]_vars /\ Fairness

----------------------------------------------------------------------------
(* Type invariant of run_update and the files it replaces.                 *)
TypeOK ==
    /\ latest \in 1 .. MaxVersion
    /\ disk \in [BinSet -> [bin : BinSet, ver : 1 .. MaxVersion]]
    /\ failures \in 0 .. MaxFailures
    /\ running \in [Procs -> 1 .. MaxVersion]
    /\ pc \in [Procs -> {"idle", "check", "install"}]
    /\ bi \in [Procs -> 1 .. Len(Bins) + 1]
    /\ target \in [Procs -> 1 .. MaxVersion]
    /\ updated \in [Procs -> BOOLEAN]
    /\ result \in [Procs -> {"none", "updated", "current", "err"}]

(* Each file keeps containing its own program: the second round of the     *)
(* loop never replaces apfs-mount.exe by apfs.exe (updater.rs:42-55),      *)
(* whatever failed or was killed before and whoever updates beside it.     *)
EachBinaryInItsFile == \A b \in BinSet : disk[b].bin = b

(* When releases stop appearing, the process that users start runs the     *)
(* newest one after finitely many checks and logons, whatever failed       *)
(* before (updater.rs:87-105).                                             *)
EventuallyRunsLatest ==
    \A p \in Procs : <>[](running[p] = latest)

(* "Ok(false) if already current" (updater.rs:32-33), which the `update`   *)
(* command prints as "already up to date": no binary of the release is     *)
(* then older than the process that says so.                               *)
CurrentMeansBoth ==
    \A p \in Procs : result[p] = "current" => \A b \in BinSet : disk[b].ver >= running[p]
============================================================================
