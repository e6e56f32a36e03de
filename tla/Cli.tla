-------------------------------- MODULE Cli --------------------------------
(***************************************************************************)
(* The command line tool over an injected image (crates/apfs-cli/src/      *)
(* main.rs): `ls` and `cat` of a path, `info`, `dump-fstree`, and `tree`, a *)
(* recursion over the directories.  The recursion is a stack of the        *)
(* entries still to come, one sequence per open directory.  Any read may   *)
(* fail and ends the tool.                                                 *)
(*                                                                         *)
(* The tool and a mount only read the image and have nothing else in       *)
(* common, so a behaviour shows one or the other.                          *)
(***************************************************************************)
EXTENDS MountLayer

VARIABLES
    command,   \* what it was asked, [op, path]
    status,    \* "idle", "running", "ok", "error"
    stack,     \* for each directory being printed, the entries left
    printed    \* its output

cliVars == <<command, status, stack, printed>>
vars == <<fixVars, faults, mountVars, cliVars>>

NoCommand == [op |-> "none", path |-> <<>>]

Init ==
    /\ FixtureInit /\ MountInit
    /\ command = NoCommand /\ status = "idle" /\ stack = <<>> /\ printed = <<>>

Top == stack[Len(stack)]
Depth == Len(stack) - 1
Popped == [stack EXCEPT ![Len(stack)] = Tail(@)]
Cli == pc = "idle" /\ runs = MaxRuns /\ reply.op = "none"
Exit(s) == status' = s /\ stack' = <<>>

ContainerOpens == Volume.kind = "container"

\* run: the container and what the command reads first.
Begin(op, path) ==
    /\ Cli /\ status = "idle" /\ command' = [op |-> op, path |-> path]
    /\ IF ~ ContainerOpens THEN Exit("error") /\ UNCHANGED printed
       ELSE LET recs == VolumeRecords
                found == LookupPath(recs, Volume.fold, path)
                summary == [files |-> Volume.files, dirs |-> Volume.dirs, links |-> Volume.links]
                dir == ReadDir(recs, Volume.fold, path)
            IN  \/ /\ op = "tree"
                   /\ stack' = <<ReadDirInode(recs, RootDir)>>
                   /\ status' = "running" /\ UNCHANGED printed
                \/ /\ op = "ls"
                   /\ IF dir.status = "ok" THEN stack' = <<dir.entries>> /\ status' = "running"
                      ELSE Exit("error")
                   /\ UNCHANGED printed
                \/ op = "info" /\ Exit("ok") /\ printed' = <<summary>>
                \/ op = "dump-fstree" /\ Exit("ok") /\ printed' = recs
                \/ /\ op = "cat"
                   /\ IF found.status = "ok" /\ found.mode # "dir"
                      THEN Exit("ok") /\ printed' = <<FileInfo(found)>>
                      ELSE Exit("error") /\ UNCHANGED printed
    /\ UNCHANGED faults

\* `?` of any step
Abort ==
    /\ Cli /\ status \in {"idle", "running"} /\ Fault
    /\ Exit("error") /\ UNCHANGED <<command, printed>>

\* ls: the inode of the entry, then its line.
PrintEntry ==
    /\ status = "running" /\ command.op = "ls" /\ Top # <<>>
    /\ LET found == Inode(VolumeRecords, Head(Top).file) IN
       IF found.status = "ok"
       THEN /\ printed' = Append(printed, [name |-> Head(Top).name, info |-> FileInfo(found)])
            /\ stack' = Popped /\ UNCHANGED status
       ELSE Exit("error") /\ UNCHANGED printed
    /\ UNCHANGED <<command, faults>>

\* Mutated: a directory takes the place of the entries that follow it.
OpenedHere(file) == [stack EXCEPT ![Len(stack)] = ReadDirInode(VolumeRecords, file)]

Opened(file) == Append(Popped, ReadDirInode(VolumeRecords, file))

\* print_tree: a line, and the directory below it before the next one.
PrintTree ==
    /\ status = "running" /\ command.op = "tree" /\ Top # <<>>
    /\ LET e == Head(Top) IN
       /\ printed' = Append(printed, [name |-> e.name, file |-> e.file, depth |-> Depth])
       /\ stack' = IF e.dtype = DtDir THEN Opened(e.file) ELSE Popped
    /\ UNCHANGED <<command, status, faults>>

EndDir ==
    /\ status = "running" /\ Top = <<>>
    /\ IF Len(stack) = 1 THEN Exit("ok")
       ELSE stack' = SubSeq(stack, 1, Len(stack) - 1) /\ UNCHANGED status
    /\ UNCHANGED <<command, printed, faults>>

CliStep ==
    \/ \E op \in {"ls", "cat", "tree", "info", "dump-fstree"}, path \in Paths :
          (op \notin {"ls", "cat"} => path = <<>>) /\ Begin(op, path)
    \/ Abort \/ PrintEntry \/ PrintTree \/ EndDir

Next ==
    \/ Inject /\ UNCHANGED <<mountVars, cliVars>>
    \/ MountStep /\ status = "idle" /\ UNCHANGED <<fixVars, cliVars>>
    \/ CliStep /\ UNCHANGED <<fixVars, mountVars>>

Spec == Init /\ [][Next]_vars

----------------------------------------------------------------------------
\* Every entry but those of the root and the private directory themselves.
VolumeEntries == {r \in OfType(VolumeRecords, DirRec) : r.id # RootParent}

ListLines(s) ==
    [i \in DOMAIN s |-> [name |-> s[i].name, info |-> FileInfo(Inode(VolumeRecords, s[i].file))]]

\* The directory that a line of `tree` stands below.
Above(i) == {j \in 1 .. i - 1 : printed[j].depth = printed[i].depth - 1}
Holder(i) ==
    IF printed[i].depth = 0 THEN RootDir
    ELSE printed[CHOOSE j \in Above(i) : \A k \in Above(i) : k <= j].file

TreePrinted ==
    /\ Len(printed) = Cardinality(VolumeEntries)
    /\ \A i \in DOMAIN printed : \E r \in VolumeEntries :
          r.id = Holder(i) /\ r.val.file = printed[i].file /\ r.name = printed[i].name
    /\ \A i, j \in DOMAIN printed : i < j => printed[i].file # printed[j].file

(* `tree` prints every entry of the volume once, below the directory that  *)
(* holds it; `ls` prints what the mounted directory shows, and `info`      *)
(* counts what `tree` prints (main.rs:44-96, 122-139).                     *)
ToolsPrintAll ==
    status = "ok" =>
        /\ command.op = "ls" =>
             printed = ListLines(ReadDirInode(VolumeRecords, Resolve(command.path).id))
        /\ command.op = "info" =>
             printed[1].files + printed[1].dirs + printed[1].links = Cardinality(VolumeEntries)
        /\ command.op = "tree" => TreePrinted

(* Type invariant of the injector, the mount and the tool.                 *)
TypeOK ==
    /\ pc \in {"idle", "alloc", "tree", "refs", "count", "write"}
    /\ exit \in {"none", "ok", "panic"}
    /\ blk \in Seq(0 .. Blocks - 1) /\ Len(blk) <= Len(Wanted)
    /\ img.kind \in {"none", "container"} /\ (img.kind = "none" <=> pc = "idle")
    /\ runs \in 0 .. MaxRuns /\ faults \in 0 .. MaxFaults
    /\ inode.status \in {"ok", "closed"}
    /\ marker \in Nat /\ given \in Seq([name : Nat, info : [id : Nat, dir : BOOLEAN, size : Nat]])
    /\ status \in {"idle", "running", "ok", "error"}
    /\ stack # <<>> <=> status = "running"
=============================================================================
