------------------------------ MODULE Watcher ------------------------------
(***************************************************************************)
(* apfs-mount --watch (crates/apfs-winfsp/src/main.rs, watch_loop): one    *)
(* thread polls the disk numbers below MAX_DISKS, drops the file-system    *)
(* hosts of disks that no longer answer, and mounts the volumes of disks   *)
(* that appeared, each on the first free drive letter.                     *)
(*                                                                         *)
(* The environment runs between any two steps of the loop: disks are       *)
(* plugged in and pulled out, other programs take and release letters, and *)
(* a read, a mount or a dispatcher start can fail although the disk is     *)
(* there.                                                                  *)
(*                                                                         *)
(* A disk is named by its ARRIVAL: pulling a disk out and plugging it in   *)
(* again is a second arrival with the same contents, because the handles   *)
(* opened on the first one stay dead.                                      *)
(***************************************************************************)
EXTENDS Integers, FiniteSets, Sequences

CONSTANTS
    MAX_DISKS,   \* disk numbers 0 .. MAX_DISKS - 1 are polled
    Arrivals,    \* the insertions of a disk that may happen
    NoDisk,      \* no disk at a disk number
    Layout,      \* Layout[a][p][v]: can volume v of APFS partition p be opened?
    Ports,       \* Ports[a]: the disk numbers the system may give arrival a
    Letters,     \* drive letters searched, as positive numbers (D = 4 .. Z = 26)
    TakenAtStart, \* those that belong to other programs when the loop starts
    MaxFaults,   \* bound: transient failures of a read, a mount or a start
    MaxForeign   \* bound: letters taken or released by other programs

Slots == 0 .. MAX_DISKS - 1

ASSUME DisksAssumption ==
    /\ MAX_DISKS \in Nat \ {0}
    /\ NoDisk \notin Arrivals
    /\ Layout \in [Arrivals -> Seq(Seq(BOOLEAN))]
    /\ Ports \in [Arrivals -> SUBSET Slots]

ASSUME LettersAssumption ==
    Letters \subseteq Nat \ {0} /\ TakenAtStart \subseteq Letters

ASSUME BoundsAssumption == MaxFaults \in Nat /\ MaxForeign \in Nat

(***************************************************************************)
(* A FileSystemHost always has exactly one owner in the code: the entry of *)
(* its disk in `mounted`, the vector `removed` from the map that is being  *)
(* dropped, the vector `hosts` being built, or the local variable of       *)
(* mount_volume between mount and start.  `hosts` maps owners to hosts.    *)
(***************************************************************************)
Building == MAX_DISKS
Mounting == MAX_DISKS + 1
Dropping == MAX_DISKS + 2
Owners   == 0 .. MAX_DISKS + 2

Host == [arrival : Arrivals, part : Nat, vol : Nat, letter : Letters]

VARIABLES
    attached,    \* disk number -> the arrival the system has there
    unused,      \* arrivals still to come
    letters,     \* letter -> "free", "ours" or "foreign"
    faults,      \* transient failures so far
    moves,       \* letters taken or released by other programs so far
    pc,          \* the loop's position
    keys,        \* the keys of the map `mounted`
    hosts,       \* owner -> the live hosts it owns
    toProbe,     \* keys of `mounted` the removal check has still to probe
    gone,        \* disk numbers found gone, not yet removed from the map
    n,           \* the disk number of the arrival check
    parts,       \* how many APFS partitions the GPT of disk n listed
    pi,          \* partition being opened, from 1
    cont,        \* the open container: the arrival and partition it reads
    vi,          \* volume being mounted, from 1
    letter       \* the letter chosen for it

(***************************************************************************)
(* What the properties have to remember; no guard reads it.                *)
(***************************************************************************)
VARIABLES
    misread,     \* members of `gone` whose probe failed for a reason of its own
    exchanged    \* arrivals plugged in at a number the loop still had the hosts
                 \* or the container of an earlier disk for

envVars  == <<attached, unused, moves, exchanged>>
scanVars == <<toProbe, gone, misread>>
diskVars == <<n, parts, pi, cont, vi, letter>>
vars == <<attached, unused, letters, faults, moves, pc, keys, hosts,
          toProbe, gone, n, parts, pi, cont, vi, letter, misread, exchanged>>

Init ==
    /\ attached = [s \in Slots |-> NoDisk]
    /\ unused = Arrivals
    /\ letters = [l \in Letters |-> IF l \in TakenAtStart THEN "foreign" ELSE "free"]
    /\ faults = 0 /\ moves = 0
    /\ pc = "loop"
    /\ keys = {}
    /\ hosts = [o \in Owners |-> {}]
    /\ toProbe = {} /\ gone = {} /\ misread = {} /\ exchanged = {}
    /\ n = 0 /\ parts = 0 /\ pi = 1 /\ vi = 1 /\ letter = 0
    /\ cont = [arrival |-> NoDisk, part |-> 0]

----------------------------------------------------------------------------
(* The environment.                                                        *)

Attached(a) == \E s \in Slots : attached[s] = a

\* The loop holds something of the last disk at number s and has not found it gone.
InHand(s) ==
    \/ hosts[s] # {} /\ s \notin gone
    \/ n = s /\ pc \in {"part", "vol", "new", "mount", "start"}

Plug(s, a) ==
    /\ a \in unused /\ s \in Ports[a]
    /\ attached[s] = NoDisk
    /\ attached' = [attached EXCEPT ![s] = a]
    /\ unused' = unused \ {a}
    /\ exchanged' = IF InHand(s) THEN exchanged \cup {a} ELSE exchanged
    /\ UNCHANGED <<letters, faults, moves, pc, keys, hosts, scanVars, diskVars>>

Unplug(s) ==
    /\ attached[s] # NoDisk
    /\ attached' = [attached EXCEPT ![s] = NoDisk]
    /\ UNCHANGED <<unused, exchanged, letters, faults, moves, pc, keys, hosts, scanVars, diskVars>>

\* Another program takes a free letter, or releases one of its own.
ForeignMove(l) ==
    /\ moves < MaxForeign
    /\ moves' = moves + 1
    /\ \/ letters[l] = "free" /\ letters' = [letters EXCEPT ![l] = "foreign"]
       \/ letters[l] = "foreign" /\ letters' = [letters EXCEPT ![l] = "free"]
    /\ UNCHANGED <<attached, unused, exchanged, faults, pc, keys, hosts, scanVars, diskVars>>

\* A call fails for a reason of its own, or it does not.
Fault   == faults < MaxFaults /\ faults' = faults + 1
NoFault == faults' = faults

----------------------------------------------------------------------------
(* 1. Removal check.                                                       *)

\* Mutated: the first disk number is never probed.
ProbeFromOne ==
    /\ pc = "loop"
    /\ toProbe' = keys \ {0}
    /\ gone' = {} /\ misread' = {}
    /\ pc' = "probe"
    /\ UNCHANGED <<envVars, letters, faults, keys, hosts, diskVars>>

StartRemovalCheck ==
    /\ pc = "loop"
    /\ toProbe' = keys
    /\ gone' = {} /\ misread' = {}
    /\ pc' = "probe"
    /\ UNCHANGED <<envVars, letters, faults, keys, hosts, diskVars>>

\* disk_present(s): the disk number opens and its first 4096 bytes read.
DiskPresent(s) ==
    /\ pc = "probe" /\ s \in toProbe
    /\ attached[s] # NoDisk
    /\ NoFault
    /\ toProbe' = toProbe \ {s}
    /\ UNCHANGED <<envVars, letters, pc, keys, hosts, gone, misread, diskVars>>

\* Mutated: the first failed probe ends the check and stands for the rest.
AllGone(s) ==
    /\ pc = "probe" /\ s \in toProbe
    /\ \/ attached[s] = NoDisk /\ NoFault /\ misread' = misread
       \/ Fault /\ misread' = misread \cup {s}
    /\ toProbe' = {}
    /\ gone' = gone \cup toProbe
    /\ UNCHANGED <<envVars, letters, pc, keys, hosts, diskVars>>

DiskGone(s) ==
    /\ pc = "probe" /\ s \in toProbe
    /\ \/ attached[s] = NoDisk /\ NoFault /\ misread' = misread
       \/ Fault /\ misread' = misread \cup {s}
    /\ toProbe' = toProbe \ {s}
    /\ gone' = gone \cup {s}
    /\ UNCHANGED <<envVars, letters, pc, keys, hosts, diskVars>>

EndProbe ==
    /\ pc = "probe" /\ toProbe = {}
    /\ pc' = "remove"
    /\ UNCHANGED <<envVars, letters, faults, keys, hosts, scanVars, diskVars>>

\* mounted.remove(&s): the hosts of s become the vector being dropped.
Remove(s) ==
    /\ pc = "remove" /\ s \in gone
    /\ hosts[Dropping] = {}
    /\ gone' = gone \ {s} /\ misread' = misread \ {s}
    /\ keys' = keys \ {s}
    /\ hosts' = [hosts EXCEPT ![Dropping] = hosts[s], ![s] = {}]
    /\ UNCHANGED <<envVars, letters, faults, pc, toProbe, diskVars>>

\* drop(host) stops the dispatcher and unmounts, which frees the letter.
Drop(h) ==
    /\ pc = "remove" /\ h \in hosts[Dropping]
    /\ hosts' = [hosts EXCEPT ![Dropping] = @ \ {h}]
    /\ letters' = [letters EXCEPT ![h.letter] = "free"]
    /\ UNCHANGED <<envVars, faults, pc, keys, scanVars, diskVars>>

StartArrivalCheck ==
    /\ pc = "remove" /\ gone = {} /\ hosts[Dropping] = {}
    /\ pc' = "disk"
    /\ n' = 0
    /\ UNCHANGED <<envVars, letters, faults, keys, hosts, scanVars, parts, pi, cont, vi, letter>>

----------------------------------------------------------------------------
(* 2. Arrival check: for n in 0..MAX_DISKS.  After the last number the     *)
(* thread sleeps POLL_INTERVAL and starts over.                            *)

\* Mutated: the disk number is not reset for the next poll.
NextDiskNoReset ==
    /\ n' = n + 1
    /\ pc' = IF n + 1 = MAX_DISKS THEN "loop" ELSE "disk"

NextDisk ==
    /\ n' = IF n + 1 = MAX_DISKS THEN 0 ELSE n + 1
    /\ pc' = IF n + 1 = MAX_DISKS THEN "loop" ELSE "disk"

SkipMounted ==
    /\ pc = "disk" /\ n \in keys
    /\ NextDisk
    /\ UNCHANGED <<envVars, letters, faults, keys, hosts, scanVars, parts, pi, cont, vi, letter>>

\* The disk does not open, its GPT does not read, or lists no APFS partition.
SkipUnusable ==
    /\ pc = "disk" /\ n \notin keys
    /\ \/ attached[n] = NoDisk /\ NoFault
       \/ attached[n] # NoDisk /\ Layout[attached[n]] = <<>> /\ NoFault
       \/ Fault
    /\ NextDisk
    /\ UNCHANGED <<envVars, letters, keys, hosts, scanVars, parts, pi, cont, vi, letter>>

\* Mutated: a disk that is mounted is looked at again.
ReadPartitionsAgain ==
    /\ pc = "disk"
    /\ attached[n] # NoDisk /\ Layout[attached[n]] # <<>>
    /\ parts' = Len(Layout[attached[n]])
    /\ pi' = 1
    /\ pc' = "part"
    /\ UNCHANGED <<envVars, letters, faults, keys, hosts, scanVars, n, cont, vi, letter>>

\* The partition list is copied; the handle it was read through is not used again.
ReadPartitions ==
    /\ pc = "disk" /\ n \notin keys
    /\ attached[n] # NoDisk /\ Layout[attached[n]] # <<>>
    /\ parts' = Len(Layout[attached[n]])
    /\ pi' = 1
    /\ pc' = "part"
    /\ UNCHANGED <<envVars, letters, faults, keys, hosts, scanVars, n, cont, vi, letter>>

(***************************************************************************)
(* Each partition opens the PATH of disk n again, so it reads whatever     *)
(* disk has that number by now, at the bounds the earlier GPT gave.        *)
(* Partitions with the same index are taken to lie at the same bounds.     *)
(***************************************************************************)
OpenContainer ==
    /\ pc = "part" /\ pi <= parts
    /\ attached[n] # NoDisk
    /\ pi <= Len(Layout[attached[n]])
    /\ cont' = [arrival |-> attached[n], part |-> pi]
    /\ vi' = 1
    /\ pc' = "vol"
    /\ UNCHANGED <<envVars, letters, faults, keys, hosts, scanVars, n, parts, pi, letter>>

SkipPartition ==
    /\ pc = "part" /\ pi <= parts
    /\ \/ attached[n] = NoDisk /\ NoFault
       \/ attached[n] # NoDisk /\ pi > Len(Layout[attached[n]]) /\ NoFault
       \/ Fault
    /\ pi' = pi + 1
    /\ UNCHANGED <<envVars, letters, pc, keys, hosts, scanVars, n, parts, cont, vi, letter>>

Volumes(a, p) == IF a \in Arrivals /\ p \in 1 .. Len(Layout[a]) THEN Layout[a][p] ELSE <<>>

\* Container::volume(v) through the handle the container holds.
VolumeOpens(v) == Attached(cont.arrival) /\ Volumes(cont.arrival, cont.part)[v]

InVolumes == pc = "vol" /\ vi <= Len(Volumes(cont.arrival, cont.part))

\* Encrypted, sealed or unreadable: skipped.
SkipVolume ==
    /\ InVolumes
    /\ (~ VolumeOpens(vi) /\ NoFault) \/ Fault
    /\ vi' = vi + 1
    /\ UNCHANGED <<envVars, letters, pc, keys, hosts, scanVars, n, parts, pi, cont, letter>>

FreeLetters == {l \in Letters : letters[l] = "free"}

\* drives::next_free_letter: the first letter not in the mask of used ones.
NextFreeLetter ==
    /\ InVolumes /\ VolumeOpens(vi)
    /\ \E l \in FreeLetters :
         /\ \A m \in FreeLetters : l <= m
         /\ letter' = l
    /\ pc' = "new"
    /\ UNCHANGED <<envVars, letters, faults, keys, hosts, scanVars, n, parts, pi, cont, vi>>

\* `break` leaves the loop over this container's volumes only.
NoLetterLeft ==
    /\ InVolumes /\ VolumeOpens(vi)
    /\ FreeLetters = {}
    /\ pi' = pi + 1
    /\ pc' = "part"
    /\ UNCHANGED <<envVars, letters, faults, keys, hosts, scanVars, n, parts, cont, vi, letter>>

\* mount_volume: ApfsFilesystem::new reads the volume again, then the host is made.
NewFilesystem ==
    /\ pc = "new"
    /\ Attached(cont.arrival)
    /\ pc' = "mount"
    /\ UNCHANGED <<envVars, letters, faults, keys, hosts, scanVars, diskVars>>

NewFilesystemFails ==
    /\ pc = "new"
    /\ (~ Attached(cont.arrival) /\ NoFault) \/ Fault
    /\ vi' = vi + 1
    /\ pc' = "vol"
    /\ UNCHANGED <<envVars, letters, keys, hosts, scanVars, n, parts, pi, cont, letter>>

NewHost == [arrival |-> cont.arrival, part |-> cont.part, vol |-> vi, letter |-> letter]

\* host.mount: the system refuses a letter somebody took since it was chosen.
Mount ==
    /\ pc = "mount" /\ letters[letter] = "free"
    /\ letters' = [letters EXCEPT ![letter] = "ours"]
    /\ hosts' = [hosts EXCEPT ![Mounting] = {NewHost}]
    /\ pc' = "start"
    /\ UNCHANGED <<envVars, faults, keys, scanVars, diskVars>>

MountFails ==
    /\ pc = "mount"
    /\ (letters[letter] # "free" /\ NoFault) \/ Fault
    /\ vi' = vi + 1
    /\ pc' = "vol"
    /\ UNCHANGED <<envVars, letters, keys, hosts, scanVars, n, parts, pi, cont, letter>>

\* host.start succeeds: mount_volume returns the host and it is pushed.
Start ==
    /\ pc = "start"
    /\ hosts' = [hosts EXCEPT ![Mounting] = {}, ![Building] = @ \cup hosts[Mounting]]
    /\ vi' = vi + 1
    /\ pc' = "vol"
    /\ UNCHANGED <<envVars, letters, faults, keys, scanVars, n, parts, pi, cont, letter>>

\* Mutated: the mounted host is forgotten without being unmounted.
StartFailsLeaks ==
    /\ pc = "start" /\ Fault
    /\ hosts' = [hosts EXCEPT ![Mounting] = {}]
    /\ vi' = vi + 1
    /\ pc' = "vol"
    /\ UNCHANGED <<envVars, letters, keys, scanVars, n, parts, pi, cont, letter>>

\* host.start fails: `?` drops the mounted host, which unmounts it.
StartFails ==
    /\ pc = "start" /\ Fault
    /\ hosts' = [hosts EXCEPT ![Mounting] = {}]
    /\ letters' = [letters EXCEPT ![letter] = "free"]
    /\ vi' = vi + 1
    /\ pc' = "vol"
    /\ UNCHANGED <<envVars, keys, scanVars, n, parts, pi, cont, letter>>

\* Mutated: only the first container of a disk is mounted.
EndVolumesLeaves ==
    /\ pc = "vol" /\ vi > Len(Volumes(cont.arrival, cont.part))
    /\ pi' = parts + 1
    /\ pc' = "part"
    /\ UNCHANGED <<envVars, letters, faults, keys, hosts, scanVars, n, parts, cont, vi, letter>>

EndVolumes ==
    /\ pc = "vol" /\ vi > Len(Volumes(cont.arrival, cont.part))
    /\ pi' = pi + 1
    /\ pc' = "part"
    /\ UNCHANGED <<envVars, letters, faults, keys, hosts, scanVars, n, parts, cont, vi, letter>>

\* Mutated: the disk is entered in the map although nothing was mounted.
EndDiskAlways ==
    /\ pc = "part" /\ pi > parts
    /\ keys' = keys \cup {n}
    /\ hosts' = [hosts EXCEPT ![n] = hosts[Building], ![Building] = {}]
    /\ NextDisk
    /\ UNCHANGED <<envVars, letters, faults, scanVars, parts, pi, cont, vi, letter>>

\* if !hosts.is_empty() { mounted.insert(n, hosts) }
EndDisk ==
    /\ pc = "part" /\ pi > parts
    /\ IF hosts[Building] = {}
         THEN UNCHANGED <<keys, hosts>>
         ELSE /\ keys' = keys \cup {n}
              /\ hosts' = [hosts EXCEPT ![n] = hosts[Building], ![Building] = {}]
    /\ NextDisk
    /\ UNCHANGED <<envVars, letters, faults, scanVars, parts, pi, cont, vi, letter>>

----------------------------------------------------------------------------
RemovalCheck ==
    \/ StartRemovalCheck \/ EndProbe \/ StartArrivalCheck
    \/ \E s \in Slots : DiskPresent(s) \/ DiskGone(s) \/ Remove(s)
    \/ \E h \in hosts[Dropping] : Drop(h)

ArrivalCheck ==
    \/ SkipMounted \/ SkipUnusable \/ ReadPartitions
    \/ OpenContainer \/ SkipPartition
    \/ SkipVolume \/ NextFreeLetter \/ NoLetterLeft
    \/ NewFilesystem \/ NewFilesystemFails \/ Mount \/ MountFails
    \/ Start \/ StartFails \/ EndVolumes \/ EndDisk

WatchLoop == RemovalCheck \/ ArrivalCheck

Environment ==
    \/ \E s \in Slots : Unplug(s) \/ \E a \in Arrivals : Plug(s, a)
    \/ \E l \in Letters : ForeignMove(l)

Next == WatchLoop \/ Environment

\* The loop's thread keeps running; nothing obliges the environment to act.
Spec == Init /\ [][Next]_vars /\ WF_vars(WatchLoop)

----------------------------------------------------------------------------
\* The volumes of a that open, as <<partition, volume>>.
Openable(a) ==
    UNION {{<<p, v>> : v \in {w \in 1 .. Len(Layout[a][p]) : Layout[a][p][w]}} :
           p \in 1 .. Len(Layout[a])}

(* What a user sees of the state: letter -> nothing, another program's     *)
(* volume, or the volume behind it.                                        *)
HostOf(l) == CHOOSE h \in UNION {hosts[o] : o \in Owners} : h.letter = l

Shown == [l \in Letters |->
            CASE letters[l] = "free"    -> <<>>
              [] letters[l] = "foreign" -> <<"foreign">>
              [] letters[l] = "ours"    ->
                   <<HostOf(l).arrival, HostOf(l).part, HostOf(l).vol>>]

AllVolumes == UNION {{<<a, pv[1], pv[2]>> : pv \in Openable(a)} : a \in Arrivals}

Promise == INSTANCE DriveLetters
             WITH VolumeSet <- AllVolumes, Free <- <<>>, Foreign <- <<"foreign">>,
                  shown <- Shown

(* The watcher implements DriveLetters: a letter goes from free to a       *)
(* volume that opens and that no other letter shows, and from a volume     *)
(* back to free, in single steps; a letter of another program is never     *)
(* touched (main.rs:255-300, 330-335).                                     *)
ImplementsDriveLetters == Promise!Spec

----------------------------------------------------------------------------
(* Type invariant of the loop and its environment (main.rs:225-304).       *)
TypeOK ==
    /\ attached \in [Slots -> Arrivals \cup {NoDisk}]
    /\ unused \subseteq Arrivals
    /\ letters \in [Letters -> {"free", "ours", "foreign"}]
    /\ faults \in 0 .. MaxFaults /\ moves \in 0 .. MaxForeign
    /\ pc \in {"loop", "probe", "remove", "disk", "part", "vol", "new", "mount", "start"}
    /\ keys \subseteq Slots /\ toProbe \subseteq Slots /\ gone \subseteq Slots
    /\ misread \subseteq gone /\ exchanged \subseteq Arrivals
    /\ hosts \in [Owners -> SUBSET Host]
    /\ n \in Slots /\ parts \in Nat /\ pi \in Nat /\ vi \in Nat
    /\ cont \in [arrival : Arrivals \cup {NoDisk}, part : Nat]
    /\ letter \in Letters \cup {0}

(* Every letter the system shows as ours belongs to exactly one live host, *)
(* and every live host has its letter: no letter leaks when a mount or a   *)
(* start fails half-way or a disk disappears while its volumes are being   *)
(* mounted, and no two hosts share one (mount_volume, main.rs:113-153).    *)
LetterAccounting ==
    /\ \A o, q \in Owners : \A h \in hosts[o], g \in hosts[q] :
          h.letter = g.letter => o = q /\ h = g
    /\ \A l \in Letters :
          letters[l] = "ours" <=> \E o \in Owners : \E h \in hosts[o] : h.letter = l

(* The map's keys are exactly the disk numbers that own hosts, so a disk   *)
(* whose mounts all failed is tried again at the next poll, and one that   *)
(* has a host is not mounted a second time (main.rs:257, 297-299).         *)
KeysOwnHosts == keys = {s \in Slots : hosts[s] # {}}

(* A volume that was mounted and started loses its letter only because     *)
(* its disk is out, or because the probe of its own disk number in this    *)
(* very removal check failed (main.rs:241-253): another disk's removal or  *)
(* failed probe, an earlier failure of any call, its disk number being     *)
(* given to somebody else later, and, while the rest of its disk is still  *)
(* being mounted, a volume or partition that fails or letters that run out *)
(* (`break`, main.rs:281-299) never take it away.                          *)
Running == Slots \cup {Building}

DroppedOnlyWhenGone ==
    [][\A o \in Running : \A h \in hosts[o] :
          \/ \E q \in Running : h \in hosts'[q]
          \/ o \in misread
          \/ ~ Attached(h.arrival)]_vars

(* Once a disk number stays empty, the letters of everything mounted under *)
(* it go away, also when the disk left in the middle of being mounted      *)
(* (main.rs:240-253).                                                      *)
EmptySlotReleased ==
    \A s \in Slots : <>[](attached[s] = NoDisk) => <>[](hosts[s] = {})

(* A disk that stays in, has a volume that opens and finds a free letter   *)
(* gets a live host of its own after finitely many polls, whatever failed  *)
(* before (main.rs:256-300).  The one exception is a disk that was put in  *)
(* the place of another one which the loop was still holding: main.rs:257  *)
(* skips it, in every behaviour that violates UnpluggedUnmounted.          *)
StableDiskServed ==
    \A s \in Slots, a \in Arrivals :
        <>[](attached[s] = a /\ a \notin exchanged /\ Openable(a) # {} /\ FreeLetters # {})
            => <>[](\E h \in hosts[s] : h.arrival = a)

(* The code keeps its promise for a disk that is alone at its number while *)
(* no call fails and no other program moves letters: every volume of it    *)
(* that opens gets a letter as long as one stays free, on every partition  *)
(* and beside volumes that do not open (main.rs:256-300).                  *)
FaultlessArrivalMounted ==
    \A s \in Slots, a \in Arrivals :
        (/\ [](faults = 0 /\ moves = 0 /\ FreeLetters # {})
         /\ [](attached[s] \in {a, NoDisk})
         /\ <>[](attached[s] = a))
            => <>[](\A pv \in Openable(a) :
                    \E h \in hosts[s] : h.arrival = a /\ <<h.part, h.vol>> = pv)

(* The module's promise (main.rs:11-14, "mounts every unencrypted volume   *)
(* to the next free drive letter as drives arrive"): each volume of a disk *)
(* that stays in and that opens gets a letter, if a letter stays free.     *)
EveryVolumeMounted ==
    \A s \in Slots, a \in Arrivals :
        <>[](attached[s] = a /\ FreeLetters # {}) =>
            <>[](\A pv \in Openable(a) :
                    \E h \in hosts[s] : h.arrival = a /\ <<h.part, h.vol>> = pv)

(* The other half of it ("and unmounts them when the drive is unplugged"): *)
(* the letters of an unplugged disk go away.                               *)
UnpluggedUnmounted ==
    \A a \in Arrivals :
        <>[](~ Attached(a)) => <>[](\A o \in Owners : \A h \in hosts[o] : h.arrival # a)
============================================================================
