---------------------------- MODULE DriveLetters ----------------------------
(***************************************************************************)
(* What the automounter promises a user (README.md, "insert a Mac drive,   *)
(* get a drive letter"): each letter is free, shows another program's      *)
(* volume, or shows one volume of an inserted disk; a volume has at most   *)
(* one letter.  Disks, polling and failures are not part of it.            *)
(***************************************************************************)
CONSTANTS
    Letters,    \* the drive letters
    VolumeSet,    \* the volumes that may be shown
    Free,       \* a letter that shows nothing
    Foreign     \* a letter that belongs to another program

VARIABLE shown  \* letter -> Free, Foreign or a volume

Init == shown \in [Letters -> {Free, Foreign}]

\* A volume that has no letter gets a free one.
Show(l, v) ==
    /\ shown[l] = Free
    /\ \A m \in Letters : shown[m] # v
    /\ shown' = [shown EXCEPT ![l] = v]

\* A volume loses its letter.
Hide(l) ==
    /\ shown[l] \in VolumeSet
    /\ shown' = [shown EXCEPT ![l] = Free]

\* Another program takes a free letter or gives one back.
Take(l) == shown[l] = Free /\ shown' = [shown EXCEPT ![l] = Foreign]
Release(l) == shown[l] = Foreign /\ shown' = [shown EXCEPT ![l] = Free]

Next == \E l \in Letters :
            Hide(l) \/ Take(l) \/ Release(l) \/ \E v \in VolumeSet : Show(l, v)

Spec == Init /\ [][Next]_shown
=============================================================================
