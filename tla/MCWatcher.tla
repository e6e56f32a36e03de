----------------------------- MODULE MCWatcher -----------------------------
(* Instances of Watcher for TLC.                                           *)
EXTENDS Watcher, TLC

CONSTANTS a1, a2

\* a1 has two partitions (three volumes, one of them encrypted); a2 has one.
TwoDisks == a1 :> <<<<TRUE, FALSE>>, <<TRUE>>>> @@ a2 :> <<<<TRUE>>>>

\* Both disks may get number 0, one after the other.
SharedPort == a1 :> {0} @@ a2 :> {0, 1}

\* One disk with an encrypted volume between two that open.
OneDisk == a1 :> <<<<TRUE, FALSE, TRUE>>>>
OnePort == a1 :> {0}
=============================================================================
