----------------------------- MODULE FileDevice -----------------------------
(***************************************************************************)
(* Reading a device (crates/apfs-core/src/device.rs): a SliceDevice, the   *)
(* window of one partition, over a FileDevice, the file or raw disk.  A    *)
(* raw disk only takes reads that start and end on sector boundaries, so   *)
(* FileDevice widens each read to sectors into a bounce buffer; it starts  *)
(* with the small sector size and changes to the large one, for good, when *)
(* the system refuses a read with os error 87.                             *)
(*                                                                         *)
(* Every thread that serves requests reads through the same device; a      *)
(* mutex is held from the first system call of a read to the last.         *)
(***************************************************************************)
EXTENDS Integers, Sequences, SequencesExt, FiniteSetsExt

CONSTANTS
    Threads,     \* threads that read
    NoThread,    \* the mutex is free
    Small, Big,  \* the two sector sizes (512 and 4096 in the code)
    Devices,     \* the devices there may be, see DeviceType
    MaxErrors    \* bound: reads the system fails although they are legal

(***************************************************************************)
(* A device: `sector` is the size of its sectors, 0 for a regular file;    *)
(* `raw` whether its path begins with \\.\ or \\?\, as the path of every    *)
(* disk does and that of a file may; `size` its length in bytes, a whole   *)
(* number of sectors (of small ones, for a file with such a path); the     *)
(* partition is the bytes from `start` to `start + part`, 0 and `size` for *)
(* a container that is not in a partition.                                 *)
(***************************************************************************)
DeviceType ==
    [sector : {0, Small, Big}, raw : BOOLEAN, size : Nat, start : Nat, part : Nat]

ASSUME SectorAssumption ==
    /\ Small \in Nat \ {0} /\ Big \in Nat /\ Small < Big /\ Big % Small = 0

ASSUME DeviceAssumption ==
    /\ Devices \subseteq DeviceType /\ NoThread \notin Threads /\ MaxErrors \in Nat
    /\ \A d \in Devices :
          /\ d.start + d.part <= d.size
          /\ d.sector # 0 => d.raw /\ d.size % d.sector = 0
          /\ d.raw /\ d.sector = 0 => d.size % Small = 0

VARIABLES
    dev,      \* the device
    align,    \* 0 for the plain path of a file, else the guess of the sector size
    mutex,    \* the thread that holds the mutex
    errors,   \* legal reads failed so far
    dpc,      \* thread -> "idle", "lock", "read", "ok" or "err"
    ask,      \* thread -> what it reads: offset in the partition, and length
    guess,    \* thread -> the alignment of the read in progress
    done,     \* thread -> bytes of the (bounce) buffer filled so far
    got       \* thread -> the bytes read; a byte is named by its address

devVars == <<dev, align, mutex, errors, dpc, ask, guess, done, got>>

DeviceInit ==
    /\ dev \in Devices
    /\ align = IF dev.raw THEN Small ELSE 0
    /\ mutex = NoThread
    /\ errors = 0
    /\ dpc = [t \in Threads |-> "idle"]
    /\ ask = [t \in Threads |-> [off |-> 0, len |-> 0]]
    /\ guess = [t \in Threads |-> 0]
    /\ done = [t \in Threads |-> 0]
    /\ got = [t \in Threads |-> <<>>]

\* SliceDevice::read_at: nothing past the partition's end is ever asked for.
CallRead(t, off, len) ==
    /\ dpc[t] = "idle"
    /\ ask' = [ask EXCEPT ![t] = [off |-> off, len |-> len]]
    /\ dpc' = [dpc EXCEPT ![t] = IF off + len > dev.part THEN "err" ELSE "lock"]
    /\ UNCHANGED <<dev, align, mutex, errors, guess, done, got>>

\* FileDevice::read_at: lock, then load the alignment.
Lock(t) ==
    /\ dpc[t] = "lock" /\ mutex = NoThread
    /\ mutex' = t
    /\ guess' = [guess EXCEPT ![t] = align]
    /\ done' = [done EXCEPT ![t] = 0]
    /\ dpc' = [dpc EXCEPT ![t] = "read"]
    /\ UNCHANGED <<dev, align, errors, ask, got>>

(* The window the system is asked for: the wanted bytes, or the sectors    *)
(* that hold them (read_aligned).                                          *)
Wanted(t) == dev.start + ask[t].off
WantedEnd(t) == Wanted(t) + ask[t].len
From(t) == IF guess[t] = 0 THEN Wanted(t) ELSE Wanted(t) - (Wanted(t) % guess[t])
To(t) == IF guess[t] = 0 THEN WantedEnd(t)
         ELSE ((WantedEnd(t) + guess[t] - 1) \div guess[t]) * guess[t]

\* The next call of read_exact_at's loop, and whether the system takes it.
Pos(t) == From(t) + done[t]
Refused(t) == dev.sector # 0 /\ (Pos(t) % dev.sector # 0 \/ To(t) % dev.sector # 0)
Reading(t) == dpc[t] = "read" /\ mutex = t /\ Pos(t) < To(t)

\* A read returns some of the bytes asked for, of a raw device whole sectors.
ReadSome(t) ==
    /\ Reading(t) /\ ~ Refused(t)
    /\ \E n \in 1 .. To(t) - Pos(t) :
         /\ Pos(t) + n <= dev.size
         /\ dev.sector # 0 => n % dev.sector = 0
         /\ done' = [done EXCEPT ![t] = @ + n]
    /\ UNCHANGED <<dev, align, mutex, errors, dpc, ask, guess, got>>

Unlock(t) == mutex = t /\ mutex' = NoThread

\* seek_read returns 0: the end of the device.
ReadNothing(t) ==
    /\ Reading(t) /\ ~ Refused(t) /\ Pos(t) >= dev.size
    /\ dpc' = [dpc EXCEPT ![t] = "err"]
    /\ Unlock(t)
    /\ UNCHANGED <<dev, align, errors, ask, guess, done, got>>

\* os error 87 with the small guess: remember the large one and read again.
Escalate(t) ==
    /\ Reading(t) /\ Refused(t) /\ guess[t] < Big /\ guess[t] # 0
    /\ align' = Big
    /\ guess' = [guess EXCEPT ![t] = Big]
    /\ done' = [done EXCEPT ![t] = 0]
    /\ UNCHANGED <<dev, mutex, errors, dpc, ask, got>>

\* Any other error, and error 87 with the large guess, goes to the caller.
ReadFails(t) ==
    /\ Reading(t)
    /\ \/ Refused(t) /\ ~ (guess[t] < Big /\ guess[t] # 0) /\ errors' = errors
       \/ errors < MaxErrors /\ errors' = errors + 1
    /\ dpc' = [dpc EXCEPT ![t] = "err"]
    /\ Unlock(t)
    /\ UNCHANGED <<dev, align, ask, guess, done, got>>

\* Mutated: the bounce buffer is copied from its beginning.
CopyFromStart(t) ==
    /\ dpc[t] = "read" /\ mutex = t /\ Pos(t) >= To(t)
    /\ LET bounce == [k \in 1 .. To(t) - From(t) |-> From(t) + k - 1]
       IN  got' = [got EXCEPT ![t] = SubSeq(bounce, 1, ask[t].len)]
    /\ dpc' = [dpc EXCEPT ![t] = "ok"]
    /\ Unlock(t)
    /\ UNCHANGED <<dev, align, errors, ask, guess, done>>

\* The wanted bytes are copied out of the buffer.
CopyOut(t) ==
    /\ dpc[t] = "read" /\ mutex = t /\ Pos(t) >= To(t)
    /\ LET bounce == [k \in 1 .. To(t) - From(t) |-> From(t) + k - 1]
           lo == Wanted(t) - From(t)
       IN  got' = [got EXCEPT ![t] = SubSeq(bounce, lo + 1, lo + ask[t].len)]
    /\ dpc' = [dpc EXCEPT ![t] = "ok"]
    /\ Unlock(t)
    /\ UNCHANGED <<dev, align, errors, ask, guess, done>>

DeviceStep(t) ==
    \/ Lock(t) \/ ReadSome(t) \/ ReadNothing(t)
    \/ Escalate(t) \/ ReadFails(t) \/ CopyOut(t)

\* The caller takes the result.
EndRead(t) ==
    /\ dpc[t] \in {"ok", "err"}
    /\ dpc' = [dpc EXCEPT ![t] = "idle"]
    /\ UNCHANGED <<dev, align, mutex, errors, ask, guess, done, got>>

\* The device on its own, asked for anything.
DeviceNext == \E t \in Threads :
    \/ DeviceStep(t) \/ EndRead(t)
    \/ \E off, len \in Nat : CallRead(t, off, len)

DeviceSpec == DeviceInit /\ [][DeviceNext]_devVars

----------------------------------------------------------------------------
(* Type invariant of the device and its readers.                           *)
DeviceTypeOK ==
    /\ dev \in Devices
    /\ align \in {0, Small, Big}
    /\ mutex \in Threads \cup {NoThread}
    /\ errors \in 0 .. MaxErrors
    /\ dpc \in [Threads -> {"idle", "lock", "read", "ok", "err"}]
    /\ ask \in [Threads -> [off : Nat, len : Nat]]
    /\ guess \in [Threads -> {0, Small, Big}]
    /\ done \in [Threads -> Nat]
    /\ got \in [Threads -> Seq(Nat)]

(* "Read exactly buf.len() bytes starting at absolute offset" (device.rs:  *)
(* 16): a read that succeeds returned precisely the asked bytes of the     *)
(* partition, whatever the alignment, the sector size found by another     *)
(* thread meanwhile, and the pieces in which the system delivered them.    *)
ReadsExactly ==
    \A t \in Threads : dpc[t] = "ok" =>
        got[t] = [k \in 1 .. ask[t].len |-> dev.start + ask[t].off + k - 1]

(* A read inside the partition fails only if the system fails a legal      *)
(* read: widening never asks beyond the end of the disk, on either sector  *)
(* size, and the guess is corrected before the caller sees an error        *)
(* (device.rs:51-83).                                                      *)
InRangeServed ==
    \A t \in Threads :
        dpc[t] = "err" /\ errors = 0 => ask[t].off + ask[t].len > dev.part

(* The guess is the large sector size only on a disk that has large        *)
(* sectors, so disks with small ones stay readable to their last sector,   *)
(* and a read never works with a guess another thread has overtaken.       *)
GuessSettles ==
    /\ align = Big => dev.sector = Big
    /\ \A t \in Threads : mutex = t => guess[t] = align
=============================================================================
