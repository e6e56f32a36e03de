--------------------------- MODULE WatcherProofs ---------------------------
(***************************************************************************)
(* Proofs about Watcher, for any number of disks, letters, volumes and     *)
(* failures: no letter leaks or is shared, the map's keys are the disks    *)
(* that own hosts, a running volume is dropped only for a reason, and the  *)
(* watcher implements DriveLetters.                                        *)
(***************************************************************************)
EXTENDS Watcher, TLAPS

(* From the open container on, a host may be under way for disk n.         *)
Busy == {"part", "vol", "new", "mount", "start"}

(* Where the loop can be while a host has an owner outside the map: a host *)
(* is with mount_volume only between mount and start, in the vector only   *)
(* while disk n, which is not in the map, is handled, and being dropped    *)
(* only in the removal check.                                              *)
OwnersInv ==
    /\ hosts[Mounting] = IF pc = "start" THEN {NewHost} ELSE {}
    /\ pc # "remove" => hosts[Dropping] = {}
    /\ pc \notin Busy => hosts[Building] = {}
    /\ pc \in Busy => n \notin keys

(* What the loop's local variables are at each place.                      *)
LocalsInv ==
    /\ toProbe \subseteq keys /\ gone \subseteq keys
    /\ pc # "probe" => toProbe = {}
    /\ pc \notin {"probe", "remove"} => gone = {}
    /\ pc \in Busy \ {"part"} => cont.arrival \in Arrivals
    /\ pc \in {"new", "mount", "start"} => letter \in Letters

IInv == TypeOK /\ OwnersInv /\ LocalsInv /\ LetterAccounting /\ KeysOwnHosts

(* The owners are pairwise different and no slot is one of the last three. *)
LEMMA OwnersDistinct ==
    /\ Building \in Owners /\ Mounting \in Owners /\ Dropping \in Owners
    /\ Building # Mounting /\ Building # Dropping /\ Mounting # Dropping
    /\ \A s \in Slots : s \in Owners /\ s # Building /\ s # Mounting /\ s # Dropping
    /\ \A o \in Owners : o \in Slots \/ o \in {Building, Mounting, Dropping}
BY DisksAssumption DEF Building, Mounting, Dropping, Owners, Slots

LEMMA InitInv == Init => IInv
<1> SUFFICES ASSUME Init PROVE IInv
    OBVIOUS
<1>1. TypeOK
  BY DisksAssumption, LettersAssumption, BoundsAssumption, OwnersDistinct
     DEF Init, TypeOK, Slots
<1>2. OwnersInv /\ LocalsInv /\ KeysOwnHosts
  BY OwnersDistinct DEF Init, OwnersInv, LocalsInv, KeysOwnHosts, Busy
<1>3. LetterAccounting
  BY DEF Init, LetterAccounting
<1> QED
  BY <1>1, <1>2, <1>3 DEF IInv

(* A step that moves no host and no letter of ours, and no key.            *)
LEMMA Still ==
    ASSUME IInv, UNCHANGED <<keys, hosts>>,
           \A l \in Letters : letters'[l] = "ours" <=> letters[l] = "ours"
    PROVE  LetterAccounting' /\ KeysOwnHosts'
BY DEF IInv, LetterAccounting, KeysOwnHosts

(* Moving all hosts of one owner to another keeps the letters accounted.   *)
LEMMA Transfer ==
    ASSUME LetterAccounting, NEW from \in Owners, NEW to \in Owners, letters' = letters,
           \A o \in Owners : hosts'[o] = IF o = from THEN {}
                                         ELSE IF o = to THEN hosts[to] \cup hosts[from]
                                         ELSE hosts[o],
           from # to
    PROVE  LetterAccounting'
<1> DEFINE Moved(o) == IF o = from THEN to ELSE o
<1>1. \A o \in Owners : \A h \in hosts'[o] :
         \E p \in Owners : h \in hosts[p] /\ o = Moved(p)
  OBVIOUS
<1>2. \A p \in Owners : Moved(p) \in Owners /\ \A h \in hosts[p] : h \in hosts'[Moved(p)]
  OBVIOUS
<1>3. ASSUME NEW o \in Owners, NEW q \in Owners, NEW h \in hosts'[o], NEW g \in hosts'[q],
             h.letter = g.letter
      PROVE  o = q /\ h = g
  <2>1. PICK p \in Owners : h \in hosts[p] /\ o = Moved(p)
    BY <1>1
  <2>2. PICK r \in Owners : g \in hosts[r] /\ q = Moved(r)
    BY <1>1
  <2>3. p = r /\ h = g
    BY <1>3, <2>1, <2>2 DEF LetterAccounting
  <2> QED  BY <2>1, <2>2, <2>3
<1>4. ASSUME NEW l \in Letters
      PROVE  (\E o \in Owners : \E h \in hosts'[o] : h.letter = l)
                <=> (\E o \in Owners : \E h \in hosts[o] : h.letter = l)
  <2> HIDE DEF Moved
  <2> QED  BY <1>1, <1>2
<1> QED
  BY <1>3, <1>4 DEF LetterAccounting

(* Giving up one host together with its letter does too.                   *)
LEMMA Release ==
    ASSUME LetterAccounting, NEW from \in Owners, NEW h \in hosts[from], h.letter \in Letters,
           \A o \in Owners : hosts'[o] = IF o = from THEN hosts[o] \ {h} ELSE hosts[o],
           \A l \in Letters : letters'[l] = IF l = h.letter THEN "free" ELSE letters[l]
    PROVE  LetterAccounting'
<1>1. ASSUME NEW o \in Owners, NEW g \in hosts'[o]
      PROVE  g \in hosts[o] /\ g.letter # h.letter
  <2>1. g \in hosts[o] /\ (o = from => g # h)
    OBVIOUS
  <2>2. g.letter = h.letter => o = from /\ g = h
    BY <2>1 DEF LetterAccounting
  <2> QED  BY <2>1, <2>2
<1>2. \A o \in Owners : \A g \in hosts[o] : g.letter # h.letter => g \in hosts'[o]
  OBVIOUS
<1>3. \A o, q \in Owners : \A g \in hosts'[o], k \in hosts'[q] :
         g.letter = k.letter => o = q /\ g = k
  BY <1>1 DEF LetterAccounting
<1>4. ASSUME NEW l \in Letters
      PROVE  letters'[l] = "ours" <=> \E o \in Owners : \E g \in hosts'[o] : g.letter = l
  <2>1. CASE l = h.letter
    BY <1>1, <2>1
  <2>2. CASE l # h.letter
    BY <1>1, <1>2, <2>2 DEF LetterAccounting
  <2> QED  BY <2>1, <2>2
<1> QED
  BY <1>3, <1>4 DEF LetterAccounting

(* The removal check.                                                      *)
LEMMA RemovalInv == IInv /\ RemovalCheck => IInv'
<1> SUFFICES ASSUME IInv, RemovalCheck PROVE IInv'
    OBVIOUS
<1> USE OwnersDistinct DEF envVars, scanVars, diskVars
<1>1. CASE StartRemovalCheck
  BY <1>1, Still DEF StartRemovalCheck, IInv, TypeOK, OwnersInv, LocalsInv, NewHost, Busy
<1>2. ASSUME NEW s \in Slots, DiskPresent(s) PROVE IInv'
  BY <1>2, Still DEF DiskPresent, NoFault, IInv, TypeOK, OwnersInv, LocalsInv, NewHost, Busy
<1>3. ASSUME NEW s \in Slots, DiskGone(s) PROVE IInv'
  BY <1>3, Still, BoundsAssumption
     DEF DiskGone, NoFault, Fault, IInv, TypeOK, OwnersInv, LocalsInv, NewHost, Busy
<1>4. CASE EndProbe
  BY <1>4, Still DEF EndProbe, IInv, TypeOK, OwnersInv, LocalsInv, NewHost, Busy
<1>5. ASSUME NEW s \in Slots, Remove(s) PROVE IInv'
  <2>1. \A o \in Owners : hosts'[o] = IF o = Dropping THEN hosts[s]
                                      ELSE IF o = s THEN {} ELSE hosts[o]
    BY <1>5 DEF Remove, IInv, TypeOK
  <2>2. TypeOK'
    BY <1>5, <2>1 DEF Remove, IInv, TypeOK
  <2>3. OwnersInv' /\ LocalsInv'
    BY <1>5, <2>1 DEF Remove, IInv, OwnersInv, LocalsInv, NewHost, Busy
  <2>4. LetterAccounting'
    <3>1. /\ \A o \in Owners : hosts'[o] = IF o = s THEN {}
                                   ELSE IF o = Dropping THEN hosts[Dropping] \cup hosts[s]
                                   ELSE hosts[o]
          /\ s # Dropping /\ letters' = letters /\ LetterAccounting
      BY <1>5, <2>1 DEF Remove, IInv
    <3> QED  BY <3>1, Transfer
  <2>5. KeysOwnHosts'
    <3>1. \A x \in Slots : hosts'[x] # {} <=> hosts[x] # {} /\ x # s
      BY <2>1
    <3>2. keys' = keys \ {s}
      BY <1>5 DEF Remove
    <3> QED  BY <3>1, <3>2 DEF IInv, KeysOwnHosts
  <2> QED  BY <2>2, <2>3, <2>4, <2>5 DEF IInv
<1>6. ASSUME NEW h \in hosts[Dropping], Drop(h) PROVE IInv'
  <2>0. h \in Host /\ h.letter \in Letters
    BY DEF IInv, TypeOK, Host
  <2>1. /\ \A o \in Owners : hosts'[o] = IF o = Dropping THEN hosts[o] \ {h} ELSE hosts[o]
        /\ \A l \in Letters : letters'[l] = IF l = h.letter THEN "free" ELSE letters[l]
    BY <1>6 DEF Drop, IInv, TypeOK
  <2>2. TypeOK'
    BY <1>6, <2>0, <2>1 DEF Drop, IInv, TypeOK
  <2>3. OwnersInv' /\ LocalsInv'
    BY <1>6, <2>1 DEF Drop, IInv, OwnersInv, LocalsInv, NewHost, Busy
  <2>4. LetterAccounting'
    BY <2>0, <2>1, Release DEF IInv
  <2>5. KeysOwnHosts'
    <3>1. \A x \in Slots : hosts'[x] = hosts[x]
      BY <2>1
    <3>2. keys' = keys
      BY <1>6 DEF Drop
    <3> QED  BY <3>1, <3>2 DEF IInv, KeysOwnHosts
  <2> QED  BY <2>2, <2>3, <2>4, <2>5 DEF IInv
<1>7. CASE StartArrivalCheck
  BY <1>7, Still, DisksAssumption
     DEF StartArrivalCheck, IInv, TypeOK, OwnersInv, LocalsInv, NewHost, Busy, Slots
<1> QED
  BY <1>1, <1>2, <1>3, <1>4, <1>5, <1>6, <1>7 DEF RemovalCheck

(* The arrival check.                                                      *)
LEMMA ArrivalInv == IInv /\ ArrivalCheck => IInv'
<1> SUFFICES ASSUME IInv, ArrivalCheck PROVE IInv'
    OBVIOUS
<1> USE OwnersDistinct, DisksAssumption, BoundsAssumption DEF envVars, scanVars, diskVars
<1>n. NextDisk => n' \in Slots /\ pc' \in {"loop", "disk"}
  BY DEF NextDisk, Slots, IInv, TypeOK
<1>1. CASE SkipMounted
  BY <1>1, <1>n, Still DEF SkipMounted, IInv, TypeOK, OwnersInv, LocalsInv, NewHost, Busy
<1>2. CASE SkipUnusable
  BY <1>2, <1>n, Still
     DEF SkipUnusable, Fault, NoFault, IInv, TypeOK, OwnersInv, LocalsInv, NewHost, Busy
<1>3. CASE ReadPartitions
  BY <1>3, Still DEF ReadPartitions, IInv, TypeOK, OwnersInv, LocalsInv, NewHost, Busy
<1>4. CASE OpenContainer
  BY <1>4, Still DEF OpenContainer, IInv, TypeOK, OwnersInv, LocalsInv, NewHost, Busy
<1>5. CASE SkipPartition
  BY <1>5, Still
     DEF SkipPartition, Fault, NoFault, IInv, TypeOK, OwnersInv, LocalsInv, NewHost, Busy
<1>6. CASE SkipVolume
  BY <1>6, Still
     DEF SkipVolume, InVolumes, Fault, NoFault, IInv, TypeOK, OwnersInv, LocalsInv, NewHost, Busy
<1>7. CASE NextFreeLetter
  BY <1>7, Still
     DEF NextFreeLetter, InVolumes, FreeLetters, IInv, TypeOK, OwnersInv, LocalsInv, NewHost, Busy
<1>8. CASE NoLetterLeft
  BY <1>8, Still
     DEF NoLetterLeft, InVolumes, IInv, TypeOK, OwnersInv, LocalsInv, NewHost, Busy
<1>9. CASE NewFilesystem
  BY <1>9, Still DEF NewFilesystem, IInv, TypeOK, OwnersInv, LocalsInv, NewHost, Busy
<1>10. CASE NewFilesystemFails
  BY <1>10, Still
     DEF NewFilesystemFails, Fault, NoFault, IInv, TypeOK, OwnersInv, LocalsInv, NewHost, Busy
<1>11. CASE Mount
  <2>0. /\ NewHost \in Host /\ NewHost.letter = letter /\ letter \in Letters
        /\ letters[letter] = "free"
    BY <1>11 DEF Mount, NewHost, Host, IInv, TypeOK, LocalsInv, Busy
  <2>1. /\ \A o \in Owners : hosts'[o] = IF o = Mounting THEN {NewHost} ELSE hosts[o]
        /\ \A l \in Letters : letters'[l] = IF l = letter THEN "ours" ELSE letters[l]
        /\ hosts[Mounting] = {}
    BY <1>11 DEF Mount, IInv, TypeOK, OwnersInv
  <2>2. TypeOK'
    BY <1>11, <2>0, <2>1 DEF Mount, IInv, TypeOK
  <2>3. OwnersInv' /\ LocalsInv'
    BY <1>11, <2>1 DEF Mount, IInv, OwnersInv, LocalsInv, NewHost, Busy
  <2>4. LetterAccounting'
    <3>1. \A o \in Owners : \A h \in hosts[o] : h.letter # letter
      BY <2>0 DEF IInv, LetterAccounting
    <3>2. \A o, q \in Owners : \A h \in hosts'[o], g \in hosts'[q] :
             h.letter = g.letter => o = q /\ h = g
      BY <2>0, <2>1, <3>1 DEF IInv, LetterAccounting
    <3>3. ASSUME NEW l \in Letters
          PROVE  letters'[l] = "ours" <=> \E o \in Owners : \E h \in hosts'[o] : h.letter = l
      <4>1. CASE l = letter
        BY <2>0, <2>1, <4>1
      <4>2. CASE l # letter
        <5>1. \A o \in Owners : \A h \in hosts[o] : h \in hosts'[o]
          BY <2>1
        <5>2. \A o \in Owners : \A h \in hosts'[o] : h \in hosts[o] \/ h.letter = letter
          BY <2>0, <2>1
        <5> QED  BY <2>1, <4>2, <5>1, <5>2 DEF IInv, LetterAccounting
      <4> QED  BY <4>1, <4>2
    <3> QED  BY <3>2, <3>3 DEF LetterAccounting
  <2>5. KeysOwnHosts'
    BY <1>11, <2>1 DEF Mount, IInv, KeysOwnHosts
  <2> QED  BY <2>2, <2>3, <2>4, <2>5 DEF IInv
<1>12. CASE MountFails
  BY <1>12, Still
     DEF MountFails, Fault, NoFault, IInv, TypeOK, OwnersInv, LocalsInv, NewHost, Busy
<1>13. CASE Start
  <2>1. \A o \in Owners : hosts'[o] = IF o = Mounting THEN {}
                                      ELSE IF o = Building THEN hosts[o] \cup hosts[Mounting]
                                      ELSE hosts[o]
    BY <1>13 DEF Start, IInv, TypeOK
  <2>2. TypeOK'
    <3>1. hosts' \in [Owners -> SUBSET Host]
      BY <1>13, <2>1 DEF Start, IInv, TypeOK
    <3>2. /\ TypeOK /\ pc' = "vol" /\ vi' = vi + 1
          /\ UNCHANGED <<attached, unused, letters, faults, moves, keys, toProbe, gone,
                         n, parts, pi, cont, letter, misread, exchanged>>
      BY <1>13 DEF Start, IInv
    <3>3. vi' \in Nat
      BY <3>2 DEF TypeOK
    <3> HIDE DisksAssumption, BoundsAssumption, OwnersDistinct
    <3> QED  BY <3>1, <3>2, <3>3 DEF TypeOK
  <2>3. OwnersInv' /\ LocalsInv'
    BY <1>13, <2>1 DEF Start, IInv, OwnersInv, LocalsInv, NewHost, Busy
  <2>4. LetterAccounting'
    <3>1. \A o \in Owners : hosts'[o] = IF o = Mounting THEN {}
                                       ELSE IF o = Building
                                            THEN hosts[Building] \cup hosts[Mounting]
                                            ELSE hosts[o]
      BY <2>1
    <3>2. letters' = letters /\ LetterAccounting /\ Mounting # Building
      BY <1>13, OwnersDistinct DEF Start, IInv
    <3> HIDE DisksAssumption, BoundsAssumption
    <3> QED  BY <3>1, <3>2, OwnersDistinct, Transfer
  <2>5. KeysOwnHosts'
    BY <1>13, <2>1 DEF Start, IInv, KeysOwnHosts
  <2> QED  BY <2>2, <2>3, <2>4, <2>5 DEF IInv
<1>14. CASE StartFails
  <2>1. /\ \A o \in Owners : hosts'[o] = IF o = Mounting THEN {} ELSE hosts[o]
        /\ \A l \in Letters : letters'[l] = IF l = letter THEN "free" ELSE letters[l]
        /\ hosts[Mounting] = {NewHost} /\ NewHost.letter = letter /\ letter \in Letters
    BY <1>14 DEF StartFails, IInv, TypeOK, OwnersInv, LocalsInv, NewHost
  <2>2. TypeOK'
    BY <1>14, <2>1 DEF StartFails, Fault, IInv, TypeOK
  <2>3. OwnersInv' /\ LocalsInv'
    BY <1>14, <2>1 DEF StartFails, IInv, OwnersInv, LocalsInv, NewHost, Busy
  <2>4. LetterAccounting'
    <3>1. \A o \in Owners : hosts'[o] = IF o = Mounting THEN hosts[o] \ {NewHost} ELSE hosts[o]
      BY <2>1
    <3> HIDE DisksAssumption, BoundsAssumption
    <3> QED  BY <2>1, <3>1, OwnersDistinct, Release DEF IInv
  <2>5. KeysOwnHosts'
    BY <1>14, <2>1 DEF StartFails, IInv, KeysOwnHosts
  <2> QED  BY <2>2, <2>3, <2>4, <2>5 DEF IInv
<1>15. CASE EndVolumes
  BY <1>15, Still DEF EndVolumes, IInv, TypeOK, OwnersInv, LocalsInv, NewHost, Busy
<1>16. CASE EndDisk
  <2>0. n \in Slots /\ n \notin keys /\ hosts[n] = {} /\ pc = "part"
    BY <1>16 DEF EndDisk, IInv, TypeOK, OwnersInv, KeysOwnHosts, Busy
  <2>1. CASE hosts[Building] = {}
    BY <1>16, <1>n, <2>1, Still DEF EndDisk, IInv, TypeOK, OwnersInv, LocalsInv, NewHost, Busy
  <2>2. CASE hosts[Building] # {}
    <3>1. /\ \A o \in Owners : hosts'[o] = IF o = Building THEN {}
                                           ELSE IF o = n THEN hosts[Building] ELSE hosts[o]
          /\ keys' = keys \cup {n}
      BY <1>16, <2>0, <2>2 DEF EndDisk, IInv, TypeOK
    <3>2. TypeOK'
      BY <1>16, <1>n, <2>0, <2>2, <3>1 DEF EndDisk, IInv, TypeOK
    <3>3. OwnersInv' /\ LocalsInv'
      BY <1>16, <1>n, <2>0, <3>1 DEF EndDisk, IInv, OwnersInv, LocalsInv, NewHost, Busy
    <3>4. LetterAccounting'
      <4>1. /\ \A o \in Owners : hosts'[o] = IF o = Building THEN {}
                                              ELSE IF o = n THEN hosts[n] \cup hosts[Building]
                                              ELSE hosts[o]
            /\ n # Building /\ letters' = letters /\ LetterAccounting
        BY <1>16, <2>0, <3>1 DEF EndDisk, IInv
      <4> HIDE DisksAssumption, BoundsAssumption
      <4> QED  BY <2>0, <4>1, OwnersDistinct, Transfer
    <3>5. KeysOwnHosts'
      <4>1. \A x \in Slots : hosts'[x] # {} <=> hosts[x] # {} \/ x = n
        BY <2>2, <3>1
      <4> QED  BY <2>0, <3>1, <4>1 DEF IInv, KeysOwnHosts
    <3> QED  BY <3>2, <3>3, <3>4, <3>5 DEF IInv
  <2> QED  BY <2>1, <2>2
<1> QED
  BY <1>1, <1>2, <1>3, <1>4, <1>5, <1>6, <1>7, <1>8, <1>9, <1>10, <1>11, <1>12, <1>13,
     <1>14, <1>15, <1>16 DEF ArrivalCheck

(* Disks and other programs never move a letter of ours.                   *)
LEMMA EnvironmentInv == IInv /\ Environment => IInv'
<1> SUFFICES ASSUME IInv, Environment PROVE IInv'
    OBVIOUS
<1> USE DisksAssumption, BoundsAssumption DEF scanVars, diskVars
<1>1. ASSUME NEW s \in Slots, NEW a \in Arrivals, Plug(s, a) PROVE IInv'
  BY <1>1, Still DEF Plug, IInv, TypeOK, OwnersInv, LocalsInv, NewHost
<1>2. ASSUME NEW s \in Slots, Unplug(s) PROVE IInv'
  BY <1>2, Still DEF Unplug, IInv, TypeOK, OwnersInv, LocalsInv, NewHost
<1>3. ASSUME NEW l \in Letters, ForeignMove(l) PROVE IInv'
  <2>1. /\ letters' \in [Letters -> {"free", "ours", "foreign"}]
        /\ \A m \in Letters : letters'[m] = "ours" <=> letters[m] = "ours"
    BY <1>3 DEF ForeignMove, IInv, TypeOK
  <2> QED
    BY <1>3, <2>1, Still DEF ForeignMove, IInv, TypeOK, OwnersInv, LocalsInv, NewHost
<1> QED
  BY <1>1, <1>2, <1>3 DEF Environment

THEOREM Inductive == Spec => []IInv
<1>1. IInv /\ UNCHANGED vars => IInv'
  BY Still DEF IInv, TypeOK, OwnersInv, LocalsInv, NewHost, vars
<1> QED
  BY <1>1, InitInv, RemovalInv, ArrivalInv, EnvironmentInv, PTL DEF Spec, Next, WatchLoop

(* main.rs:113-153 and 240-299: no letter leaks and no two hosts share one, *)
(* in every interleaving with disks, failures and other programs.          *)
THEOREM NoLetterLeaks == Spec => []LetterAccounting
BY Inductive, PTL DEF IInv

(* main.rs:257, 297-299: a disk is in the map exactly while it owns hosts. *)
THEOREM KeysAreOwners == Spec => []KeysOwnHosts
BY Inductive, PTL DEF IInv

(* Type correctness of the watcher.                                        *)
THEOREM TypeCorrect == Spec => []TypeOK
BY Inductive, PTL DEF IInv

----------------------------------------------------------------------------
(* What the owners know of the disks.  A host of disk number s reads a     *)
(* disk that is there or nowhere any more: arrivals do not come back, so   *)
(* a number found empty stays empty of the disk it served.                 *)
Located(a, s) == a \notin unused /\ \A r \in Slots : attached[r] = a => r = s

Open == Busy \ {"part"}   \* the places where a container is open

DiskInv ==
    /\ \A s \in Slots : attached[s] \notin unused
    /\ \A r, s \in Slots : attached[r] = attached[s] /\ attached[r] # NoDisk => r = s
    /\ \A s \in Slots : \A h \in hosts[s] : Located(h.arrival, s)
    /\ \A h \in hosts[Building] : Located(h.arrival, n)
    /\ pc \in Open => Located(cont.arrival, n)
    /\ \A s \in gone : s \in misread \/ \A h \in hosts[s] : ~ Attached(h.arrival)

LEMMA DiskStill ==
    ASSUME IInv, DiskInv, attached' = attached, unused' = unused,
           gone' \subseteq gone, misread \cap gone' \subseteq misread', \A o \in Slots \cup {Building} : hosts'[o] \subseteq hosts[o],
           \/ n' = n /\ cont' = cont /\ (pc' \in Open => pc \in Open)
           \/ hosts'[Building] = {} /\ pc' \notin Open
    PROVE  DiskInv'
<1>1. \A a, s : Located(a, s)' <=> Located(a, s)
  BY DEF Located
<1>2. \A a : Attached(a)' <=> Attached(a)
  BY DEF Attached
<1>3. gone \subseteq Slots
  BY DEF IInv, TypeOK
<1> QED
  BY <1>1, <1>2, <1>3 DEF DiskInv

LEMMA DiskInvNext == IInv /\ DiskInv /\ Next => DiskInv'
<1> SUFFICES ASSUME IInv, DiskInv, Next PROVE DiskInv'
    OBVIOUS
<1> USE OwnersDistinct DEF envVars, scanVars, diskVars
<1>t. /\ n \in Slots /\ hosts \in [Owners -> SUBSET Host] /\ gone \subseteq Slots
      /\ attached \in [Slots -> Arrivals \cup {NoDisk}] /\ unused \subseteq Arrivals
      /\ (pc \notin Busy => hosts[Building] = {})
  BY BoundsAssumption DEF IInv, TypeOK, OwnersInv
<1>1. CASE StartRemovalCheck \/ EndProbe \/ StartArrivalCheck
  <2>1. /\ attached' = attached /\ unused' = unused /\ hosts' = hosts
        /\ gone' \subseteq gone /\ misread \cap gone' \subseteq misread' /\ pc \notin Busy /\ pc' \notin Open
    BY <1>1 DEF StartRemovalCheck, EndProbe, StartArrivalCheck, Busy, Open
  <2> QED  BY <1>t, <2>1, DiskStill
<1>2. ASSUME NEW s \in Slots, DiskPresent(s) PROVE DiskInv'
  BY <1>2, DiskStill DEF DiskPresent
<1>3. ASSUME NEW s \in Slots, DiskGone(s) PROVE DiskInv'
  <2>1. /\ attached' = attached /\ unused' = unused /\ hosts' = hosts /\ pc' = pc
        /\ n' = n /\ cont' = cont /\ gone' = gone \cup {s}
        /\ (attached[s] = NoDisk /\ misread' = misread) \/ misread' = misread \cup {s}
    BY <1>3 DEF DiskGone
  <2>2. /\ \A a, r : Located(a, r)' <=> Located(a, r)
        /\ \A a : Attached(a)' <=> Attached(a)
    BY <2>1 DEF Located, Attached
  <2>3. s \in misread' \/ \A h \in hosts[s] : ~ Attached(h.arrival)
    <3>1. CASE misread' = misread \cup {s}
      BY <3>1
    <3>2. CASE attached[s] = NoDisk
      <4> SUFFICES ASSUME NEW h \in hosts[s], NEW r \in Slots, attached[r] = h.arrival
                   PROVE FALSE
        BY DEF Attached
      <4>1. r = s
        BY DEF DiskInv, Located
      <4>2. h.arrival \in Arrivals
        BY <1>t DEF Host
      <4> QED  BY <3>2, <4>1, <4>2, DisksAssumption
    <3> QED  BY <2>1, <3>1, <3>2
  <2>4. misread \subseteq misread'
    BY <2>1
  <2> QED  BY <2>1, <2>2, <2>3, <2>4 DEF DiskInv
<1>4. ASSUME NEW s \in Slots, Remove(s) PROVE DiskInv'
  <2>1. \A o \in Slots \cup {Building} : hosts'[o] \subseteq hosts[o]
    BY <1>4, <1>t DEF Remove
  <2> QED  BY <1>4, <2>1, DiskStill DEF Remove
<1>5. ASSUME NEW h \in hosts[Dropping], Drop(h) PROVE DiskInv'
  <2>1. \A o \in Slots \cup {Building} : hosts'[o] \subseteq hosts[o]
    BY <1>5, <1>t DEF Drop
  <2> QED  BY <1>5, <2>1, DiskStill DEF Drop
<1>6. CASE SkipMounted \/ SkipUnusable
  <2>1. /\ attached' = attached /\ unused' = unused /\ hosts' = hosts /\ gone' = gone
        /\ pc \notin Busy /\ pc' \notin Open /\ misread' = misread
    BY <1>6 DEF SkipMounted, SkipUnusable, NextDisk, Busy, Open
  <2> QED  BY <1>t, <2>1, DiskStill
<1>7. CASE ReadPartitions
  BY <1>7, DiskStill DEF ReadPartitions, Open
<1>8. CASE OpenContainer
  <2>1. /\ attached' = attached /\ unused' = unused /\ hosts' = hosts /\ gone' = gone
        /\ n' = n /\ misread' = misread /\ cont'.arrival = attached[n] /\ attached[n] # NoDisk
    BY <1>8 DEF OpenContainer
  <2>2. /\ \A a, r : Located(a, r)' <=> Located(a, r)
        /\ \A a : Attached(a)' <=> Attached(a)
    BY <2>1 DEF Located, Attached
  <2>3. Located(attached[n], n)
    BY <1>t, <2>1 DEF DiskInv, Located
  <2> QED  BY <2>1, <2>2, <2>3 DEF DiskInv
<1>9. CASE SkipPartition \/ SkipVolume \/ NewFilesystemFails \/ MountFails
  <2>1. /\ attached' = attached /\ unused' = unused /\ hosts' = hosts /\ gone' = gone
        /\ n' = n /\ cont' = cont /\ (pc' \in Open => pc \in Open)
        /\ misread' = misread
    BY <1>9 DEF SkipPartition, SkipVolume, NewFilesystemFails, MountFails, InVolumes, Open, Busy
  <2> QED  BY <2>1, DiskStill
<1>10. CASE NextFreeLetter \/ NoLetterLeft \/ NewFilesystem \/ EndVolumes
  <2>1. /\ attached' = attached /\ unused' = unused /\ hosts' = hosts /\ gone' = gone
        /\ n' = n /\ cont' = cont /\ (pc' \in Open => pc \in Open) /\ misread' = misread
    BY <1>10 DEF NextFreeLetter, NoLetterLeft, NewFilesystem, EndVolumes, InVolumes, Open, Busy
  <2> QED  BY <2>1, DiskStill
<1>11. CASE Mount \/ StartFails
  <2>1. /\ attached' = attached /\ unused' = unused /\ gone' = gone /\ n' = n /\ cont' = cont
        /\ pc \in Open /\ misread' = misread
    BY <1>11 DEF Mount, StartFails, Open, Busy
  <2>2. \A o \in Slots \cup {Building} : hosts'[o] \subseteq hosts[o]
    BY <1>11, <1>t DEF Mount, StartFails
  <2> QED  BY <2>1, <2>2, DiskStill
<1>12. CASE Start
  <2>1. /\ attached' = attached /\ unused' = unused /\ gone' = gone /\ n' = n /\ cont' = cont
        /\ pc \in Open /\ misread' = misread /\ hosts[Mounting] = {NewHost}
        /\ \A s \in Slots : hosts'[s] = hosts[s]
        /\ hosts'[Building] = hosts[Building] \cup {NewHost}
    BY <1>12, <1>t DEF Start, Open, Busy, IInv, OwnersInv
  <2>2. /\ \A a, r : Located(a, r)' <=> Located(a, r)
        /\ \A a : Attached(a)' <=> Attached(a)
    BY <2>1 DEF Located, Attached
  <2>3. Located(NewHost.arrival, n)
    BY <2>1 DEF DiskInv, NewHost
  <2> QED  BY <1>t, <2>1, <2>2, <2>3 DEF DiskInv
<1>13. CASE EndDisk
  <2>1. /\ attached' = attached /\ unused' = unused /\ gone' = gone /\ gone = {}
        /\ pc' \notin Open /\ misread' = misread
    BY <1>13 DEF EndDisk, NextDisk, Open, Busy, IInv, LocalsInv
  <2>2. CASE hosts[Building] = {}
    BY <1>13, <2>1, <2>2, DiskStill DEF EndDisk
  <2>3. CASE hosts[Building] # {}
    <3>1. /\ \A s \in Slots : hosts'[s] = IF s = n THEN hosts[Building] ELSE hosts[s]
          /\ hosts'[Building] = {}
      BY <1>13, <1>t, <2>3 DEF EndDisk
    <3>2. \A a, r : Located(a, r)' <=> Located(a, r)
      BY <2>1 DEF Located
    <3> QED  BY <2>1, <3>1, <3>2 DEF DiskInv
  <2> QED  BY <2>2, <2>3
<1>14. ASSUME NEW s \in Slots, NEW a \in Arrivals, Plug(s, a) PROVE DiskInv'
  <2>1. /\ a \in unused /\ attached[s] = NoDisk /\ unused' = unused \ {a}
        /\ \A r \in Slots : attached'[r] = IF r = s THEN a ELSE attached[r]
        /\ UNCHANGED <<hosts, gone, misread, pc, n, cont>>
    BY <1>14, <1>t DEF Plug
  <2>2. \A b, r : Located(b, r) => Located(b, r)'
    BY <2>1 DEF Located
  <2>3. \A b : b # a /\ ~ Attached(b) => ~ Attached(b)'
    BY <2>1 DEF Attached
  <2>4. \A r \in Slots : \A h \in hosts[r] : h.arrival # a
    BY <2>1 DEF DiskInv, Located
  <2>5. /\ \A r \in Slots : attached'[r] \notin unused'
        /\ \A r, q \in Slots : attached'[r] = attached'[q] /\ attached'[r] # NoDisk => r = q
    BY <2>1 DEF DiskInv
  <2> QED  BY <1>t, <2>1, <2>2, <2>3, <2>4, <2>5 DEF DiskInv
<1>15. ASSUME NEW s \in Slots, Unplug(s) PROVE DiskInv'
  <2>1. /\ unused' = unused
        /\ \A r \in Slots : attached'[r] = IF r = s THEN NoDisk ELSE attached[r]
        /\ UNCHANGED <<hosts, gone, misread, pc, n, cont>>
    BY <1>15, <1>t DEF Unplug
  <2>2. \A b \in Arrivals : \A r : Located(b, r) => Located(b, r)'
    BY <2>1, DisksAssumption DEF Located
  <2>3. \A b \in Arrivals : ~ Attached(b) => ~ Attached(b)'
    BY <2>1, DisksAssumption DEF Attached
  <2>4. \A o \in Owners : \A h \in hosts[o] : h.arrival \in Arrivals
    BY <1>t DEF Host
  <2>5. pc \in Open => cont.arrival \in Arrivals
    BY DEF IInv, LocalsInv, Open
  <2>6. \A r \in Slots : attached'[r] \notin unused'
    BY <1>t, <2>1, DisksAssumption DEF DiskInv
  <2> QED  BY <1>t, <2>1, <2>2, <2>3, <2>4, <2>5, <2>6 DEF DiskInv
<1>16. ASSUME NEW l \in Letters, ForeignMove(l) PROVE DiskInv'
  BY <1>16, DiskStill DEF ForeignMove
<1> QED
  BY <1>1, <1>2, <1>3, <1>4, <1>5, <1>6, <1>7, <1>8, <1>9, <1>10, <1>11, <1>12, <1>13, <1>14,
     <1>15, <1>16 DEF Next, WatchLoop, RemovalCheck, ArrivalCheck, Environment

LEMMA DisksKnown == Spec => []DiskInv
<1>1. Init => DiskInv
  BY DisksAssumption, OwnersDistinct DEF Init, DiskInv, Busy, Open
<1>2. IInv /\ DiskInv /\ UNCHANGED vars => DiskInv'
  BY DiskStill DEF vars
<1> QED
  BY <1>1, <1>2, DiskInvNext, Inductive, PTL DEF Spec

(* Only Remove takes a host from the map or from the vector being built    *)
(* without putting it into the other; and it takes those of numbers found  *)
(* gone.                                                                   *)
LEMMA OnlyRemoveDrops ==
    ASSUME IInv, Next, NEW o \in Running, NEW h \in hosts[o],
           \A q \in Running : h \notin hosts'[q]
    PROVE  o \in gone
<1> USE OwnersDistinct DEF envVars, scanVars, diskVars, Running
<1>t. hosts \in [Owners -> SUBSET Host] /\ n \in Slots
  BY DEF IInv, TypeOK
<1>1. CASE RemovalCheck
  BY <1>1, <1>t DEF RemovalCheck, StartRemovalCheck, EndProbe, StartArrivalCheck, DiskPresent,
                    DiskGone, Remove, Drop
<1>2. CASE ArrivalCheck
  <2>1. CASE Mount \/ Start \/ StartFails
    BY <1>t, <2>1 DEF Mount, Start, StartFails
  <2>2. CASE EndDisk
    <3>1. hosts[n] = {}
      BY <1>t, <2>2 DEF EndDisk, IInv, OwnersInv, KeysOwnHosts, Busy
    <3> QED
      BY <1>t, <2>2, <3>1 DEF EndDisk
  <2> QED
    BY <1>2, <2>1, <2>2 DEF ArrivalCheck, SkipMounted, SkipUnusable, ReadPartitions, OpenContainer,
       SkipPartition, SkipVolume, NextFreeLetter, NoLetterLeft, NewFilesystem,
       NewFilesystemFails, MountFails, EndVolumes
<1>3. CASE Environment
  BY <1>3 DEF Environment, Plug, Unplug, ForeignMove
<1> QED
  BY <1>1, <1>2, <1>3 DEF Next, WatchLoop

(* main.rs:240-253: a running volume loses its letter only because its     *)
(* disk is out or because the probe of its own number in the same removal  *)
(* check failed, whatever failed earlier or elsewhere, whatever was        *)
(* plugged in under the same number before or since, and however the rest  *)
(* of its disk's arrival check goes (main.rs:267-299).                     *)
THEOREM DropsHaveReasons == Spec => DroppedOnlyWhenGone
<1> DEFINE Reason == \A o \in Running : \A h \in hosts[o] :
                        \/ \E q \in Running : h \in hosts'[q]
                        \/ o \in misread
                        \/ ~ Attached(h.arrival)
<1>1. IInv /\ DiskInv /\ Next => Reason
  <2> SUFFICES ASSUME IInv, DiskInv, Next, NEW o \in Running, NEW h \in hosts[o],
                      \A q \in Running : h \notin hosts'[q]
               PROVE  o \in misread \/ ~ Attached(h.arrival)
    OBVIOUS
  <2>1. o \in gone
    BY OnlyRemoveDrops
  <2> QED
    BY <2>1 DEF DiskInv
<1>2. UNCHANGED vars => Reason
  BY DEF vars
<1>3. IInv /\ DiskInv /\ [Next]_vars => [Reason]_vars
  BY <1>1, <1>2
<1> QED
  BY <1>3, Inductive, DisksKnown, PTL DEF Spec, DroppedOnlyWhenGone

----------------------------------------------------------------------------
(* The watcher implements DriveLetters.  A volume about to be mounted has  *)
(* no host yet: the disk it is on belongs to no disk number of the map,    *)
(* and the hosts built so far are of earlier volumes of the same number.   *)
VolumesInv ==
    /\ \A o \in Owners : \A h \in hosts[o] : <<h.part, h.vol>> \in Openable(h.arrival)
    /\ pc \in Open =>
         /\ cont.part = pi /\ vi >= 1
         /\ \A s \in Slots : \A h \in hosts[s] : h.arrival # cont.arrival
    /\ pc \in Busy =>
         \A h \in hosts[Building] : h.part < pi \/ (pc \in Open /\ h.part = pi /\ h.vol < vi)
    /\ pc \in {"new", "mount", "start"} => <<cont.part, vi>> \in Openable(cont.arrival)

LEMMA OpensIsOpenable ==
    ASSUME cont.arrival \in Arrivals, vi \in Nat, vi >= 1, InVolumes, VolumeOpens(vi)
    PROVE  <<cont.part, vi>> \in Openable(cont.arrival)
<1> DEFINE a == cont.arrival
           p == cont.part
<1>1. p \in 1 .. Len(Layout[a])
  <2> SUFFICES ASSUME p \notin 1 .. Len(Layout[a]) PROVE FALSE
      OBVIOUS
  <2>1. Volumes(a, p) = <<>>
    BY DEF Volumes
  <2> QED  BY <2>1 DEF InVolumes
<1>2. Volumes(a, p) = Layout[a][p] /\ Layout[a][p][vi] /\ vi \in 1 .. Len(Layout[a][p])
  <2>1. Volumes(a, p) = Layout[a][p]
    BY <1>1 DEF Volumes
  <2>2. Layout[a] \in Seq(Seq(BOOLEAN))
    BY DisksAssumption
  <2>3. Layout[a][p] \in Seq(BOOLEAN)
    BY <1>1, <2>2
  <2>4. Len(Layout[a][p]) \in Nat
    BY <2>3
  <2> QED  BY <2>1, <2>4 DEF InVolumes, VolumeOpens
<1>3. vi \in {w \in 1 .. Len(Layout[a][p]) : Layout[a][p][w]}
  BY <1>2
<1>4. <<p, vi>> \in {<<p, v>> : v \in {w \in 1 .. Len(Layout[a][p]) : Layout[a][p][w]}}
  BY <1>3
<1> QED
  BY <1>1, <1>4 DEF Openable

LEMMA VolumesInvNext == IInv /\ DiskInv /\ VolumesInv /\ Next => VolumesInv'
<1> SUFFICES ASSUME IInv, DiskInv, VolumesInv, Next PROVE VolumesInv'
    OBVIOUS
<1> USE OwnersDistinct DEF envVars, scanVars, diskVars
<1>t. /\ n \in Slots /\ hosts \in [Owners -> SUBSET Host] /\ pi \in Nat /\ vi \in Nat
      /\ (pc \notin Busy => hosts[Building] = {})
      /\ (pc # "remove" => hosts[Dropping] = {})
      /\ \A o \in Owners : \A h \in hosts[o] : h.part \in Nat /\ h.vol \in Nat
  BY DEF IInv, TypeOK, OwnersInv, Host
<1>1. CASE StartRemovalCheck \/ EndProbe \/ StartArrivalCheck \/ SkipMounted \/ SkipUnusable
  BY <1>1, <1>t DEF VolumesInv, Open, Busy, StartRemovalCheck, EndProbe, StartArrivalCheck,
                    SkipMounted, SkipUnusable, NextDisk
<1>2. ASSUME NEW s \in Slots, DiskPresent(s) \/ DiskGone(s) PROVE VolumesInv'
  BY <1>2 DEF VolumesInv, Open, Busy, DiskPresent, DiskGone
<1>3. ASSUME NEW s \in Slots, Remove(s) PROVE VolumesInv'
  <2>1. /\ \A o \in Owners : \A h \in hosts'[o] : \E q \in Owners : h \in hosts[q]
        /\ pc' \notin Busy
    BY <1>3, <1>t DEF Remove, Busy
  <2> QED  BY <2>1 DEF VolumesInv, Busy, Open
<1>4. ASSUME NEW h \in hosts[Dropping], Drop(h) PROVE VolumesInv'
  <2>1. /\ \A o \in Owners : hosts'[o] \subseteq hosts[o]
        /\ pc' \notin Busy
    BY <1>4, <1>t DEF Drop, Busy
  <2> QED  BY <2>1 DEF VolumesInv, Busy, Open
<1>5. CASE ReadPartitions
  BY <1>5, <1>t DEF ReadPartitions, VolumesInv, Busy, Open
<1>6. CASE OpenContainer
  <2>1. /\ hosts' = hosts /\ pc' = "vol" /\ pc = "part" /\ pi' = pi /\ vi' = 1
        /\ cont'.part = pi /\ cont'.arrival = attached[n] /\ attached[n] # NoDisk
    BY <1>6 DEF OpenContainer
  <2>2. hosts[n] = {}
    BY <1>t, <2>1 DEF IInv, OwnersInv, KeysOwnHosts, Busy
  <2>3. \A s \in Slots : \A h \in hosts[s] : h.arrival # attached[n]
    BY <1>t, <2>2 DEF DiskInv, Located
  <2> QED  BY <2>1, <2>3 DEF VolumesInv, Busy, Open
<1>7. CASE SkipPartition \/ NoLetterLeft \/ EndVolumes
  <2>1. hosts' = hosts /\ pc' = "part" /\ pi' = pi + 1 /\ pc \in Busy
    BY <1>7 DEF SkipPartition, NoLetterLeft, EndVolumes, InVolumes, Busy
  <2> QED  BY <1>t, <2>1 DEF VolumesInv, Busy, Open
<1>8. CASE SkipVolume \/ NewFilesystemFails \/ MountFails
  <2>1. hosts' = hosts /\ pc' = "vol" /\ pi' = pi /\ vi' = vi + 1 /\ cont' = cont /\ pc \in Open
    BY <1>8 DEF SkipVolume, NewFilesystemFails, MountFails, InVolumes, Busy, Open
  <2> QED  BY <1>t, <2>1 DEF VolumesInv, Busy, Open
<1>9. CASE NextFreeLetter
  <2>1. /\ hosts' = hosts /\ pc' = "new" /\ pi' = pi /\ vi' = vi /\ cont' = cont /\ pc = "vol"
        /\ InVolumes /\ VolumeOpens(vi)
    BY <1>9 DEF NextFreeLetter, InVolumes
  <2>2. cont.arrival \in Arrivals /\ vi >= 1
    BY <2>1 DEF IInv, LocalsInv, VolumesInv, Busy, Open
  <2>3. <<cont.part, vi>> \in Openable(cont.arrival)
    BY <1>t, <2>1, <2>2, OpensIsOpenable
  <2> QED  BY <2>1, <2>3 DEF VolumesInv, Busy, Open
<1>10. CASE NewFilesystem
  BY <1>10 DEF NewFilesystem, VolumesInv, Busy, Open
<1>11. CASE Mount
  <2>1. /\ \A o \in Owners : hosts'[o] = IF o = Mounting THEN {NewHost} ELSE hosts[o]
        /\ pc = "mount" /\ pc' = "start" /\ UNCHANGED <<pi, vi, cont>>
    BY <1>11, <1>t DEF Mount
  <2>2. <<NewHost.part, NewHost.vol>> \in Openable(NewHost.arrival)
    BY <2>1 DEF VolumesInv, NewHost
  <2> QED  BY <2>1, <2>2 DEF VolumesInv, Busy, Open
<1>12. CASE Start
  <2>1. /\ \A o \in Owners : hosts'[o] = IF o = Mounting THEN {}
                                           ELSE IF o = Building THEN hosts[o] \cup {NewHost}
                                           ELSE hosts[o]
        /\ pc = "start" /\ pc' = "vol" /\ pi' = pi /\ vi' = vi + 1 /\ cont' = cont
        /\ hosts[Mounting] = {NewHost}
    BY <1>12, <1>t DEF Start, IInv, OwnersInv
  <2>2. NewHost.part = pi /\ NewHost.vol = vi
    <3>1. cont.part = pi
      BY <2>1 DEF VolumesInv, Open, Busy
    <3> QED  BY <3>1 DEF NewHost
  <2>3. \A o \in Owners : \A h \in hosts'[o] : h = NewHost \/ h \in hosts[o]
    BY <2>1
  <2>4. \A o \in Owners : \A h \in hosts'[o] : <<h.part, h.vol>> \in Openable(h.arrival)
    <3>1. <<NewHost.part, NewHost.vol>> \in Openable(NewHost.arrival)
      BY <2>1 DEF VolumesInv
    <3> QED  BY <2>3, <3>1 DEF VolumesInv
  <2>5. /\ cont.part = pi /\ vi >= 1
        /\ \A s \in Slots : \A h \in hosts'[s] : h.arrival # cont.arrival
    BY <2>1 DEF VolumesInv, Busy, Open
  <2>6. \A h \in hosts'[Building] : h.part < pi \/ (h.part = pi /\ h.vol < vi + 1)
    <3>1. \A h \in hosts[Building] : h.part < pi \/ (h.part = pi /\ h.vol < vi)
      BY <2>1 DEF VolumesInv, Busy
    <3> QED  BY <1>t, <2>2, <2>3, <3>1
  <2> QED  BY <1>t, <2>1, <2>4, <2>5, <2>6 DEF VolumesInv, Busy, Open
<1>13. CASE StartFails
  <2>1. /\ \A o \in Owners : hosts'[o] = IF o = Mounting THEN {} ELSE hosts[o]
        /\ pc = "start" /\ pc' = "vol" /\ pi' = pi /\ vi' = vi + 1 /\ cont' = cont
    BY <1>13, <1>t DEF StartFails
  <2> QED  BY <1>t, <2>1 DEF VolumesInv, Busy, Open
<1>14. CASE EndDisk
  <2>1. /\ \A o \in Owners : \A h \in hosts'[o] : \E q \in Owners : h \in hosts[q]
        /\ pc' \notin Busy
    BY <1>14, <1>t DEF EndDisk, NextDisk, Busy
  <2> QED  BY <2>1 DEF VolumesInv, Busy, Open
<1>15. CASE Environment
  BY <1>15 DEF Environment, Plug, Unplug, ForeignMove, VolumesInv, Busy, Open
<1> QED
  BY <1>1, <1>2, <1>3, <1>4, <1>5, <1>6, <1>7, <1>8, <1>9, <1>10, <1>11, <1>12, <1>13, <1>14,
     <1>15 DEF Next, WatchLoop, RemovalCheck, ArrivalCheck

LEMMA VolumesKnown == Spec => []VolumesInv
<1>1. Init => VolumesInv
  BY DEF Init, VolumesInv, Busy, Open
<1>2. VolumesInv /\ UNCHANGED vars => VolumesInv'
  BY DEF vars, VolumesInv
<1> QED
  BY <1>1, <1>2, VolumesInvNext, Inductive, DisksKnown, PTL DEF Spec

(* What the letters show, letter by letter.                                *)
ShownAt(l) ==
    CASE letters[l] = "free"    -> <<>>
      [] letters[l] = "foreign" -> <<"foreign">>
      [] letters[l] = "ours"    -> <<HostOf(l).arrival, HostOf(l).part, HostOf(l).vol>>

LEMMA ShownIsFunction ==
    /\ DOMAIN Shown = Letters /\ DOMAIN Shown' = Letters
    /\ Shown = [l \in Letters |-> Shown[l]] /\ Shown' = [l \in Letters |-> Shown'[l]]
<1>1. Shown = [l \in Letters |-> ShownAt(l)]
  BY Zenon DEF Shown, ShownAt
<1>2. Shown' = [l \in Letters |-> ShownAt(l)']
  BY Zenon DEF Shown, ShownAt
<1> QED
  BY <1>1, <1>2

VolumeOf(h) == <<h.arrival, h.part, h.vol>>

LEMMA ThreeKinds ==
    /\ <<>> # <<"foreign">>
    /\ \A h : <<>> # VolumeOf(h) /\ <<"foreign">> # VolumeOf(h)
BY DEF VolumeOf

LEMMA ShownIs ==
    ASSUME IInv
    PROVE  /\ \A l \in Letters : letters[l] = "free" => Shown[l] = <<>>
           /\ \A l \in Letters : letters[l] = "foreign" => Shown[l] = <<"foreign">>
           /\ \A o \in Owners : \A h \in hosts[o] : Shown[h.letter] = VolumeOf(h)
<1>1. ASSUME NEW l \in Letters, letters[l] = "free" PROVE Shown[l] = <<>>
  BY <1>1 DEF Shown
<1>2. ASSUME NEW l \in Letters, letters[l] = "foreign" PROVE Shown[l] = <<"foreign">>
  BY <1>2 DEF Shown
<1>3. ASSUME NEW o \in Owners, NEW h \in hosts[o] PROVE Shown[h.letter] = VolumeOf(h)
  <2>1. h.letter \in Letters /\ letters[h.letter] = "ours"
    BY DEF IInv, TypeOK, Host, LetterAccounting
  <2>2. HostOf(h.letter) = h
    <3>1. h \in UNION {hosts[q] : q \in Owners}
      OBVIOUS
    <3>2. \A g \in UNION {hosts[q] : q \in Owners} : g.letter = h.letter => g = h
      BY DEF IInv, LetterAccounting
    <3> QED  BY <3>1, <3>2 DEF HostOf
  <2> QED  BY <2>1, <2>2 DEF Shown, VolumeOf
<1> QED
  BY <1>1, <1>2, <1>3

LEMMA ShownValues ==
    ASSUME IInv, VolumesInv, NEW l \in Letters
    PROVE  \/ letters[l] \in {"free", "foreign"}
           \/ \E o \in Owners : \E h \in hosts[o] :
                 h.letter = l /\ Shown[l] = VolumeOf(h) /\ VolumeOf(h) \in AllVolumes
<1> SUFFICES ASSUME letters[l] = "ours"
             PROVE  \E o \in Owners : \E h \in hosts[o] :
                       h.letter = l /\ Shown[l] = VolumeOf(h) /\ VolumeOf(h) \in AllVolumes
    BY DEF IInv, TypeOK
<1>1. PICK o \in Owners : \E h \in hosts[o] : h.letter = l
  BY DEF IInv, LetterAccounting
<1>2. PICK h \in hosts[o] : h.letter = l
  BY <1>1
<1>3. Shown[l] = VolumeOf(h)
  BY <1>2, ShownIs
<1>4. VolumeOf(h) \in AllVolumes
  <2>1. <<h.part, h.vol>> \in Openable(h.arrival) /\ h.arrival \in Arrivals
    BY DEF VolumesInv, IInv, TypeOK, Host
  <2>2. VolumeOf(h) \in {<<h.arrival, pv[1], pv[2]>> : pv \in Openable(h.arrival)}
    BY <2>1 DEF VolumeOf
  <2> QED  BY <2>1, <2>2 DEF AllVolumes
<1> QED
  BY <1>2, <1>3, <1>4

(* A letter that is not touched shows what it showed, whoever owns its host. *)
LEMMA Untouched ==
    ASSUME IInv, IInv', NEW S,
           \A l \in Letters \ S : letters'[l] = letters[l],
           \A o \in Owners : \A h \in hosts[o] :
              h.letter \notin S => \E q \in Owners : h \in hosts'[q]
    PROVE  \A l \in Letters \ S : Shown'[l] = Shown[l]
<1> SUFFICES ASSUME NEW l \in Letters \ S PROVE Shown'[l] = Shown[l]
    OBVIOUS
<1>1. letters'[l] = letters[l] /\ letters[l] \in {"free", "ours", "foreign"}
  BY DEF IInv, TypeOK
<1>2. CASE letters[l] = "free"
  <2>1. Shown[l] = <<>>
    BY <1>2 DEF Shown
  <2>2. Shown'[l] = <<>>
    BY <1>1, <1>2 DEF Shown
  <2> QED  BY <2>1, <2>2
<1>3. CASE letters[l] = "foreign"
  <2>1. Shown[l] = <<"foreign">>
    BY <1>3 DEF Shown
  <2>2. Shown'[l] = <<"foreign">>
    BY <1>1, <1>3 DEF Shown
  <2> QED  BY <2>1, <2>2
<1>4. CASE letters[l] = "ours"
  <2>1. PICK o \in Owners : \E h \in hosts[o] : h.letter = l
    BY <1>4 DEF IInv, LetterAccounting
  <2>2. PICK h \in hosts[o] : h.letter = l
    BY <2>1
  <2>3. Shown[l] = VolumeOf(h)
    BY <2>2, ShownIs
  <2>4. PICK q \in Owners : h \in hosts'[q]
    BY <2>2
  <2>5. HostOf(l)' = h
    <3>1. h \in UNION {hosts'[r] : r \in Owners}
      BY <2>4
    <3>2. \A g \in UNION {hosts'[r] : r \in Owners} : g.letter = h.letter => g = h
      BY <2>4 DEF IInv, LetterAccounting
    <3> QED  BY <2>2, <3>1, <3>2 DEF HostOf
  <2>6. Shown'[l] = VolumeOf(h)
    BY <1>1, <1>4, <2>5 DEF Shown, VolumeOf
  <2> QED  BY <2>3, <2>6
<1> QED
  BY <1>1, <1>2, <1>3, <1>4

(* A step of the watcher is a step of DriveLetters or leaves what is shown. *)
LEMMA StepImplements ==
    ASSUME IInv, IInv', DiskInv, VolumesInv, VolumesInv', Next
    PROVE  [Promise!Next]_Shown
<1> USE OwnersDistinct DEF envVars, scanVars, diskVars
<1>t. hosts \in [Owners -> SUBSET Host] /\ letters \in [Letters -> {"free", "ours", "foreign"}]
  BY DEF IInv, TypeOK
<1>same. ASSUME letters' = letters,
                \A o \in Owners : \A h \in hosts[o] : \E q \in Owners : h \in hosts'[q]
         PROVE  Shown' = Shown
  <2>1. \A l \in Letters \ {} : Shown'[l] = Shown[l]
    BY <1>same, Untouched
  <2> QED  BY ShownIsFunction, <2>1
<1>one. ASSUME NEW l \in Letters, NEW x, Shown'[l] = x,
               \A m \in Letters \ {l} : letters'[m] = letters[m],
               \A o \in Owners : \A h \in hosts[o] :
                  h.letter # l => \E q \in Owners : h \in hosts'[q]
        PROVE  Shown' = [Shown EXCEPT ![l] = x]
  <2>1. \A m \in Letters \ {l} : Shown'[m] = Shown[m]
    BY <1>one, Untouched
  <2> QED  BY ShownIsFunction, <1>one, <2>1
<1>1. CASE Mount
  <2> DEFINE v == VolumeOf(NewHost)
  <2>1. /\ \A o \in Owners : hosts'[o] = IF o = Mounting THEN {NewHost} ELSE hosts[o]
        /\ letter \in Letters /\ letters[letter] = "free"
        /\ letters' = [letters EXCEPT ![letter] = "ours"]
        /\ hosts[Mounting] = {} /\ hosts[Dropping] = {} /\ pc = "mount"
        /\ NewHost.letter = letter /\ letter' = letter
    BY <1>1, <1>t DEF Mount, IInv, OwnersInv, LocalsInv, NewHost
  <2>2. Shown[letter] = <<>>
    BY <2>1, ShownIs
  <2>3. \E o \in Owners : \E h \in hosts'[o] : h = NewHost
    BY <2>1
  <2>4. Shown'[letter] = v
    <3>1. HostOf(letter)' = NewHost
      <4>1. NewHost \in UNION {hosts'[q] : q \in Owners}
        BY <2>1
      <4>2. \A g \in UNION {hosts'[q] : q \in Owners} : g.letter = letter => g = NewHost
        BY <2>1 DEF IInv, LetterAccounting
      <4> QED  BY <2>1, <4>1, <4>2 DEF HostOf
    <3>2. letters'[letter] = "ours"
      BY <1>t, <2>1
    <3> QED  BY <2>1, <3>1, <3>2 DEF Shown, VolumeOf
  <2>5. v \in AllVolumes
    <3>1. <<NewHost.part, NewHost.vol>> \in Openable(NewHost.arrival)
      BY <2>1 DEF VolumesInv, NewHost
    <3>2. NewHost.arrival \in Arrivals
      BY <2>1 DEF NewHost, IInv, LocalsInv, Busy
    <3>3. v \in {<<NewHost.arrival, pv[1], pv[2]>> : pv \in Openable(NewHost.arrival)}
      BY <3>1 DEF VolumeOf
    <3> QED  BY <3>2, <3>3 DEF AllVolumes
  <2>6. \A m \in Letters : Shown[m] # v
    <3> SUFFICES ASSUME NEW m \in Letters, Shown[m] = v PROVE FALSE
        OBVIOUS
    <3>1. letters[m] \notin {"free", "foreign"}
      BY ShownIs, ThreeKinds
    <3>2. PICK o \in Owners : \E h \in hosts[o] : Shown[m] = VolumeOf(h)
      BY <3>1, ShownValues
    <3>3. PICK h \in hosts[o] : VolumeOf(h) = VolumeOf(NewHost)
      BY <3>2
    <3>4. h.arrival = cont.arrival /\ h.part = cont.part /\ h.vol = vi
      BY <3>3 DEF VolumeOf, NewHost
    <3>5. o \in Slots \/ o = Building
      BY <2>1
    <3>6. o \notin Slots
      BY <2>1, <3>4 DEF VolumesInv, Open, Busy
    <3>7. h.part < pi \/ (h.part = pi /\ h.vol < vi)
      BY <2>1, <3>3, <3>5, <3>6 DEF VolumesInv, Busy
    <3>8. h.part = pi /\ h.part \in Nat /\ vi \in Nat
      BY <2>1, <3>4, <1>t DEF VolumesInv, Open, Busy, Host, IInv, TypeOK
    <3> QED  BY <3>4, <3>7, <3>8
  <2>7. Shown' = [Shown EXCEPT ![letter] = v]
    <3>1. \A m \in Letters \ {letter} : letters'[m] = letters[m]
      BY <1>t, <2>1
    <3>2. \A o \in Owners : \A h \in hosts[o] : \E q \in Owners : h \in hosts'[q]
      BY <2>1
    <3> QED  BY <1>one, <2>1, <2>4, <3>1, <3>2
  <2>8. Promise!Show(letter, v)
    BY <2>2, <2>6, <2>7 DEF Promise!Show
  <2> QED  BY <2>1, <2>5, <2>8 DEF Promise!Next
<1>hide. ASSUME NEW o \in Owners, NEW h \in hosts[o],
                \A q \in Owners : hosts'[q] = IF q = o THEN hosts[o] \ {h} ELSE hosts[q],
                letters' = [letters EXCEPT ![h.letter] = "free"]
         PROVE  Promise!Next
  <2>1. h.letter \in Letters
    BY <1>t DEF Host
  <2>2. Shown[h.letter] \in AllVolumes
    <3>1. letters[h.letter] = "ours"
      BY <2>1 DEF IInv, LetterAccounting
    <3> QED  BY <2>1, <3>1, ShownValues
  <2>3. Shown'[h.letter] = <<>>
    <3>1. letters'[h.letter] = "free"
      BY <1>t, <1>hide, <2>1
    <3> QED  BY <2>1, <3>1 DEF Shown
  <2>4. Shown' = [Shown EXCEPT ![h.letter] = <<>>]
    <3>1. \A m \in Letters \ {h.letter} : letters'[m] = letters[m]
      BY <1>t, <1>hide, <2>1
    <3>2. \A q \in Owners : \A g \in hosts[q] :
             g.letter # h.letter => \E r \in Owners : g \in hosts'[r]
      BY <1>hide
    <3> QED  BY <1>one, <2>1, <2>3, <3>1, <3>2
  <2>5. Promise!Hide(h.letter)
    BY <2>2, <2>4 DEF Promise!Hide
  <2> QED  BY <2>1, <2>5 DEF Promise!Next
<1>2. ASSUME NEW h \in hosts[Dropping], Drop(h) PROVE Promise!Next
  <2>1. \A q \in Owners : hosts'[q] = IF q = Dropping THEN hosts[Dropping] \ {h} ELSE hosts[q]
    BY <1>2, <1>t DEF Drop
  <2> QED  BY <1>2, <1>hide, <2>1 DEF Drop
<1>3. CASE StartFails
  <2>1. /\ \A q \in Owners : hosts'[q] = IF q = Mounting THEN {} ELSE hosts[q]
        /\ letters' = [letters EXCEPT ![letter] = "free"]
        /\ hosts[Mounting] = {NewHost} /\ NewHost.letter = letter
    BY <1>3, <1>t DEF StartFails, IInv, OwnersInv, NewHost
  <2>2. /\ NewHost \in hosts[Mounting]
        /\ \A q \in Owners : hosts'[q] = IF q = Mounting THEN hosts[Mounting] \ {NewHost}
                                         ELSE hosts[q]
    BY <2>1
  <2> QED  BY <1>hide, <2>1, <2>2
<1>4. ASSUME NEW l \in Letters, ForeignMove(l) PROVE Promise!Next
  <2>0. hosts' = hosts
    BY <1>4 DEF ForeignMove
  <2>1. \A m \in Letters \ {l} : letters'[m] = letters[m]
    BY <1>4, <1>t DEF ForeignMove
  <2>2. CASE letters[l] = "free" /\ letters' = [letters EXCEPT ![l] = "foreign"]
    <3>1. Shown[l] = <<>>
      BY <2>2, ShownIs
    <3>2. letters'[l] = "foreign"
      BY <1>t, <2>2
    <3>3. Shown'[l] = <<"foreign">>
      BY <3>2 DEF Shown
    <3>4. Promise!Take(l)
      BY <1>one, <2>0, <2>1, <3>1, <3>3 DEF Promise!Take
    <3> QED  BY <3>4 DEF Promise!Next
  <2>3. CASE letters[l] = "foreign" /\ letters' = [letters EXCEPT ![l] = "free"]
    <3>1. Shown[l] = <<"foreign">>
      BY <2>3, ShownIs
    <3>2. letters'[l] = "free"
      BY <1>t, <2>3
    <3>3. Shown'[l] = <<>>
      BY <3>2 DEF Shown
    <3>4. Promise!Release(l)
      BY <1>one, <2>0, <2>1, <3>1, <3>3 DEF Promise!Release
    <3> QED  BY <3>4 DEF Promise!Next
  <2> QED  BY <1>4, <2>2, <2>3 DEF ForeignMove
<1>5. ASSUME NEW s \in Slots, Remove(s) PROVE Shown' = Shown
  <2>1. /\ letters' = letters
        /\ \A o \in Owners : hosts'[o] = IF o = Dropping THEN hosts[s]
                                         ELSE IF o = s THEN {} ELSE hosts[o]
        /\ hosts[Dropping] = {}
    BY <1>5, <1>t DEF Remove
  <2>2. \A o \in Owners : \A h \in hosts[o] : \E q \in Owners : h \in hosts'[q]
    BY <2>1
  <2> QED  BY <1>same, <2>1, <2>2
<1>6. CASE Start
  <2>1. /\ letters' = letters
        /\ \A o \in Owners : hosts'[o] = IF o = Mounting THEN {}
                                         ELSE IF o = Building
                                              THEN hosts[Building] \cup hosts[Mounting]
                                              ELSE hosts[o]
    BY <1>6, <1>t DEF Start
  <2>2. \A o \in Owners : \A h \in hosts[o] : \E q \in Owners : h \in hosts'[q]
    BY <2>1
  <2> QED  BY <1>same, <2>1, <2>2
<1>7. CASE EndDisk
  <2>0. n \in Slots /\ hosts[n] = {}
    BY <1>7 DEF EndDisk, IInv, TypeOK, OwnersInv, KeysOwnHosts, Busy
  <2>1. CASE hosts[Building] = {}
    BY <1>7, <1>same, <2>1 DEF EndDisk
  <2>2. CASE hosts[Building] # {}
    <3>1. /\ letters' = letters
          /\ \A o \in Owners : hosts'[o] = IF o = Building THEN {}
                                           ELSE IF o = n THEN hosts[Building] ELSE hosts[o]
      BY <1>7, <1>t, <2>2 DEF EndDisk
    <3>2. \A o \in Owners : \A h \in hosts[o] : \E q \in Owners : h \in hosts'[q]
      BY <2>0, <3>1
    <3> QED  BY <1>same, <3>1, <3>2
  <2> QED  BY <2>1, <2>2
<1>8. ASSUME letters' = letters, hosts' = hosts PROVE Shown' = Shown
  BY <1>8, <1>same
<1> QED
  <2>1. CASE RemovalCheck
    BY <2>1, <1>2, <1>5, <1>8 DEF RemovalCheck, StartRemovalCheck, EndProbe, StartArrivalCheck,
                                  DiskPresent, DiskGone
  <2>2. CASE ArrivalCheck
    BY <2>2, <1>1, <1>3, <1>6, <1>7, <1>8
       DEF ArrivalCheck, SkipMounted, SkipUnusable, ReadPartitions, OpenContainer, SkipPartition,
           SkipVolume, NextFreeLetter, NoLetterLeft, NewFilesystem, NewFilesystemFails,
           MountFails, EndVolumes
  <2>3. CASE Environment
    BY <2>3, <1>4, <1>8 DEF Environment, Plug, Unplug
  <2> QED  BY <2>1, <2>2, <2>3 DEF Next, WatchLoop

(* main.rs:255-300 and 330-335: the watcher implements DriveLetters.       *)
THEOREM KeepsThePromise == Spec => ImplementsDriveLetters
<1>1. Init => Promise!Init
  BY DEF Init, Promise!Init, Shown
<1>2. IInv /\ UNCHANGED vars => UNCHANGED Shown
  BY DEF vars, Shown, HostOf
<1>3. /\ IInv /\ IInv' /\ DiskInv /\ VolumesInv /\ VolumesInv' /\ [Next]_vars
      => [Promise!Next]_Shown
  BY <1>2, StepImplements
<1> QED
  BY <1>1, <1>3, Inductive, DisksKnown, VolumesKnown, PTL
     DEF Spec, ImplementsDriveLetters, Promise!Spec

=============================================================================
