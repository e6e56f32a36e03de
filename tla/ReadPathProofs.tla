--------------------------- MODULE ReadPathProofs ---------------------------
(***************************************************************************)
(* What a program gets when it reads a file: proofs about FileDevice,      *)
(* FileRead and Decmpfs, for any number of threads.  First the device on   *)
(* its own, for every device, every request and every way the system       *)
(* splits or fails a read; then files on it, plain or compressed, for any  *)
(* extents and any requests.                                               *)
(***************************************************************************)
EXTENDS Decmpfs, TLAPS

(* The invariant: the reader in progress is the one that holds the mutex,  *)
(* it works with the current guess, and the guess fits the device.         *)
HolderReads ==
    \A t \in Threads :
        /\ dpc[t] = "read" <=> mutex = t
        /\ mutex = t => guess[t] = align

GuessFits ==
    /\ align = Big => dev.sector = Big
    /\ align = 0 <=> ~ dev.raw

\* A raw device has delivered whole sectors.
DoneAligned ==
    \A t \in Threads : dpc[t] = "read" /\ dev.sector # 0 => done[t] % dev.sector = 0

IInv == DeviceTypeOK /\ HolderReads /\ GuessFits /\ DoneAligned /\ ReadsExactly

\* Euclidean division.
LEMMA Division ==
    ASSUME NEW z \in Int, NEW g \in Nat \ {0}
    PROVE  z = g * (z \div g) + (z % g) /\ z \div g \in Int /\ z % g \in 0 .. g - 1
<1>1. z = g * (z \div g) + (z % g)
  BY SMTT(60)
<1>2. z \div g \in Int /\ z % g \in 0 .. g - 1
  BY SMT
<1> QED
  BY <1>1, <1>2

\* Multiples of g: the two ends of a widened window, and sums.
LEMMA MultipleMod ==
    ASSUME NEW q \in Int, NEW g \in Nat \ {0}
    PROVE  (q * g) % g = 0
BY SMTT(60)

LEMMA RoundedDown ==
    ASSUME NEW w \in Int, NEW g \in Nat \ {0}
    PROVE  (w - (w % g)) % g = 0
<1> DEFINE q == w \div g
<1>1. w = g * q + (w % g) /\ q \in Int /\ w % g \in Int
  BY Division, SMT
<1>2. w - (w % g) = q * g
  BY <1>1, SMT
<1> QED
  BY <1>1, <1>2, MultipleMod

LEMMA SumMod ==
    ASSUME NEW a \in Int, NEW b \in Int, NEW g \in Nat \ {0}, a % g = 0, b % g = 0
    PROVE  (a + b) % g = 0
<1> DEFINE q == a \div g
           r == b \div g
<1>1. a = g * q + (a % g) /\ q \in Int /\ b = g * r + (b % g) /\ r \in Int
  BY Division
<1>2. a + b = (q + r) * g /\ q + r \in Int
  BY <1>1, SMT
<1> QED
  BY <1>2, MultipleMod

\* The widened window begins at most at the wanted offset and ends behind it.
LEMMA Widened ==
    ASSUME NEW w \in Nat, NEW e \in Nat, NEW g \in Nat \ {0}
    PROVE  /\ w - (w % g) \in Nat /\ w - (w % g) <= w
           /\ ((e + g - 1) \div g) * g \in Nat /\ e <= ((e + g - 1) \div g) * g
<1>1. w % g \in Nat /\ w % g <= w
  BY SMT
<1> DEFINE z == e + g - 1
           q == z \div g
           m == z % g
<1>2. z \in Int /\ z = g * q + m /\ q \in Int /\ m \in 0 .. g - 1
  <2>1. z \in Int
    BY SMT
  <2> HIDE DEF z
  <2> QED
    BY <2>1, Division
<1>3. q * g \in Int /\ q * g = g * q
  BY <1>2, SMT
<1>4. e <= q * g
  <2> HIDE DEF q, m
  <2> QED  BY <1>2, <1>3, SMT DEF z
<1> QED
  BY <1>1, <1>3, <1>4, SMT

\* The n bytes from address a on.
Bytes(a, n) == [k \in 1 .. n |-> a + k - 1]

\* What is copied out of a buffer that holds the window is the bytes asked for.
LEMMA CopiedOut ==
    ASSUME NEW from \in Nat, NEW to \in Nat, NEW w \in Nat, NEW len \in Nat,
           from <= w, w + len <= to
    PROVE  SubSeq(Bytes(from, to - from), w - from + 1, w - from + len) = Bytes(w, len)
<1> DEFINE bounce == [k \in 1 .. to - from |-> from + k - 1]
           lo == w - from
           s == SubSeq(bounce, lo + 1, lo + len)
           r == [k \in 1 .. len |-> w + k - 1]
<1>1. s = [k \in 1 .. len |-> bounce[lo + k]]
  BY SMT
<1>2. \A k \in 1 .. len : bounce[lo + k] = w + k - 1
  BY SMT
<1> QED
  BY <1>1, <1>2, Zenon DEF Bytes

\* The window of the read in progress holds the wanted bytes.
LEMMA WindowHolds ==
    ASSUME DeviceTypeOK, NEW t \in Threads
    PROVE  /\ Wanted(t) \in Nat /\ WantedEnd(t) \in Nat /\ WantedEnd(t) = Wanted(t) + ask[t].len
           /\ From(t) \in Nat /\ To(t) \in Nat
           /\ From(t) <= Wanted(t) /\ WantedEnd(t) <= To(t)
<1>1. dev \in DeviceType /\ ask[t] \in [off : Nat, len : Nat] /\ guess[t] \in {0, Small, Big}
  BY DeviceAssumption DEF DeviceTypeOK
<1>2. Wanted(t) \in Nat /\ WantedEnd(t) \in Nat /\ WantedEnd(t) = Wanted(t) + ask[t].len
  BY <1>1, SMT DEF Wanted, WantedEnd, DeviceType
<1>3. CASE guess[t] = 0
  BY <1>2, <1>3, <1>1, SMT DEF From, To, WantedEnd
<1>4. CASE guess[t] # 0
  <2>1. guess[t] \in Nat \ {0}
    BY <1>1, <1>4, SectorAssumption, SMT
  <2> QED
    BY <1>2, <1>4, <2>1, Widened DEF From, To
<1> QED
  BY <1>3, <1>4

\* So copying the wanted bytes out of it yields them.
LEMMA WindowCopied ==
    ASSUME DeviceTypeOK, NEW t \in Threads
    PROVE  SubSeq(Bytes(From(t), To(t) - From(t)),
                  Wanted(t) - From(t) + 1, Wanted(t) - From(t) + ask[t].len)
             = Bytes(Wanted(t), ask[t].len)
<1> DEFINE from == From(t)
           to == To(t)
           w == Wanted(t)
           len == ask[t].len
<1>1. from \in Nat /\ to \in Nat /\ w \in Nat /\ len \in Nat /\ from <= w
  BY WindowHolds DEF DeviceTypeOK
<1>2. w + len <= to
  BY WindowHolds
<1> HIDE DEF from, to, w, len
<1>3. SubSeq(Bytes(from, to - from), w - from + 1, w - from + len) = Bytes(w, len)
  BY <1>1, <1>2, CopiedOut
<1> QED
  BY <1>3 DEF from, to, w, len

LEMMA InitInvariant == DeviceInit => IInv
<1> SUFFICES ASSUME DeviceInit PROVE IInv
  OBVIOUS
<1>1. DeviceTypeOK
  BY DeviceAssumption, SectorAssumption, SMT DEF DeviceInit, DeviceTypeOK, DeviceType
<1>2. HolderReads /\ DoneAligned /\ ReadsExactly
  BY DeviceAssumption DEF DeviceInit, HolderReads, DoneAligned, ReadsExactly
<1>3. GuessFits
  BY SectorAssumption, DeviceAssumption, SMT DEF DeviceInit, GuessFits
<1> QED
  BY <1>1, <1>2, <1>3 DEF IInv

\* Reads at the sector size of the disk are not refused.
LEMMA RightGuessTaken ==
    ASSUME IInv, NEW t \in Threads, dpc[t] = "read", guess[t] = dev.sector
    PROVE  ~ Refused(t)
<1> DEFINE g == dev.sector
<1>1. SUFFICES ASSUME g # 0 PROVE ~ Refused(t)
  BY DEF Refused
<1>2. g \in Nat \ {0} /\ done[t] \in Int /\ done[t] % g = 0
  <2>a. dev \in DeviceType /\ done \in [Threads -> Nat]
    BY DeviceAssumption DEF IInv, DeviceTypeOK
  <2>1. g \in Nat \ {0} /\ done[t] \in Int
    BY <1>1, <2>a, SectorAssumption, SMT DEF DeviceType
  <2>2. done[t] % g = 0
    BY <1>1 DEF IInv, DoneAligned
  <2> QED
    BY <2>1, <2>2
<1>3. Wanted(t) \in Nat /\ WantedEnd(t) \in Nat /\ From(t) \in Nat
  BY WindowHolds DEF IInv
<1> HIDE DEF g
<1>4. From(t) % g = 0
  <2>1. From(t) = Wanted(t) - (Wanted(t) % g)
    BY <1>1 DEF From, g
  <2> QED
    BY <1>2, <1>3, <2>1, RoundedDown, SMT
<1>5. To(t) % g = 0
  <2> DEFINE q == (WantedEnd(t) + g - 1) \div g
  <2>1. To(t) = q * g
    BY <1>1 DEF To, g
  <2>2. q \in Int
    BY <1>2, <1>3, SMT
  <2> QED
    BY <1>2, <2>1, <2>2, MultipleMod
<1>6. Pos(t) % g = 0
  BY <1>2, <1>3, <1>4, SumMod, SMT DEF Pos
<1> QED
  BY <1>5, <1>6 DEF Refused, g

\* Where the next call of the loop stands: the read is refused only on large sectors.
LEMMA RefusedOnLarge ==
    ASSUME IInv, NEW t \in Threads, Reading(t), Refused(t), guess[t] < Big, guess[t] # 0
    PROVE  dev.sector = Big
<1>1. guess[t] = Small /\ dev.sector \in {0, Small, Big}
  BY DeviceAssumption, SectorAssumption, SMT DEF IInv, DeviceTypeOK, DeviceType
<1>2. dev.sector # Small
  BY <1>1, RightGuessTaken DEF Reading
<1> QED
  BY <1>1, <1>2 DEF Refused

\* One step of one thread keeps the invariant.
LEMMA StepInvariant ==
    ASSUME IInv, NEW t \in Threads,
           DeviceStep(t) \/ EndRead(t) \/ \E off, len \in Nat : CallRead(t, off, len)
    PROVE  IInv'
<1> USE DEF IInv
<1>a. /\ dev \in DeviceType /\ align \in {0, Small, Big}
      /\ dpc \in [Threads -> {"idle", "lock", "read", "ok", "err"}]
      /\ done \in [Threads -> Nat] /\ guess \in [Threads -> {0, Small, Big}]
      /\ mutex \in Threads \cup {NoThread}
  BY DeviceAssumption DEF DeviceTypeOK
<1>1. ASSUME NEW off \in Nat, NEW len \in Nat, CallRead(t, off, len) PROVE IInv'
  <2>1. DeviceTypeOK'
    BY <1>1, SMT DEF CallRead, DeviceTypeOK
  <2>2. HolderReads' /\ GuessFits'
    BY <1>1, <1>a, SMT DEF CallRead, HolderReads, GuessFits
  <2>3. DoneAligned'
    BY <1>1, <1>a, Zenon DEF CallRead, DoneAligned
  <2>4. ReadsExactly'
    BY <1>1, <1>a, SMT DEF CallRead, ReadsExactly
  <2> QED  BY <2>1, <2>2, <2>3, <2>4
<1>2. CASE Lock(t)
  <2>1. DeviceTypeOK'
    BY <1>2, SMT DEF Lock, DeviceTypeOK
  <2>2. HolderReads' /\ GuessFits'
    BY <1>2, <1>a, DeviceAssumption, SMT DEF Lock, HolderReads, GuessFits
  <2>3. DoneAligned'
    <3>1. dev.sector # 0 => dev.sector \in Nat \ {0}
      BY <1>a, SectorAssumption, SMT DEF DeviceType
    <3>2. dev.sector # 0 => 0 % dev.sector = 0
      BY <3>1, SMT
    <3>3. done' = [done EXCEPT ![t] = 0] /\ dev' = dev /\ dpc' = [dpc EXCEPT ![t] = "read"]
      BY <1>2 DEF Lock
    <3> QED
      BY <1>a, <3>2, <3>3, Zenon DEF DoneAligned
  <2>4. ReadsExactly'
    BY <1>2, <1>a, SMT DEF Lock, ReadsExactly
  <2> QED  BY <2>1, <2>2, <2>3, <2>4
<1>3. CASE ReadSome(t)
  <2>1. PICK n \in 1 .. To(t) - Pos(t) :
          /\ dev.sector # 0 => n % dev.sector = 0
          /\ done' = [done EXCEPT ![t] = @ + n]
    BY <1>3 DEF ReadSome
  <2>2. n \in Nat
    <3>1. To(t) \in Nat /\ From(t) \in Nat /\ done[t] \in Nat
      BY WindowHolds, <1>a
    <3> QED  BY <3>1, SMT DEF Pos
  <2>3. DeviceTypeOK'
    BY <1>3, <2>1, <2>2, SMT DEF ReadSome, DeviceTypeOK
  <2>4. HolderReads' /\ GuessFits' /\ ReadsExactly'
    BY <1>3 DEF ReadSome, HolderReads, GuessFits, ReadsExactly
  <2>5. DoneAligned'
    <3>1. dev' = dev /\ dpc' = dpc /\ dpc[t] = "read"
      BY <1>3 DEF ReadSome, Reading
    <3>2. dev.sector # 0 => (done[t] + n) % dev.sector = 0
      <4>1. dev.sector # 0 => dev.sector \in Nat \ {0}
        BY <1>a, SectorAssumption, SMT DEF DeviceType
      <4>2. done[t] \in Int /\ n \in Int
        BY <1>a, <2>2, SMT
      <4> QED
        BY <2>1, <3>1, <4>1, <4>2, SumMod DEF DoneAligned
    <3> QED
      BY <1>a, <2>1, <3>1, <3>2, Zenon DEF DoneAligned
  <2> QED  BY <2>3, <2>4, <2>5
<1>4. CASE ReadNothing(t)
  <2>1. DeviceTypeOK'
    BY <1>4, SMT DEF ReadNothing, Unlock, DeviceTypeOK
  <2>2. HolderReads' /\ GuessFits'
    BY <1>4, <1>a, DeviceAssumption, SMT DEF ReadNothing, Unlock, HolderReads, GuessFits
  <2>3. DoneAligned'
    BY <1>4, <1>a, Zenon DEF ReadNothing, DoneAligned
  <2>4. ReadsExactly'
    BY <1>4, <1>a, SMT DEF ReadNothing, ReadsExactly
  <2> QED  BY <2>1, <2>2, <2>3, <2>4
<1>5. CASE Escalate(t)
  <2>1. DeviceTypeOK'
    BY <1>5, SMT DEF Escalate, DeviceTypeOK
  <2>2. dev.sector = Big
    BY <1>5, RefusedOnLarge DEF Escalate
  <2>3. HolderReads' /\ GuessFits'
    BY <1>5, <1>a, <2>2, SectorAssumption, SMT DEF Escalate, Reading, HolderReads, GuessFits
  <2>4. DoneAligned'
    <3>1. 0 % dev.sector = 0
      BY <2>2, SectorAssumption, SMT
    <3>2. done' = [done EXCEPT ![t] = 0] /\ dev' = dev /\ dpc' = dpc
      BY <1>5 DEF Escalate
    <3> QED
      BY <1>a, <3>1, <3>2, Zenon DEF DoneAligned
  <2>5. ReadsExactly'
    BY <1>5 DEF Escalate, ReadsExactly
  <2> QED  BY <2>1, <2>3, <2>4, <2>5
<1>6. CASE ReadFails(t)
  <2>1. DeviceTypeOK'
    BY <1>6, DeviceAssumption, SMT DEF ReadFails, Unlock, DeviceTypeOK
  <2>2. HolderReads' /\ GuessFits'
    BY <1>6, <1>a, DeviceAssumption, SMT DEF ReadFails, Unlock, HolderReads, GuessFits
  <2>3. DoneAligned'
    BY <1>6, <1>a, Zenon DEF ReadFails, DoneAligned
  <2>4. ReadsExactly'
    BY <1>6, <1>a, SMT DEF ReadFails, ReadsExactly
  <2> QED  BY <2>1, <2>2, <2>3, <2>4
<1>7. CASE CopyOut(t)
  <2> DEFINE wanted == [k \in 1 .. ask[t].len |-> dev.start + ask[t].off + k - 1]
  <2>1. got' = [got EXCEPT ![t] = wanted]
    <3>1. Bytes(Wanted(t), ask[t].len) = wanted
      BY DEF Wanted, Bytes
    <3> QED
      BY <1>7, <3>1, WindowCopied DEF CopyOut, Bytes
  <2>2. wanted \in Seq(Nat)
    <3>1. dev.start \in Nat /\ ask[t].off \in Nat /\ ask[t].len \in Nat
      BY <1>a DEF DeviceType, DeviceTypeOK
    <3>2. \A k \in 1 .. ask[t].len : dev.start + ask[t].off + k - 1 \in Nat
      BY <3>1, SMT
    <3>3. wanted \in [1 .. ask[t].len -> Nat]
      BY <3>2, Zenon
    <3> HIDE DEF wanted
    <3> QED  BY <3>1, <3>3, SMT
  <2> HIDE DEF wanted
  <2>3. DeviceTypeOK'
    <3>1. /\ dev' = dev /\ align' = align /\ errors' = errors /\ ask' = ask
          /\ guess' = guess /\ done' = done /\ mutex' = NoThread
          /\ dpc' = [dpc EXCEPT ![t] = "ok"]
      BY <1>7 DEF CopyOut, Unlock
    <3> QED
      BY <2>1, <2>2, <3>1, SMT DEF DeviceTypeOK
  <2>4. HolderReads' /\ GuessFits'
    BY <1>7, <1>a, DeviceAssumption, SMT DEF CopyOut, Unlock, HolderReads, GuessFits
  <2>5. DoneAligned'
    BY <1>7, <1>a, Zenon DEF CopyOut, DoneAligned
  <2>6. ReadsExactly'
    <3>1. dev' = dev /\ ask' = ask /\ dpc' = [dpc EXCEPT ![t] = "ok"]
      BY <1>7 DEF CopyOut
    <3>2. got \in [Threads -> Seq(Nat)]
      BY DEF DeviceTypeOK
    <3> QED
      BY <1>a, <2>1, <3>1, <3>2, Zenon DEF ReadsExactly, wanted
  <2> QED  BY <2>3, <2>4, <2>5, <2>6
<1>8. CASE EndRead(t)
  <2>1. DeviceTypeOK'
    BY <1>8, SMT DEF EndRead, DeviceTypeOK
  <2>2. HolderReads' /\ GuessFits'
    BY <1>8, <1>a, SMT DEF EndRead, HolderReads, GuessFits
  <2>3. DoneAligned'
    BY <1>8, <1>a, Zenon DEF EndRead, DoneAligned
  <2>4. ReadsExactly'
    BY <1>8, <1>a, SMT DEF EndRead, ReadsExactly
  <2> QED  BY <2>1, <2>2, <2>3, <2>4
<1> QED
  BY <1>1, <1>2, <1>3, <1>4, <1>5, <1>6, <1>7, <1>8 DEF DeviceStep

\* Every step of the device on its own keeps the invariant.
LEMMA Inductive == DeviceSpec => []IInv
<1>1. DeviceInit => IInv
  BY InitInvariant
<1>2. IInv /\ [DeviceNext]_devVars => IInv'
  <2>1. CASE DeviceNext
    BY <2>1, StepInvariant, Zenon DEF DeviceNext
  <2>2. CASE UNCHANGED devVars
    BY <2>2, Zenon DEF devVars, IInv, DeviceTypeOK, HolderReads, GuessFits, DoneAligned, ReadsExactly
  <2> QED
    BY <2>1, <2>2
<1> QED
  BY <1>1, <1>2, PTL DEF DeviceSpec

(* The variables keep their types.                                         *)
THEOREM DeviceTypeCorrect == DeviceSpec => []DeviceTypeOK
<1>1. IInv => DeviceTypeOK
  BY DEF IInv
<1> QED
  BY <1>1, Inductive, PTL

(* A read that succeeds returned exactly the asked bytes, for all sector   *)
(* sizes that divide, all partitions, requests and numbers of readers,     *)
(* however the system splits a read and whenever the guess changes         *)
(* (SliceDevice::read_at over FileDevice::read_at and read_aligned).       *)
THEOREM ReadsAreExact == DeviceSpec => []ReadsExactly
<1>1. IInv => ReadsExactly
  BY DEF IInv
<1> QED
  BY <1>1, Inductive, PTL

(* The guess becomes the large sector only on a disk that has it, and the  *)
(* reader in progress always works with the current one (the change of     *)
(* `align` in FileDevice::read_at, under its mutex).                       *)
THEOREM GuessIsRight == DeviceSpec => []GuessSettles
<1>1. IInv => GuessSettles
  BY DEF IInv, GuessFits, HolderReads, GuessSettles
<1> QED
  BY <1>1, Inductive, PTL

----------------------------------------------------------------------------
\* Rounding up stays below a multiple.
LEMMA RoundedUpBelow ==
    ASSUME NEW e \in Nat, NEW g \in Nat \ {0}, NEW s \in Nat, e <= s, s % g = 0
    PROVE  ((e + g - 1) \div g) * g <= s
<1> DEFINE z == e + g - 1
           q == z \div g
           m == z % g
           k == s \div g
<1>1. z \in Int
  BY SMT
<1>2. z = g * q + m /\ q \in Int /\ m \in 0 .. g - 1
  <2> HIDE DEF z
  <2> QED
    BY <1>1, Division
<1>3. s = g * k /\ k \in Int
  <2>1. s = g * k + (s % g) /\ k \in Int
    BY Division
  <2> QED
    BY <2>1, SMT
<1>4. z <= s + g - 1
  BY SMT
<1> HIDE DEF z, q, m, k
<1>5. q <= k
  <2>1. SUFFICES ASSUME q - k - 1 \in Nat PROVE FALSE
    BY <1>2, <1>3, SMT
  <2>2. g * (q - k - 1) >= 0
    <3> DEFINE d == q - k - 1
    <3> HIDE DEF d
    <3>1. d \in Nat
      BY <2>1 DEF d
    <3>2. g * d >= 0
      BY <3>1, SMT
    <3> QED
      BY <3>2 DEF d
  <2>3. g * (q - k - 1) = g * q - g * k - g
    BY <1>2, <1>3, SMT
  <2>4. g * q \in Int /\ g * k \in Int
    BY <1>2, <1>3, SMT
  <2> QED
    BY <1>2, <1>3, <1>4, <2>2, <2>3, <2>4, SMT
<1>6. q * g <= k * g
  BY <1>2, <1>3, <1>5, SMT
<1> QED
  BY <1>3, <1>6, SMT DEF q, z

\* A multiple of a multiple.
LEMMA DividesThrough ==
    ASSUME NEW s \in Nat, NEW b \in Nat \ {0}, NEW a \in Nat \ {0}, s % b = 0, b % a = 0
    PROVE  s % a = 0
<1> DEFINE q == s \div b
           r == b \div a
<1>1. s = b * q + (s % b) /\ q \in Int /\ b = a * r + (b % a) /\ r \in Int
  BY Division
<1> HIDE DEF q, r
<1>2. s = b * q /\ b = a * r
  BY <1>1, SMT
<1>3. (a * r) * q = (q * r) * a /\ q * r \in Int
  BY <1>1, SMT
<1>4. s = (q * r) * a
  BY <1>2, <1>3, Zenon
<1> QED
  BY <1>3, <1>4, MultipleMod

(* A read under way is inside the partition, and one that failed was not,  *)
(* unless the system failed it.                                            *)
Served ==
    \A t \in Threads :
        /\ dpc[t] \in {"lock", "read"} => ask[t].off + ask[t].len <= dev.part
        /\ dpc[t] = "err" /\ errors = 0 => ask[t].off + ask[t].len > dev.part

\* The window of a read inside the partition is inside the disk.
LEMMA WindowInDisk ==
    ASSUME IInv, Served, NEW t \in Threads, dpc[t] = "read"
    PROVE  To(t) <= dev.size
<1>1. /\ dev \in DeviceType /\ dev.start + dev.part <= dev.size
      /\ dev.sector # 0 => dev.size % dev.sector = 0
      /\ dev.raw /\ dev.sector = 0 => dev.size % Small = 0
      /\ ask[t] \in [off : Nat, len : Nat] /\ guess[t] \in {0, Small, Big}
  BY DeviceAssumption DEF IInv, DeviceTypeOK
<1>2. WantedEnd(t) \in Nat /\ WantedEnd(t) <= dev.size
  BY <1>1, SMT DEF Served, WantedEnd, Wanted, DeviceType
<1>3. CASE guess[t] = 0
  BY <1>2, <1>3 DEF To
<1>4. CASE guess[t] # 0
  <2>1. guess[t] = align /\ dev.raw /\ (align = Big => dev.sector = Big)
    BY <1>4 DEF IInv, HolderReads, GuessFits
  <2>2. /\ guess[t] \in Nat \ {0} /\ dev.sector \in Nat /\ dev.size \in Nat
        /\ \/ guess[t] = Small /\ dev.sector = 0
           \/ dev.sector # 0 /\ dev.sector = guess[t]
           \/ guess[t] = Small /\ dev.sector = Big
    BY <1>1, <1>4, <2>1, SectorAssumption, SMT DEF DeviceType
  <2>3. dev.size % guess[t] = 0
    BY <1>1, <2>1, <2>2, SectorAssumption, DividesThrough
  <2>4. To(t) = ((WantedEnd(t) + guess[t] - 1) \div guess[t]) * guess[t]
    BY <1>4 DEF To
  <2> QED
    BY <1>2, <2>2, <2>3, <2>4, RoundedUpBelow
<1> QED
  BY <1>3, <1>4

\* One step of one thread keeps the requests served.
LEMMA StepServed ==
    ASSUME IInv, Served, NEW t \in Threads,
           DeviceStep(t) \/ EndRead(t) \/ \E off, len \in Nat : CallRead(t, off, len)
    PROVE  Served'
<1>a. /\ dpc \in [Threads -> {"idle", "lock", "read", "ok", "err"}]
      /\ ask \in [Threads -> [off : Nat, len : Nat]] /\ dev.part \in Nat
      /\ errors \in Nat
  BY DeviceAssumption, SMT DEF IInv, DeviceTypeOK, DeviceType
<1>1. ASSUME NEW off \in Nat, NEW len \in Nat, CallRead(t, off, len) PROVE Served'
  BY <1>1, <1>a, SMT DEF CallRead, Served
<1>2. CASE Lock(t)
  BY <1>2, <1>a, Zenon DEF Lock, Served
<1>3. CASE ReadSome(t) \/ Escalate(t)
  BY <1>3 DEF ReadSome, Escalate, Served
<1>4. CASE ReadNothing(t)
  <2>1. To(t) <= dev.size /\ Pos(t) < To(t) /\ Pos(t) >= dev.size
    BY <1>4, WindowInDisk DEF ReadNothing, Reading
  <2>2. To(t) \in Nat /\ From(t) \in Nat /\ done[t] \in Nat /\ dev.size \in Nat
    BY WindowHolds, DeviceAssumption DEF IInv, DeviceTypeOK, DeviceType
  <2> QED
    BY <2>1, <2>2, SMT DEF Pos
<1>5. CASE ReadFails(t)
  <2>1. ~ (Refused(t) /\ ~ (guess[t] < Big /\ guess[t] # 0))
    <3>1. SUFFICES ASSUME Refused(t), guess[t] = 0 \/ ~ (guess[t] < Big) PROVE FALSE
      OBVIOUS
    <3>2. dpc[t] = "read" /\ guess[t] = align /\ dev.raw
      BY <1>5, <3>1, DeviceAssumption DEF ReadFails, Reading, Refused, IInv, HolderReads, DeviceTypeOK
    <3>3. guess[t] = Big /\ guess[t] = dev.sector
      BY <3>1, <3>2, SectorAssumption, SMT DEF IInv, DeviceTypeOK, GuessFits
    <3> QED
      BY <3>1, <3>2, <3>3, RightGuessTaken
  <2>2. errors' = errors + 1 /\ errors' # 0
    BY <1>5, <1>a, <2>1, SMT DEF ReadFails
  <2>3. dev' = dev /\ ask' = ask /\ dpc' = [dpc EXCEPT ![t] = "err"]
    BY <1>5 DEF ReadFails
  <2> QED
    BY <1>a, <2>2, <2>3, Zenon DEF Served
<1>6. CASE CopyOut(t)
  BY <1>6, <1>a, Zenon DEF CopyOut, Served
<1>7. CASE EndRead(t)
  BY <1>7, <1>a, Zenon DEF EndRead, Served
<1> QED
  BY <1>1, <1>2, <1>3, <1>4, <1>5, <1>6, <1>7 DEF DeviceStep

(* A read inside the partition fails only if the system fails a legal      *)
(* read: on no disk does widening ask beyond the end, and no caller sees   *)
(* the error 87 of a wrong guess (read_aligned under FileDevice::read_at,  *)
(* device.rs:51-83).                                                       *)
THEOREM ReadsAreServed == DeviceSpec => []InRangeServed
<1>1. DeviceInit => Served
  BY DEF DeviceInit, Served
<1>2. IInv /\ Served /\ [DeviceNext]_devVars => Served'
  <2>1. ASSUME IInv, Served, DeviceNext PROVE Served'
    BY <2>1, StepServed DEF DeviceNext
  <2>2. Served /\ UNCHANGED devVars => Served'
    BY DEF devVars, Served
  <2> QED
    BY <2>1, <2>2
<1>3. Served => InRangeServed
  BY DEF Served, InRangeServed
<1> QED
  BY <1>1, <1>2, <1>3, Inductive, PTL DEF DeviceSpec

----------------------------------------------------------------------------
IsPlain(t) == req[t].file.kind = "plain"
Exts(t) == req[t].file.extents

\* The extent holds the byte at position p of its file, at this address.
Covers(e, p) == e.phys # 0 /\ e.logical <= p /\ p < e.logical + e.len
Addr(e, p) == dev.start + e.phys * BlockSize + (p - e.logical)

\* The buffer b of a read from `off` has what the extents before the i-th
\* hold, and is zero where they hold nothing.
Filled(b, exts, off, i) ==
    \A k \in 1 .. Len(b) :
        /\ \A j \in 1 .. i - 1 :
              Covers(exts[j], off + k - 1) => b[k] = Addr(exts[j], off + k - 1)
        /\ (\A j \in 1 .. i - 1 : ~ Covers(exts[j], off + k - 1)) => b[k] = 0

LenRight(t) == Len(out[t]) = Expected(Off(t), req[t].len, req[t].file.size)

\* What the read in progress asks the device for.
AskedFor(t) ==
    [off |-> Ext(t).phys * BlockSize + (ReadStart(t) - Ext(t).logical),
     len |-> ReadEnd(t) - ReadStart(t)]

ThreadInv(t) ==
    /\ req[t] \in Requests[t]
    /\ fpc[t] = "reading" <=> dpc[t] # "idle"
    /\ fpc[t] \in {"extent", "reading"} =>
         /\ IsPlain(t) /\ Off(t) < req[t].file.size
         /\ LenRight(t) /\ Filled(out[t], Exts(t), Off(t), ei[t])
         /\ ei[t] \in 1 .. Len(Exts(t)) + 1
    /\ fpc[t] = "begin" => ei[t] = 1 /\ out[t] = <<>>
    /\ fpc[t] = "reading" =>
         /\ ei[t] <= Len(Exts(t)) /\ Ext(t).phys # 0 /\ ReadStart(t) < ReadEnd(t)
         /\ ask[t] = AskedFor(t)
    /\ fpc[t] \in {"inline", "fork", "block"} => ~ IsPlain(t)
    /\ fpc[t] = "done" /\ IsPlain(t) =>
         /\ LenRight(t)
         /\ \A k \in 1 .. Len(out[t]) : out[t][k] = Content(req[t].file, Off(t) + k - 1)
    /\ fpc[t] = "failed" /\ IsPlain(t) => errors # 0

Functions == DOMAIN fpc = Threads /\ DOMAIN ei = Threads /\ DOMAIN out = Threads

PathInv ==
    /\ IInv /\ Served /\ Functions
    /\ \A t \in Threads : ThreadInv(t)

----------------------------------------------------------------------------
\* What is known of a request for a plain file.
LEMMA PlainFacts ==
    ASSUME PathInv, NEW t \in Threads
    PROVE  /\ Off(t) \in Nat /\ req[t].len \in Nat
           /\ req[t].file.kind \in {"plain", "dir", "compressed"}
           /\ IsPlain(t) =>
                /\ req[t].file.size \in Nat /\ Exts(t) \in Seq(Extent)
                /\ Separate(Exts(t)) /\ OnDisk(Exts(t), dev)
           /\ dev.start \in Nat /\ dev.part \in Nat
<1>1. req[t] \in Requests[t] /\ dev \in Devices /\ dev \in DeviceType
  BY DeviceAssumption DEF PathInv, ThreadInv, IInv, DeviceTypeOK
<1>2. dev.start \in Nat /\ dev.part \in Nat
  BY <1>1 DEF DeviceType
<1> QED
  BY <1>1, <1>2, RequestAssumption DEF Off, IsPlain, Exts

\* An extent that the range touches is read from where both begin.
LEMMA RangeInExtent ==
    ASSUME NEW e \in Extent, NEW off \in Nat, NEW n \in Nat, NEW p \in off .. off + n - 1
    PROVE  (e.logical <= p /\ p < e.logical + e.len)
             <=> (MaxOf(off, e.logical) <= p /\ p < MinOf(off + n, e.logical + e.len))
BY SMT DEF Extent, MaxOf, MinOf

\* One extent more: the bytes it holds are stored, the others stay.
LEMMA FilledNext ==
    ASSUME NEW exts \in Seq(Extent), Separate(exts), NEW i \in 1 .. Len(exts),
           NEW off \in Nat, NEW b, NEW c, Len(b) \in Nat, Len(c) = Len(b),
           Filled(b, exts, off, i),
           \A k \in 1 .. Len(b) :
              c[k] = IF Covers(exts[i], off + k - 1) THEN Addr(exts[i], off + k - 1) ELSE b[k]
    PROVE  Filled(c, exts, off, i + 1)
<1> SUFFICES ASSUME NEW k \in 1 .. Len(b)
             PROVE  /\ \A j \in 1 .. i :
                         Covers(exts[j], off + k - 1) => c[k] = Addr(exts[j], off + k - 1)
                    /\ (\A j \in 1 .. i : ~ Covers(exts[j], off + k - 1)) => c[k] = 0
  BY SMT DEF Filled
<1> DEFINE p == off + k - 1
<1>1. p \in Nat /\ \A j \in 1 .. i : exts[j] \in Extent /\ j \in DOMAIN exts
  BY SMT
<1> HIDE DEF p
<1>2. CASE Covers(exts[i], p)
  <2>1. \A j \in 1 .. i - 1 : ~ Covers(exts[j], p)
    <3> SUFFICES ASSUME NEW j \in 1 .. i - 1, Covers(exts[j], p) PROVE FALSE
      OBVIOUS
    <3>1. exts[j].logical + exts[j].len <= exts[i].logical
      BY <1>1, SMT DEF Separate
    <3>2. exts[i] \in Extent /\ exts[j] \in Extent
      BY SMT
    <3>3. exts[i].logical <= p /\ p < exts[j].logical + exts[j].len
      BY <1>2 DEF Covers
    <3>4. exts[i].logical \in Nat /\ exts[j].logical \in Nat /\ exts[j].len \in Nat /\ p \in Nat
      BY <1>1, <3>2 DEF Extent
    <3> DEFINE first == exts[j].logical
               len == exts[j].len
               next == exts[i].logical
    <3>5. /\ first + len <= next /\ next <= p /\ p < first + len
          /\ first \in Nat /\ len \in Nat /\ next \in Nat /\ p \in Nat
      BY <3>1, <3>3, <3>4
    <3> HIDE DEF first, len, next
    <3> QED
      BY <3>5, SMT
  <2>2. c[k] = Addr(exts[i], p)
    BY <1>2 DEF p
  <2>3. \A j \in 1 .. i : j = i \/ j \in 1 .. i - 1
    BY SMT
  <2> QED
    BY <1>2, <2>1, <2>2, <2>3 DEF p
<1>3. CASE ~ Covers(exts[i], p)
  <2>1. c[k] = b[k]
    BY <1>3 DEF p
  <2>2. \A j \in 1 .. i : j = i \/ j \in 1 .. i - 1
    BY SMT
  <2>3. \A j \in 1 .. i - 1 : j \in 1 .. i
    BY SMT
  <2>4. /\ \A j \in 1 .. i - 1 : Covers(exts[j], p) => b[k] = Addr(exts[j], p)
        /\ (\A j \in 1 .. i - 1 : ~ Covers(exts[j], p)) => b[k] = 0
    BY DEF Filled, p
  <2> QED
    BY <1>3, <2>1, <2>2, <2>3, <2>4 DEF p
<1> QED
  BY <1>2, <1>3

\* With every extent looked at, the buffer is the content of the file.
LEMMA FilledAll ==
    ASSUME NEW f, f.extents \in Seq(Extent), NEW off \in Nat, NEW b,
           NEW i, i = Len(f.extents) + 1, Filled(b, f.extents, off, i),
           NEW k \in 1 .. Len(b)
    PROVE  b[k] = Content(f, off + k - 1)
<1> DEFINE exts == f.extents
           p == off + k - 1
           over == {j \in DOMAIN exts : Covers(exts[j], p)}
<1>1. DOMAIN exts = 1 .. i - 1
  BY SMT
<1>2. /\ \A j \in 1 .. i - 1 : Covers(exts[j], p) => b[k] = Addr(exts[j], p)
      /\ (\A j \in 1 .. i - 1 : ~ Covers(exts[j], p)) => b[k] = 0
  BY DEF Filled
<1>3. Content(f, p) = IF over = {} THEN 0 ELSE Addr(exts[CHOOSE j \in over : TRUE], p)
  BY DEF Content, Covers, Addr
<1>4. CASE over = {}
  BY <1>1, <1>2, <1>3, <1>4
<1>5. CASE over # {}
  <2>1. (CHOOSE j \in over : TRUE) \in over
    BY <1>5
  <2> QED
    BY <1>1, <1>2, <1>3, <1>5, <2>1
<1> QED
  BY <1>4, <1>5

----------------------------------------------------------------------------
\* A thread keeps its invariant while others work, and while its own read of
\* the device goes on.
LEMMA ThreadFrame ==
    ASSUME NEW u \in Threads, ThreadInv(u), req' = req, dev' = dev,
           fpc'[u] = fpc[u], ei'[u] = ei[u], out'[u] = out[u], ask'[u] = ask[u],
           dpc'[u] = "idle" <=> dpc[u] = "idle", errors # 0 => errors' # 0
    PROVE  ThreadInv(u)'
<1>1. IsPlain(u)' = IsPlain(u) /\ Exts(u)' = Exts(u) /\ Off(u)' = Off(u) /\ LenRight(u)' = LenRight(u)
  BY DEF IsPlain, Exts, Off, LenRight
<1>2. Filled(out[u], Exts(u), Off(u), ei[u])' <=> Filled(out[u], Exts(u), Off(u), ei[u])
  BY <1>1 DEF Filled, Addr
<1>3. \A k : Content(req[u].file, Off(u) + k - 1)' = Content(req[u].file, Off(u) + k - 1)
  BY <1>1 DEF Content
<1>4. Ext(u)' = Ext(u) /\ ReadStart(u)' = ReadStart(u) /\ ReadEnd(u)' = ReadEnd(u)
  BY <1>1 DEF Ext, ReadStart, ReadEnd, Want
<1>5. AskedFor(u)' = AskedFor(u)
  BY <1>4 DEF AskedFor
<1>6. (\A k \in 1 .. Len(out[u]) : out[u][k] = Content(req[u].file, Off(u) + k - 1))'
        <=> \A k \in 1 .. Len(out[u]) : out[u][k] = Content(req[u].file, Off(u) + k - 1)
  BY <1>3
<1> QED
  BY <1>1, <1>2, <1>4, <1>5, <1>6 DEF ThreadInv

\* What a step of the device leaves alone.
LEMMA DeviceStepFrame ==
    ASSUME IInv, NEW t \in Threads,
           DeviceStep(t) \/ EndRead(t) \/ \E off, len \in Nat : CallRead(t, off, len)
    PROVE  /\ dev' = dev
           /\ \A u \in Threads \ {t} : dpc'[u] = dpc[u] /\ ask'[u] = ask[u]
           /\ errors # 0 => errors' # 0
<1>1. /\ DOMAIN dpc = Threads /\ DOMAIN ask = Threads /\ errors \in Nat
  BY DeviceAssumption, SMT DEF IInv, DeviceTypeOK
<1>2. CASE DeviceStep(t)
  <2>1. errors' = errors \/ errors' = errors + 1
    BY <1>2 DEF DeviceStep, Lock, ReadSome, ReadNothing, Escalate, ReadFails, CopyOut
  <2>2. errors # 0 => errors' # 0
    BY <1>1, <2>1, SMT
  <2> QED
    BY <1>1, <1>2, <2>2, Zenon
    DEF DeviceStep, Lock, ReadSome, ReadNothing, Escalate, ReadFails, CopyOut
<1>3. CASE EndRead(t)
  BY <1>1, <1>3, Zenon DEF EndRead
<1>4. ASSUME NEW off \in Nat, NEW len \in Nat, CallRead(t, off, len)
      PROVE  /\ dev' = dev
             /\ \A u \in Threads \ {t} : dpc'[u] = dpc[u] /\ ask'[u] = ask[u]
             /\ errors # 0 => errors' # 0
  BY <1>1, <1>4, Zenon DEF CallRead
<1> QED
  BY <1>2, <1>3, <1>4

\* A scan or a fork that does not read counts as a failure of the system.
LEMMA FailureKeepsDevice ==
    ASSUME IInv, Served, errors < MaxErrors, errors' = errors + 1,
           UNCHANGED <<dev, align, mutex, dpc, ask, guess, done, got>>
    PROVE  IInv' /\ Served' /\ errors' # 0
<1>1. errors' \in 0 .. MaxErrors /\ errors' # 0
  BY DeviceAssumption, SMT DEF IInv, DeviceTypeOK
<1>2. DeviceTypeOK'
  BY <1>1 DEF IInv, DeviceTypeOK
<1>3. HolderReads' /\ GuessFits' /\ DoneAligned' /\ ReadsExactly'
  BY DEF IInv, HolderReads, GuessFits, DoneAligned, ReadsExactly
<1>4. Served'
  BY <1>1 DEF Served
<1> QED
  BY <1>1, <1>2, <1>3, <1>4 DEF IInv

\* The other threads, when t makes a step.
LEMMA OthersKeep ==
    ASSUME PathInv, NEW t \in Threads, req' = req, dev' = dev, errors # 0 => errors' # 0,
           \A u \in Threads \ {t} : /\ fpc'[u] = fpc[u] /\ ei'[u] = ei[u] /\ out'[u] = out[u]
                                    /\ dpc'[u] = dpc[u] /\ ask'[u] = ask[u],
           IInv', Served', Functions', ThreadInv(t)'
    PROVE  PathInv'
<1>1. ASSUME NEW u \in Threads, u # t PROVE ThreadInv(u)'
  <2>1. ThreadInv(u)
    BY DEF PathInv
  <2>2. fpc'[u] = fpc[u] /\ ei'[u] = ei[u] /\ out'[u] = out[u] /\ ask'[u] = ask[u] /\ dpc'[u] = dpc[u]
    BY <1>1
  <2> HIDE DEF ThreadInv
  <2> QED
    BY <2>1, <2>2, ThreadFrame
<1> QED
  BY <1>1 DEF PathInv

\* The same, for a step that leaves the device alone.
LEMMA QuietKeeps ==
    ASSUME PathInv, NEW t \in Threads, UNCHANGED <<req, devVars>>,
           DOMAIN fpc' = Threads, DOMAIN ei' = Threads, DOMAIN out' = Threads,
           \A u \in Threads \ {t} : fpc'[u] = fpc[u] /\ ei'[u] = ei[u] /\ out'[u] = out[u],
           ThreadInv(t)'
    PROVE  PathInv'
<1>1. IInv' /\ Served'
  BY DEF PathInv, IInv, devVars, DeviceTypeOK, HolderReads, GuessFits, DoneAligned, ReadsExactly, Served
<1>2. dev' = dev /\ errors' = errors /\ dpc' = dpc /\ ask' = ask /\ req' = req
  BY DEF devVars
<1>3. Functions'
  BY DEF Functions
<1> QED
  BY <1>1, <1>2, <1>3, OthersKeep

----------------------------------------------------------------------------
LEMMA ZerosFacts ==
    ASSUME NEW n \in Nat
    PROVE  Len(Zeros(n)) = n /\ \A k \in 1 .. n : Zeros(n)[k] = 0
BY SMT DEF Zeros

LEMMA BufferLength ==
    ASSUME PathInv, NEW t \in Threads, fpc[t] \in {"extent", "reading"}
    PROVE  Want(t) \in Nat /\ Want(t) = Len(out[t]) /\ IsPlain(t)
<1>1. LenRight(t) /\ IsPlain(t) /\ Off(t) < req[t].file.size
  BY DEF PathInv, ThreadInv
<1>2. Off(t) \in Nat /\ req[t].len \in Nat /\ req[t].file.size \in Nat
  BY <1>1, PlainFacts
<1>3. Expected(Off(t), req[t].len, req[t].file.size) \in Nat
  BY <1>2, SMT DEF Expected, MinOf
<1> QED
  BY <1>1, <1>3 DEF Want, LenRight

\* The extent looked at, and what the range and it have in common.
LEMMA ExtentFacts ==
    ASSUME PathInv, NEW t \in Threads, fpc[t] \in {"extent", "reading"}, ei[t] <= Len(Exts(t))
    PROVE  /\ ei[t] \in 1 .. Len(Exts(t)) /\ Ext(t) = Exts(t)[ei[t]] /\ Ext(t) \in Extent
           /\ Ext(t).phys * BlockSize \in Nat
           /\ ReadStart(t) \in Nat /\ ReadEnd(t) \in Nat
           /\ Ext(t).logical <= ReadStart(t) /\ Off(t) <= ReadStart(t)
           /\ ReadEnd(t) <= Ext(t).logical + Ext(t).len /\ ReadEnd(t) <= Off(t) + Want(t)
           /\ \A k \in 1 .. Want(t) :
                Covers(Ext(t), Off(t) + k - 1)
                  <=> /\ Ext(t).phys # 0
                      /\ ReadStart(t) <= Off(t) + k - 1 /\ Off(t) + k - 1 < ReadEnd(t)
<1>1. Want(t) \in Nat /\ Off(t) \in Nat /\ Exts(t) \in Seq(Extent)
  BY BufferLength, PlainFacts
<1>2. ei[t] \in 1 .. Len(Exts(t))
  <2>1. ei[t] \in 1 .. Len(Exts(t)) + 1
    BY DEF PathInv, ThreadInv
  <2> QED
    BY <1>1, <2>1, SMT
<1>3. Ext(t) = Exts(t)[ei[t]] /\ Ext(t) \in Extent
  BY <1>1, <1>2 DEF Ext, Exts
<1>4. Ext(t).phys \in Nat /\ Ext(t).logical \in Nat /\ Ext(t).len \in Nat
  BY <1>3 DEF Extent
<1>5. Ext(t).phys * BlockSize \in Nat
  BY <1>4, BlockAssumption, SMT
<1>6. /\ ReadStart(t) \in Nat /\ ReadEnd(t) \in Nat
      /\ Ext(t).logical <= ReadStart(t) /\ Off(t) <= ReadStart(t)
      /\ ReadEnd(t) <= Ext(t).logical + Ext(t).len /\ ReadEnd(t) <= Off(t) + Want(t)
  BY <1>1, <1>4, SMT DEF ReadStart, ReadEnd, MaxOf, MinOf
<1>7. ASSUME NEW k \in 1 .. Want(t)
      PROVE  Covers(Ext(t), Off(t) + k - 1)
               <=> /\ Ext(t).phys # 0
                   /\ ReadStart(t) <= Off(t) + k - 1 /\ Off(t) + k - 1 < ReadEnd(t)
  <2>1. Off(t) + k - 1 \in Off(t) .. Off(t) + Want(t) - 1
    BY <1>1, SMT
  <2> QED
    BY <1>1, <1>3, <2>1, RangeInExtent DEF Covers, ReadStart, ReadEnd
<1> QED
  BY <1>2, <1>3, <1>5, <1>6, <1>7

LEMMA BeginInvariant ==
    ASSUME PathInv, NEW t \in Threads, BeginFile(t) PROVE PathInv'
<1>1. /\ req' = req /\ ei' = ei /\ UNCHANGED devVars /\ fpc[t] = "begin"
      /\ Functions /\ ThreadInv(t) /\ dpc' = dpc /\ errors' = errors
  BY DEF BeginFile, devVars, PathInv
<1>2. ei[t] = 1 /\ out[t] = <<>> /\ dpc[t] = "idle" /\ req[t] \in Requests[t]
  BY <1>1 DEF ThreadInv
<1>3. Off(t) \in Nat /\ req[t].len \in Nat
  BY PlainFacts
<1>4. CASE req[t].file.kind = "dir"
  <2>1. fpc' = [fpc EXCEPT ![t] = "failed"] /\ out' = out
    BY <1>4 DEF BeginFile
  <2>2. ThreadInv(t)'
    BY <1>1, <1>2, <1>4, <2>1 DEF ThreadInv, Functions, IsPlain
  <2> QED
    BY <1>1, <2>1, <2>2, QuietKeeps DEF Functions
<1>5. CASE req[t].file.kind # "dir"
  <2>1. IsPlain(t) /\ req[t].file.size \in Nat
    BY <1>5, PlainFacts DEF BeginFile, IsPlain
  <2>2. CASE Off(t) >= req[t].file.size
    <3>1. fpc' = [fpc EXCEPT ![t] = "done"] /\ out' = out
      BY <1>5, <2>2 DEF BeginFile
    <3>2. LenRight(t)' /\ Len(out[t]) = 0
      BY <1>1, <1>2, <2>2, <3>1, SMT DEF LenRight, Expected, Off
    <3>3. ThreadInv(t)'
      BY <1>1, <1>2, <3>1, <3>2 DEF ThreadInv, Functions
    <3> QED
      BY <1>1, <3>1, <3>3, QuietKeeps DEF Functions
  <2>3. CASE ~ (Off(t) >= req[t].file.size)
    <3> DEFINE n == MinOf(req[t].len, req[t].file.size - Off(t))
    <3>1. fpc' = [fpc EXCEPT ![t] = "extent"] /\ out' = [out EXCEPT ![t] = Zeros(n)]
      BY <1>5, <2>3 DEF BeginFile
    <3>2. n \in Nat /\ n = Expected(Off(t), req[t].len, req[t].file.size)
      BY <1>3, <2>1, <2>3, SMT DEF MinOf, Expected
    <3> HIDE DEF n
    <3>3. out'[t] = Zeros(n) /\ fpc'[t] = "extent"
      BY <1>1, <3>1 DEF Functions
    <3>4. LenRight(t)'
      BY <1>1, <3>2, <3>3, ZerosFacts DEF LenRight, Off
    <3>5. Filled(out[t], Exts(t), Off(t), ei[t])'
      <4>1. \A k \in 1 .. Len(Zeros(n)) : Zeros(n)[k] = 0
        BY <3>2, ZerosFacts
      <4>2. ei'[t] = 1
        BY <1>1, <1>2
      <4> QED
        BY <3>3, <4>1, <4>2, SMT DEF Filled
    <3>6. Off(t)' < req'[t].file.size /\ IsPlain(t)'
      BY <1>1, <1>3, <2>1, <2>3, SMT DEF Off, IsPlain
    <3>7. ei'[t] \in 1 .. Len(Exts(t))' + 1
      <4>1. Len(Exts(t)) \in Nat
        BY <2>1, PlainFacts, SMT
      <4> QED
        BY <1>1, <1>2, <4>1, SMT DEF Exts
    <3>8. ThreadInv(t)'
      BY <1>1, <1>2, <3>3, <3>4, <3>5, <3>6, <3>7 DEF ThreadInv
    <3> QED
      BY <1>1, <3>1, <3>8, QuietKeeps DEF Functions
  <2> QED
    BY <2>2, <2>3
<1> QED
  BY <1>4, <1>5

LEMMA SkipInvariant ==
    ASSUME PathInv, NEW t \in Threads, SkipExtent(t) PROVE PathInv'
<1>1. /\ req' = req /\ fpc' = fpc /\ out' = out /\ UNCHANGED devVars /\ dpc' = dpc /\ dev' = dev
      /\ fpc[t] = "extent" /\ ei[t] <= Len(Exts(t))
      /\ ei' = [ei EXCEPT ![t] = @ + 1] /\ Functions /\ ThreadInv(t)
  BY DEF SkipExtent, MoreExtents, devVars, PathInv, Exts
<1>2. /\ ei[t] \in 1 .. Len(Exts(t)) /\ Want(t) = Len(out[t]) /\ Want(t) \in Nat
      /\ Off(t) \in Nat /\ Exts(t) \in Seq(Extent) /\ Separate(Exts(t))
  BY <1>1, ExtentFacts, BufferLength, PlainFacts
<1>3. \A k \in 1 .. Want(t) : ~ Covers(Exts(t)[ei[t]], Off(t) + k - 1)
  <2>1. ReadStart(t) \in Nat /\ ReadEnd(t) \in Nat /\ Ext(t) = Exts(t)[ei[t]]
    BY <1>1, ExtentFacts
  <2>2. ReadStart(t) >= ReadEnd(t) \/ Ext(t).phys = 0
    BY DEF SkipExtent
  <2>3. \A k \in 1 .. Want(t) :
           Covers(Ext(t), Off(t) + k - 1)
              => Ext(t).phys # 0 /\ ReadStart(t) <= Off(t) + k - 1 /\ Off(t) + k - 1 < ReadEnd(t)
    BY <1>1, ExtentFacts
  <2> QED
    BY <1>2, <2>1, <2>2, <2>3, SMT
<1>4. Filled(out[t], Exts(t), Off(t), ei[t] + 1)
  <2>1. Filled(out[t], Exts(t), Off(t), ei[t])
    BY <1>1 DEF ThreadInv
  <2> QED
    BY <1>2, <1>3, <2>1, FilledNext
<1>5. ei'[t] = ei[t] + 1 /\ ei'[t] \in 1 .. Len(Exts(t)) + 1
  <2>1. ei'[t] = ei[t] + 1
    BY <1>1 DEF Functions
  <2> QED
    BY <1>2, <2>1, SMT
<1>6. ThreadInv(t)'
  <2>1. Exts(t)' = Exts(t) /\ Off(t)' = Off(t) /\ IsPlain(t)' = IsPlain(t) /\ LenRight(t)' = LenRight(t)
    BY <1>1 DEF Exts, Off, IsPlain, LenRight
  <2>2. Filled(out[t], Exts(t), Off(t), ei[t])'
    BY <1>1, <1>4, <1>5, <2>1 DEF Filled, Addr
  <2> QED
    BY <1>1, <1>5, <2>1, <2>2 DEF ThreadInv
<1> QED
  BY <1>1, <1>6, QuietKeeps DEF Functions

LEMMA ReadInvariant ==
    ASSUME PathInv, NEW t \in Threads, ReadExtent(t) PROVE PathInv'
<1> DEFINE off == AskedFor(t).off
           len == AskedFor(t).len
<1>1. /\ req' = req /\ ei' = ei /\ out' = out /\ fpc' = [fpc EXCEPT ![t] = "reading"]
      /\ fpc[t] = "extent" /\ ei[t] <= Len(Exts(t)) /\ Ext(t).phys # 0
      /\ ReadStart(t) < ReadEnd(t) /\ CallRead(t, off, len)
      /\ Functions /\ ThreadInv(t) /\ IInv /\ Served
  BY DEF ReadExtent, MoreExtents, PathInv, Exts, AskedFor
<1>2. off \in Nat /\ len \in Nat
  BY <1>1, ExtentFacts, SMT DEF AskedFor, Extent
<1>3. IInv' /\ Served'
  BY <1>1, <1>2, StepInvariant, StepServed
<1>4. /\ dev' = dev /\ (errors # 0 => errors' # 0)
      /\ \A u \in Threads \ {t} : dpc'[u] = dpc[u] /\ ask'[u] = ask[u]
  BY <1>1, <1>2, DeviceStepFrame
<1>5. dpc'[t] # "idle" /\ ask'[t] = AskedFor(t)
  <2>1. DOMAIN dpc = Threads /\ DOMAIN ask = Threads
    BY <1>1 DEF IInv, DeviceTypeOK
  <2>2. AskedFor(t) = [off |-> off, len |-> len]
    BY DEF AskedFor
  <2> QED
    BY <1>1, <2>1, <2>2, Zenon DEF CallRead
<1>6. Functions' /\ fpc'[t] = "reading"
  BY <1>1 DEF Functions
<1>7. ThreadInv(t)'
  <2>1. /\ Exts(t)' = Exts(t) /\ Off(t)' = Off(t) /\ IsPlain(t)' = IsPlain(t)
        /\ LenRight(t)' = LenRight(t) /\ Ext(t)' = Ext(t)
        /\ ReadStart(t)' = ReadStart(t) /\ ReadEnd(t)' = ReadEnd(t)
    BY <1>1 DEF Exts, Off, IsPlain, LenRight, Ext, ReadStart, ReadEnd, Want
  <2>2. Filled(out[t], Exts(t), Off(t), ei[t])' <=> Filled(out[t], Exts(t), Off(t), ei[t])
    BY <1>1, <1>4, <2>1 DEF Filled, Addr
  <2>3. AskedFor(t)' = AskedFor(t)
    BY <2>1 DEF AskedFor
  <2> QED
    BY <1>1, <1>5, <1>6, <2>1, <2>2, <2>3 DEF ThreadInv
<1> HIDE DEF off, len
<1>8. \A u \in Threads \ {t} : fpc'[u] = fpc[u] /\ ei'[u] = ei[u] /\ out'[u] = out[u]
  BY <1>1 DEF Functions
<1> QED
  BY <1>1, <1>3, <1>4, <1>6, <1>7, <1>8, OthersKeep

\* What the device delivered is what the extent holds of the range.
LEMMA DeliveredBytes ==
    ASSUME PathInv, NEW t \in Threads, fpc[t] = "reading", dpc[t] = "ok",
           NEW k \in 1 .. Want(t), k - 1 \in ReadStart(t) - Off(t) .. ReadEnd(t) - Off(t) - 1
    PROVE  got[t][k - (ReadStart(t) - Off(t))] = Addr(Ext(t), Off(t) + k - 1)
<1> DEFINE base == Ext(t).phys * BlockSize
           log == Ext(t).logical
           rs == ReadStart(t)
           re == ReadEnd(t)
           off == Off(t)
           j == k - (rs - off)
<1>1. /\ ei[t] <= Len(Exts(t)) /\ ask[t] = AskedFor(t) /\ rs < re
  BY DEF PathInv, ThreadInv
<1>2. /\ base \in Nat /\ log \in Nat /\ rs \in Nat /\ re \in Nat /\ off \in Nat
      /\ dev.start \in Nat /\ Want(t) \in Nat
  BY <1>1, ExtentFacts, PlainFacts, BufferLength DEF Extent
<1>3. got[t] = [m \in 1 .. ask[t].len |-> dev.start + ask[t].off + m - 1]
  BY DEF PathInv, IInv, ReadsExactly
<1>4. ask[t].off = base + (rs - log) /\ ask[t].len = re - rs
  BY <1>1 DEF AskedFor
<1> HIDE DEF base, log, rs, re, off
<1>5. j \in 1 .. re - rs /\ k \in Int
  BY <1>2, SMT DEF rs, re, off
<1>6. got[t][j] = dev.start + (base + (rs - log)) + j - 1
  BY <1>3, <1>4, <1>5
<1>7. dev.start + (base + (rs - log)) + j - 1 = dev.start + base + ((off + k - 1) - log)
  BY <1>2, <1>5, SMT
<1>8. Addr(Ext(t), Off(t) + k - 1) = dev.start + base + ((off + k - 1) - log)
  BY DEF Addr, base, log, off
<1>9. got[t][j] = Addr(Ext(t), Off(t) + k - 1)
  BY <1>6, <1>7, <1>8
<1> QED
  BY <1>9, Zenon DEF rs, off

LEMMA StoreInvariant ==
    ASSUME PathInv, NEW t \in Threads, StoreExtent(t) PROVE PathInv'
<1> DEFINE n == Want(t)
           In(k) == k - 1 \in ReadStart(t) - Off(t) .. ReadEnd(t) - Off(t) - 1
           new == [k \in 1 .. n |-> IF In(k) THEN got[t][k - (ReadStart(t) - Off(t))] ELSE out[t][k]]
<1>1. /\ req' = req /\ fpc[t] = "reading" /\ dpc[t] = "ok" /\ EndRead(t)
      /\ out' = [out EXCEPT ![t] = new]
      /\ ei' = [ei EXCEPT ![t] = @ + 1] /\ fpc' = [fpc EXCEPT ![t] = "extent"]
      /\ Functions /\ ThreadInv(t) /\ IInv /\ Served
  BY DEF StoreExtent, PathInv
<1>2. /\ ei[t] <= Len(Exts(t)) /\ Ext(t).phys # 0 /\ LenRight(t) /\ IsPlain(t)
      /\ Filled(out[t], Exts(t), Off(t), ei[t]) /\ Off(t) < req[t].file.size
  BY <1>1 DEF ThreadInv
<1>3. /\ ei[t] \in 1 .. Len(Exts(t)) /\ n = Len(out[t]) /\ n \in Nat /\ Off(t) \in Nat
      /\ Exts(t) \in Seq(Extent) /\ Separate(Exts(t)) /\ Ext(t) = Exts(t)[ei[t]]
      /\ ReadStart(t) \in Nat /\ ReadEnd(t) \in Nat
  BY <1>1, <1>2, ExtentFacts, BufferLength, PlainFacts
<1>4. /\ dev' = dev /\ (errors # 0 => errors' # 0)
      /\ \A u \in Threads \ {t} : dpc'[u] = dpc[u] /\ ask'[u] = ask[u]
  BY <1>1, DeviceStepFrame
<1>5. IInv' /\ Served'
  BY <1>1, StepInvariant, StepServed
<1>6. dpc'[t] = "idle"
  BY <1>1 DEF EndRead, IInv, DeviceTypeOK
<1>7. /\ Functions' /\ fpc'[t] = "extent" /\ ei'[t] = ei[t] + 1 /\ out'[t] = new
      /\ \A u \in Threads \ {t} : fpc'[u] = fpc[u] /\ ei'[u] = ei[u] /\ out'[u] = out[u]
  <2> HIDE DEF new
  <2> QED  BY <1>1 DEF Functions
<1>8. Len(new) = n
  BY <1>3, SMT
<1>9. \A k \in 1 .. n : new[k] = IF Covers(Ext(t), Off(t) + k - 1)
                                 THEN Addr(Ext(t), Off(t) + k - 1) ELSE out[t][k]
  <2> SUFFICES ASSUME NEW k \in 1 .. n
               PROVE  new[k] = IF Covers(Ext(t), Off(t) + k - 1)
                               THEN Addr(Ext(t), Off(t) + k - 1) ELSE out[t][k]
    OBVIOUS
  <2>1. Covers(Ext(t), Off(t) + k - 1) <=> In(k)
    <3>1. Covers(Ext(t), Off(t) + k - 1)
            <=> /\ Ext(t).phys # 0
                /\ ReadStart(t) <= Off(t) + k - 1 /\ Off(t) + k - 1 < ReadEnd(t)
      BY <1>1, <1>2, ExtentFacts
    <3> QED
      BY <1>2, <1>3, <3>1, SMT
  <2>2. CASE In(k)
    BY <1>1, <2>1, <2>2, DeliveredBytes
  <2>3. CASE ~ In(k)
    BY <2>1, <2>3
  <2> QED
    BY <2>2, <2>3
<1> HIDE DEF new, n
<1>10. Filled(new, Exts(t), Off(t), ei[t] + 1)
  BY <1>2, <1>3, <1>8, <1>9, FilledNext
<1>11. ThreadInv(t)'
  <2>1. Exts(t)' = Exts(t) /\ Off(t)' = Off(t) /\ IsPlain(t)' = IsPlain(t)
    BY <1>1 DEF Exts, Off, IsPlain
  <2>2. LenRight(t)'
    BY <1>1, <1>2, <1>3, <1>7, <1>8, <2>1 DEF LenRight
  <2>3. Filled(out[t], Exts(t), Off(t), ei[t])'
    BY <1>4, <1>7, <1>10, <2>1 DEF Filled, Addr
  <2>4. ei'[t] \in 1 .. Len(Exts(t))' + 1
    BY <1>3, <1>7, <2>1, SMT
  <2> QED
    BY <1>1, <1>2, <1>6, <1>7, <2>1, <2>2, <2>3, <2>4 DEF ThreadInv
<1> QED
  BY <1>1, <1>4, <1>5, <1>7, <1>11, OthersKeep

LEMMA FailInvariant ==
    ASSUME PathInv, NEW t \in Threads, ExtentFails(t) PROVE PathInv'
<1>1. /\ UNCHANGED <<req, ei, out>> /\ fpc[t] = "reading" /\ dpc[t] = "err" /\ EndRead(t)
      /\ fpc' = [fpc EXCEPT ![t] = "failed"]
      /\ Functions /\ ThreadInv(t) /\ IInv /\ Served
  BY DEF ExtentFails, PathInv
<1>2. errors # 0
  <2>1. SUFFICES ASSUME errors = 0 PROVE FALSE
    OBVIOUS
  <2>2. /\ ei[t] <= Len(Exts(t)) /\ Ext(t).phys # 0 /\ IsPlain(t) /\ ask[t] = AskedFor(t)
    BY <1>1 DEF ThreadInv
  <2>3. /\ ei[t] \in 1 .. Len(Exts(t)) /\ Ext(t) = Exts(t)[ei[t]] /\ Ext(t) \in Extent
        /\ Ext(t).phys * BlockSize \in Nat /\ ReadStart(t) \in Nat /\ ReadEnd(t) \in Nat
        /\ ReadEnd(t) <= Ext(t).logical + Ext(t).len
    BY <1>1, <2>2, ExtentFacts
  <2>4. Exts(t) \in Seq(Extent) /\ OnDisk(Exts(t), dev) /\ dev.part \in Nat
    BY <2>2, PlainFacts
  <2>5. Ext(t).phys * BlockSize + Ext(t).len <= dev.part
    <3>1. ei[t] \in DOMAIN Exts(t)
      BY <2>3, <2>4, SMT
    <3> QED
      BY <2>2, <2>3, <2>4, <3>1 DEF OnDisk
  <2>6. AskedFor(t).off + AskedFor(t).len > dev.part
    BY <1>1, <2>1, <2>2 DEF Served
  <2> DEFINE base == Ext(t).phys * BlockSize
             log == Ext(t).logical
             len == Ext(t).len
             rs == ReadStart(t)
             re == ReadEnd(t)
  <2>7. base + (rs - log) + (re - rs) > dev.part
    BY <2>6 DEF AskedFor
  <2>8. base \in Nat /\ log \in Nat /\ len \in Nat /\ rs \in Nat /\ re \in Nat
    BY <2>3 DEF Extent
  <2>9. base + len <= dev.part /\ re <= log + len
    BY <2>3, <2>5
  <2> HIDE DEF base, log, len, rs, re
  <2> QED
    BY <2>4, <2>7, <2>8, <2>9, SMT
<1>3. /\ dev' = dev /\ (errors # 0 => errors' # 0)
      /\ \A u \in Threads \ {t} : dpc'[u] = dpc[u] /\ ask'[u] = ask[u]
  BY <1>1, DeviceStepFrame
<1>4. IInv' /\ Served'
  BY <1>1, StepInvariant, StepServed
<1>5. dpc'[t] = "idle"
  BY <1>1 DEF EndRead, IInv, DeviceTypeOK
<1>6. /\ Functions' /\ fpc'[t] = "failed"
      /\ \A u \in Threads \ {t} : fpc'[u] = fpc[u] /\ ei'[u] = ei[u] /\ out'[u] = out[u]
  BY <1>1 DEF Functions
<1>7. ThreadInv(t)'
  BY <1>1, <1>2, <1>3, <1>5, <1>6 DEF ThreadInv
<1> QED
  BY <1>1, <1>3, <1>4, <1>6, <1>7, OthersKeep

LEMMA EndFileInvariant ==
    ASSUME PathInv, NEW t \in Threads, EndFile(t) PROVE PathInv'
<1>1. /\ UNCHANGED <<req, ei, out, devVars>> /\ fpc[t] = "extent" /\ ei[t] > Len(Exts(t))
      /\ fpc' = [fpc EXCEPT ![t] = "done"] /\ Functions /\ ThreadInv(t) /\ dev' = dev /\ dpc' = dpc
  BY DEF EndFile, PathInv, devVars, Exts
<1>2. /\ IsPlain(t) /\ LenRight(t) /\ Filled(out[t], Exts(t), Off(t), ei[t])
      /\ ei[t] \in 1 .. Len(Exts(t)) + 1
  BY <1>1 DEF ThreadInv
<1>3. Exts(t) \in Seq(Extent) /\ Off(t) \in Nat
  BY <1>2, PlainFacts
<1>4. ei[t] = Len(Exts(t)) + 1
  BY <1>1, <1>2, <1>3, SMT
<1>5. \A k \in 1 .. Len(out[t]) : out[t][k] = Content(req[t].file, Off(t) + k - 1)
  BY <1>2, <1>3, <1>4, FilledAll DEF Exts
<1>6. ThreadInv(t)'
  <2>1. IsPlain(t)' /\ LenRight(t)' /\ fpc'[t] = "done"
    BY <1>1, <1>2 DEF IsPlain, LenRight, Off, Functions
  <2>2. (\A k \in 1 .. Len(out[t]) : out[t][k] = Content(req[t].file, Off(t) + k - 1))'
    BY <1>1, <1>5 DEF Content, Off
  <2> QED
    BY <1>1, <2>1, <2>2 DEF ThreadInv
<1> QED
  BY <1>1, <1>6, QuietKeeps DEF Functions

\* The volume, the scan of the extent records, the attribute or the fork fails.
LEMMA FaultInvariant ==
    ASSUME PathInv, NEW t \in Threads,
           VolumeFails(t) \/ ExtentsFail(t) \/ XattrFails(t)
    PROVE  PathInv'
<1>1. /\ req' = req /\ ei' = ei /\ out' = out /\ fpc[t] \in {"begin", "extent", "fork"}
      /\ fpc' = [fpc EXCEPT ![t] = "failed"] /\ errors < MaxErrors /\ errors' = errors + 1
      /\ UNCHANGED <<dev, align, mutex, dpc, ask, guess, done, got>>
      /\ Functions /\ ThreadInv(t) /\ IInv /\ Served
  BY DEF VolumeFails, ExtentsFail, XattrFails, Result, PathInv
<1>2. IInv' /\ Served' /\ errors' # 0
  BY <1>1, FailureKeepsDevice
<1>3. /\ Functions' /\ fpc'[t] = "failed"
      /\ \A u \in Threads \ {t} : fpc'[u] = fpc[u] /\ ei'[u] = ei[u] /\ out'[u] = out[u]
  BY <1>1 DEF Functions
<1>4. ThreadInv(t)'
  BY <1>1, <1>2, <1>3 DEF ThreadInv
<1> QED
  BY <1>1, <1>2, <1>3, <1>4, OthersKeep

LEMMA DeviceInvariant ==
    ASSUME PathInv, NEW t \in Threads, DeviceStep(t), UNCHANGED fileVars PROVE PathInv'
<1>1. UNCHANGED <<req, fpc, ei, out>> /\ Functions /\ ThreadInv(t) /\ IInv /\ Served
  BY DEF fileVars, PathInv
<1>2. /\ dev' = dev /\ (errors # 0 => errors' # 0)
      /\ \A u \in Threads \ {t} : dpc'[u] = dpc[u] /\ ask'[u] = ask[u]
  BY <1>1, DeviceStepFrame
<1>3. IInv' /\ Served'
  BY <1>1, StepInvariant, StepServed
<1>4. dpc[t] # "idle" /\ dpc'[t] # "idle" /\ ask' = ask
  <2>1. DOMAIN dpc = Threads
    BY <1>1 DEF IInv, DeviceTypeOK
  <2> QED
    BY <2>1 DEF DeviceStep, Lock, ReadSome, ReadNothing, Escalate, ReadFails, CopyOut, Reading
<1>5. ThreadInv(t)'
  BY <1>1, <1>2, <1>4, ThreadFrame
<1> QED
  BY <1>1, <1>2, <1>3, <1>5, OthersKeep DEF Functions

\* Compressed files keep to themselves.
LEMMA CompressedInvariant ==
    ASSUME PathInv, NEW t \in Threads, ReadCompressed(t) PROVE PathInv'
<1>1. CASE XattrFails(t)
  BY <1>1, FaultInvariant
<1>2. CASE ~ XattrFails(t)
  <2>1. UNCHANGED <<req, ei, devVars>> /\ dpc' = dpc /\ Functions /\ ThreadInv(t)
    BY <1>2 DEF ReadCompressed, BeginCompressed, CopyInline, OpenFork, CopyBlock, EndBlocks,
       Quiet, PathInv, devVars
  <2>2. /\ ~ IsPlain(t)
        /\ fpc[t] \in {"begin", "inline", "fork", "block"}
    BY <1>2, <2>1 DEF ReadCompressed, BeginCompressed, CopyInline, OpenFork, CopyBlock, EndBlocks,
       ThreadInv, IsPlain, File
  <2>3. \/ fpc' = fpc /\ fpc[t] = "block"
        \/ \E r \in {"failed", "done", "inline", "fork", "block", "panic"} :
              fpc' = [fpc EXCEPT ![t] = r]
    BY <1>2 DEF ReadCompressed, BeginCompressed, CopyInline, OpenFork, CopyBlock, EndBlocks, Result
  <2>4. out' = out \/ \E b : out' = [out EXCEPT ![t] = b]
    BY <1>2 DEF ReadCompressed, BeginCompressed, CopyInline, OpenFork, CopyBlock, EndBlocks
  <2>5. /\ DOMAIN fpc' = Threads /\ DOMAIN out' = Threads
        /\ fpc'[t] \in {"failed", "done", "inline", "fork", "block", "panic"}
        /\ \A u \in Threads \ {t} : fpc'[u] = fpc[u] /\ out'[u] = out[u]
    BY <2>1, <2>3, <2>4 DEF Functions
  <2>6. ThreadInv(t)'
    BY <2>1, <2>2, <2>5 DEF ThreadInv, IsPlain
  <2> QED
    BY <2>1, <2>5, <2>6, QuietKeeps DEF Functions
<1> QED
  BY <1>1, <1>2

LEMMA PathInductive == Spec => []PathInv
<1>1. Init => PathInv
  <2> SUFFICES ASSUME Init PROVE PathInv
    OBVIOUS
  <2>1. IInv /\ Served
    BY InitInvariant DEF Init, DeviceInit, Served
  <2>2. Functions
    BY DEF Init, FileInit, Functions
  <2>3. ASSUME NEW t \in Threads PROVE ThreadInv(t)
    BY DEF Init, FileInit, DeviceInit, ThreadInv
  <2> QED
    BY <2>1, <2>2, <2>3 DEF PathInv
<1>2. PathInv /\ Next => PathInv'
  <2> SUFFICES ASSUME PathInv, NEW t \in Threads,
                      ReadCompressed(t) \/ ReadFileAt(t)
               PROVE PathInv'
    BY DEF Next
  <2> QED
    BY BeginInvariant, SkipInvariant, ReadInvariant, StoreInvariant, FailInvariant, EndFileInvariant,
       FaultInvariant, DeviceInvariant, CompressedInvariant DEF ReadFileAt
<1>3. PathInv /\ UNCHANGED vars => PathInv'
  <2> SUFFICES ASSUME PathInv, UNCHANGED vars PROVE PathInv'
    OBVIOUS
  <2>1. UNCHANGED <<req, devVars, fpc, ei, out>>
    BY DEF vars, fileVars
  <2>2. IInv' /\ Served' /\ Functions'
    BY <2>1 DEF PathInv, IInv, devVars, DeviceTypeOK, HolderReads, GuessFits, DoneAligned,
       ReadsExactly, Served, Functions
  <2>3. ASSUME NEW t \in Threads PROVE ThreadInv(t)'
    BY <2>1, ThreadFrame DEF PathInv, devVars
  <2> QED
    BY <2>2, <2>3 DEF PathInv
<1> QED
  BY <1>1, <1>2, <1>3, PTL DEF Spec

----------------------------------------------------------------------------
(* What a read of a plain file returns is the file: each byte from the     *)
(* extent that holds it, zeros where none does, as many as were asked for  *)
(* and the file still has - for any separate extents, any range, any disk  *)
(* and any number of threads (read_file_at, fs.rs:292-331).                *)
THEOREM ReadsAreTheFile == Spec => []ReadsFile
<1>1. PathInv => ReadsFile
  BY DEF PathInv, ThreadInv, ReadsFile, LenRight, IsPlain
<1> QED
  BY <1>1, PathInductive, PTL

(* A plain file whose extents lie in the partition is read without an      *)
(* error unless the system fails a read (read_file_at over the devices).   *)
THEOREM FilesAreServed == Spec => []FileServed
<1>1. PathInv => FileServed
  BY DEF PathInv, ThreadInv, FileServed, IsPlain
<1> QED
  BY <1>1, PathInductive, PTL

(* The promises of the device hold under the readers of files, too: what   *)
(* a successful read returns, that reads in the partition are served, and  *)
(* where the guess settles.                                                *)
THEOREM DeviceUnderFiles == Spec => [](ReadsExactly /\ InRangeServed /\ GuessSettles)
<1>1. PathInv => ReadsExactly /\ InRangeServed /\ GuessSettles
  BY DEF PathInv, IInv, Served, InRangeServed, GuessSettles, GuessFits, HolderReads
<1> QED
  BY <1>1, PathInductive, PTL

----------------------------------------------------------------------------
(* Compressed files.  While the blocks are copied, what is in front of the *)
(* loop's position is the file; the rest of the buffer is not yet.         *)
IsPacked(t) == File(t).kind = "compressed"

PackedByte(t, k) == IF HasByte(File(t), Off(t) + k - 1) THEN Off(t) + k ELSE 0

PackedInv(t) ==
    /\ fpc[t] \in {"inline", "fork", "block"} =>
         /\ IsPacked(t) /\ File(t).header /\ File(t).type # "unsupported"
         /\ Off(t) < File(t).size
         /\ Want(t) = MinOf(req[t].len, File(t).size - Off(t))
         /\ fpc[t] = "inline" <=> File(t).type # "rsrc"
    /\ fpc[t] = "block" =>
         /\ File(t).listed = BlockCount(File(t).size)
         /\ copied[t] \in 0 .. Want(t)
         /\ \A k \in 1 .. copied[t] : out[t][k] = PackedByte(t, k)
    /\ fpc[t] = "done" /\ IsPacked(t) =>
         /\ Len(out[t]) = Expected(Off(t), req[t].len, File(t).size)
         /\ \A k \in 1 .. Len(out[t]) : out[t][k] = PackedByte(t, k)
    /\ fpc[t] \in {"failed", "panic"} /\ IsPacked(t) => errors # 0 \/ ~ Whole(File(t))

ForksInv == DOMAIN copied = Threads /\ \A t \in Threads : PackedInv(t)

\* What is known of a request for a compressed file.
LEMMA PackedFacts ==
    ASSUME PathInv, NEW t \in Threads, IsPacked(t)
    PROVE  /\ Off(t) \in Nat /\ req[t].len \in Nat
           /\ File(t).header \in BOOLEAN
           /\ File(t).header =>
                /\ File(t).type \in Types /\ File(t).size \in Nat
                /\ File(t).blocks \in Seq(Nat \cup {Broken})
                /\ File(t).type \in InXattr => Len(File(t).blocks) = 1
                /\ File(t).type = "rsrc" => Len(File(t).blocks) = BlockCount(File(t).size)
<1>1. req[t] \in Requests[t]
  BY DEF PathInv, ThreadInv
<1> QED
  BY <1>1, RequestAssumption, CompressedAssumption DEF Off, File, IsPacked, InXattr

\* Block b of g bytes each: what lies in it, and that it is one of them.
LEMMA Divided ==
    ASSUME NEW z \in Nat, NEW g \in Nat \ {0}
    PROVE  z = g * (z \div g) + (z % g) /\ z \div g \in Int /\ z % g \in 0 .. g - 1
<1>1. z \in Int
  OBVIOUS
<1> QED
  BY <1>1, Division

LEMMA InBlock ==
    ASSUME NEW p \in Nat, NEW g \in Nat \ {0}, NEW b \in Nat, NEW w \in 0 .. g - 1,
           p = b * g + w
    PROVE  p \div g = b /\ p % g = w
<1>1. p = g * (p \div g) + (p % g) /\ p \div g \in Int /\ p % g \in 0 .. g - 1
  BY Divided, Zenon
<1> DEFINE q == p \div g
           r == p % g
<1>2. q \in Int /\ r \in 0 .. g - 1 /\ g * q + r = b * g + w
  BY <1>1
<1> HIDE DEF q, r
<1>3. ~ (q < b)
  <2> SUFFICES ASSUME q + 1 <= b PROVE FALSE
    BY <1>2, SMT
  <2>1. g * (q + 1) <= g * b
    BY <1>2, SMTT(60)
  <2>2. g * (q + 1) = g * q + g /\ g * b = b * g
    BY <1>2, SMTT(60)
  <2>3. g * q \in Int /\ b * g \in Int /\ g * (q + 1) \in Int
    BY <1>2, SMT
  <2> QED
    BY <1>2, <2>1, <2>2, <2>3, SMT
<1>4. ~ (q > b)
  <2> SUFFICES ASSUME b + 1 <= q PROVE FALSE
    BY <1>2, SMT
  <2>1. g * (b + 1) <= g * q
    BY <1>2, SMTT(60)
  <2>2. g * (b + 1) = b * g + g
    BY SMTT(60)
  <2>3. g * q \in Int /\ b * g \in Int
    BY <1>2, SMT
  <2> QED
    BY <1>2, <2>1, <2>2, <2>3, SMT
<1>5. q = b
  BY <1>2, <1>3, <1>4, SMT
<1>6. r = w
  <2>1. g * q = b * g
    BY <1>5, SMTT(60)
  <2>2. b * g \in Int
    BY SMT
  <2> QED
    BY <1>2, <2>1, <2>2, SMT
<1> QED
  BY <1>5, <1>6 DEF q, r

LEMMA BlockExists ==
    ASSUME NEW p \in Nat, NEW size \in Nat, p < size
    PROVE  /\ p \div BlockLen \in Nat /\ p % BlockLen \in 0 .. BlockLen - 1
           /\ p = (p \div BlockLen) * BlockLen + (p % BlockLen)
           /\ (p \div BlockLen) * BlockLen \in Nat
           /\ (p \div BlockLen) + 1 \in 1 .. BlockCount(size)
<1> DEFINE g == BlockLen
           b == p \div g
           w == p % g
           z == size + g - 1
           c == z \div g
           r == z % g
<1>0. g \in Nat \ {0}
  BY BlockLenAssumption
<1>1. p = g * b + w /\ b \in Int /\ w \in 0 .. g - 1
  BY <1>0, Divided, Zenon
<1>2. z = g * c + r /\ c \in Int /\ r \in 0 .. g - 1
  <2>1. z \in Nat
    BY <1>0, SMT
  <2> HIDE DEF g, z
  <2> QED  BY <1>0, <2>1, Divided, Zenon
<1>3. size + g - 1 = g * c + r
  BY <1>2
<1> HIDE DEF g, b, w, z, c, r
<1>4. g * b = b * g /\ b * g \in Int /\ g * c \in Int
  BY <1>0, <1>1, <1>2, SMTT(60)
<1>5. b \in Nat
  <2> SUFFICES ASSUME b <= -1 PROVE FALSE
    BY <1>1, SMT
  <2>1. g * b <= g * (-1)
    BY <1>0, <1>1, SMTT(60)
  <2>2. g * (-1) = - g
    BY <1>0, SMT
  <2> QED
    BY <1>0, <1>1, <1>4, <2>1, <2>2, SMT
<1>6. b * g \in Nat
  BY <1>0, <1>5, SMTT(60)
<1>7. b < c
  <2> SUFFICES ASSUME c <= b PROVE FALSE
    BY <1>2, <1>5, SMT
  <2>1. g * c <= g * b
    BY <1>0, <1>2, <1>5, SMTT(60)
  <2>2. size <= g * c
    BY <1>0, <1>2, <1>3, <1>4, SMT
  <2> QED
    BY <1>0, <1>1, <1>4, <2>1, <2>2, SMT
<1>8. b + 1 \in 1 .. c
  BY <1>2, <1>5, <1>7, SMT
<1> QED
  BY <1>1, <1>4, <1>5, <1>6, <1>8 DEF g, b, w, z, c, BlockCount

\* The turn of the loop at copied[t]: its block exists and gives some bytes.
LEMMA TurnFacts ==
    ASSUME PathInv, ForksInv, NEW t \in Threads, fpc[t] = "block", copied[t] < Want(t)
    PROVE  /\ Off(t) \in Nat /\ copied[t] \in Nat /\ Want(t) \in Nat /\ Off(t) < File(t).size
           /\ BlockIdx(t) \in Nat /\ Within(t) \in 0 .. BlockLen - 1
           /\ BlockIdx(t) * BlockLen \in Nat
           /\ At(t) = BlockIdx(t) * BlockLen + Within(t) /\ At(t) = Off(t) + copied[t]
           /\ BlockIdx(t) + 1 \in 1 .. BlockCount(File(t).size)
           /\ Take(t) \in Nat \ {0} /\ Take(t) <= Want(t) - copied[t]
           /\ Within(t) < UncompLen(t) /\ Within(t) + Take(t) <= BlockLen
           /\ UncompLen(t) = MinOf(File(t).size - BlockIdx(t) * BlockLen, BlockLen)
           /\ File(t).type = "rsrc" /\ File(t).header /\ IsPacked(t)
           /\ File(t).blocks[BlockIdx(t) + 1] \in Nat \cup {Broken}
<1> DEFINE size == File(t).size
           pos == At(t)
           base == BlockIdx(t) * BlockLen
<1>1. /\ IsPacked(t) /\ File(t).header /\ File(t).type = "rsrc" /\ Off(t) < size
      /\ Want(t) = MinOf(req[t].len, size - Off(t)) /\ copied[t] \in 0 .. Want(t)
  BY DEF ForksInv, PackedInv
<1>2. /\ Off(t) \in Nat /\ req[t].len \in Nat /\ size \in Nat
      /\ File(t).blocks \in Seq(Nat \cup {Broken}) /\ Len(File(t).blocks) = BlockCount(size)
  BY <1>1, PackedFacts
<1>3. Want(t) \in Nat /\ copied[t] \in Nat /\ Want(t) <= size - Off(t)
  <2> HIDE DEF size
  <2> QED  BY <1>1, <1>2, SMT DEF MinOf
<1>4. pos \in Nat /\ pos < size /\ pos = Off(t) + copied[t]
  <2>1. pos = Off(t) + copied[t]
    BY DEF At
  <2> HIDE DEF size, pos
  <2> QED  BY <1>2, <1>3, <2>1, SMT
<1>5. /\ BlockIdx(t) \in Nat /\ Within(t) \in 0 .. BlockLen - 1 /\ base \in Nat
      /\ pos = base + Within(t) /\ BlockIdx(t) + 1 \in 1 .. BlockCount(size)
  <2> HIDE DEF size
  <2> QED  BY <1>2, <1>4, BlockExists DEF BlockIdx, Within
<1>6. UncompLen(t) = MinOf(size - base, BlockLen)
  BY DEF UncompLen
<1>7. Take(t) = MinOf(MaxOf(UncompLen(t) - Within(t), 0), Want(t) - copied[t])
  BY DEF Take
<1>8. /\ Take(t) \in Nat \ {0} /\ Take(t) <= Want(t) - copied[t]
      /\ Within(t) < UncompLen(t) /\ Within(t) + Take(t) <= BlockLen
  <2> DEFINE uncomp == UncompLen(t)
             within == Within(t)
             left == Want(t) - copied[t]
             take == Take(t)
  <2>1. left \in Nat \ {0}
    BY <1>3, SMT
  <2>2. /\ uncomp = MinOf(size - base, BlockLen) /\ size \in Nat /\ base \in Nat
        /\ within \in 0 .. BlockLen - 1 /\ base + within < size /\ BlockLen \in Nat \ {0}
    BY <1>2, <1>4, <1>5, <1>6, BlockLenAssumption
  <2>3. take = MinOf(MaxOf(uncomp - within, 0), left)
    BY <1>7
  <2> HIDE DEF size, base, uncomp, within, left, take
  <2>4. uncomp \in Nat /\ within < uncomp /\ uncomp <= BlockLen
    BY <2>2, SMT DEF MinOf
  <2>5. take \in Nat \ {0} /\ take <= left /\ within + take <= BlockLen
    BY <2>1, <2>2, <2>3, <2>4, SMT DEF MinOf, MaxOf
  <2> QED  BY <2>4, <2>5 DEF uncomp, within, left, take
<1>9. File(t).blocks[BlockIdx(t) + 1] \in Nat \cup {Broken}
  <2> HIDE DEF size
  <2> QED  BY <1>2, <1>5
<1> QED
  BY <1>1, <1>2, <1>3, <1>4, <1>5, <1>6, <1>8, <1>9

\* What the turn stores is the file, and what was stored before stays.
LEMMA TurnStores ==
    ASSUME PathInv, ForksInv, NEW t \in Threads, fpc[t] = "block", copied[t] < Want(t),
           NEW len \in Nat, len = File(t).blocks[BlockIdx(t) + 1],
           NEW k \in 1 .. copied[t] + Take(t)
    PROVE  Window(t, BlockIdx(t) * BlockLen, len, Within(t), copied[t], Take(t))[k]
             = PackedByte(t, k)
<1> DEFINE base == BlockIdx(t) * BlockLen
           n == Want(t)
           at == copied[t]
           take == Take(t)
           w == Within(t) + (k - 1 - at)
           p == Off(t) + k - 1
           win == Window(t, base, len, Within(t), at, take)
<1>1. /\ Off(t) \in Nat /\ at \in Nat /\ n \in Nat /\ base \in Nat /\ BlockIdx(t) \in Nat
      /\ Within(t) \in Nat /\ Off(t) + at = base + Within(t)
      /\ take \in Nat /\ take <= n - at /\ Within(t) + take <= BlockLen
      /\ File(t).type = "rsrc" /\ BlockLen \in Nat \ {0}
  BY TurnFacts, BlockLenAssumption
<1>2. k \in 1 .. n
  <2> HIDE DEF n, at, take
  <2>1. k \in 1 .. at + take
    BY DEF at, take
  <2> QED  BY <1>1, <2>1, SMT
<1>3. win[k] = IF k - 1 \in at .. at + take - 1
               THEN (IF w < len THEN base + w + 1 ELSE 0) ELSE out[t][k]
  BY <1>2 DEF Window
<1>4. CASE k - 1 \in at .. at + take - 1
  <2>1. w \in 0 .. BlockLen - 1 /\ p \in Nat /\ p = base + w /\ base + w + 1 = Off(t) + k
    <3>0. w = Within(t) + (k - 1 - at) /\ p = Off(t) + k - 1
      OBVIOUS
    <3> HIDE DEF base, n, at, take, w, p
    <3> QED  BY <1>1, <1>2, <1>4, <3>0, SMT
  <2>2. p \div BlockLen = BlockIdx(t) /\ p % BlockLen = w
    <3>1. p = BlockIdx(t) * BlockLen + w
      BY <2>1
    <3> HIDE DEF w, p
    <3> QED  BY <1>1, <2>1, <3>1, InBlock
  <2>3. HasByte(File(t), p) <=> w < len
    BY <1>1, <2>2 DEF HasByte, InXattr
  <2>4. win[k] = IF HasByte(File(t), p) THEN Off(t) + k ELSE 0
    BY <1>3, <1>4, <2>1, <2>3
  <2> QED  BY <2>4 DEF PackedByte
<1>5. CASE k - 1 \notin at .. at + take - 1
  <2>1. k \in 1 .. copied[t]
    <3>1. k \in 1 .. at + take
      BY DEF at, take
    <3>2. k \in 1 .. at
      <4> HIDE DEF at, take
      <4> QED  BY <1>1, <1>5, <3>1, SMT
    <3> QED  BY <3>2
  <2>2. out[t][k] = PackedByte(t, k)
    BY <2>1 DEF ForksInv, PackedInv
  <2> QED  BY <1>3, <1>5, <2>2
<1> QED
  BY <1>4, <1>5

LEMMA PackedFrame ==
    ASSUME NEW u \in Threads, PackedInv(u), req' = req, fpc'[u] = fpc[u], out'[u] = out[u],
           copied'[u] = copied[u], errors # 0 => errors' # 0
    PROVE  PackedInv(u)'
<1>1. /\ File(u)' = File(u) /\ Off(u)' = Off(u) /\ Want(u)' = Want(u)
      /\ IsPacked(u)' = IsPacked(u) /\ req'[u] = req[u]
  BY DEF File, Off, Want, IsPacked
<1>2. \A k : PackedByte(u, k)' = PackedByte(u, k)
  BY <1>1 DEF PackedByte
<1> QED
  BY <1>1, <1>2 DEF PackedInv

LEMMA PackedStep ==
    ASSUME PathInv, ForksInv, NEW t \in Threads, ReadCompressed(t)
    PROVE  PackedInv(t)'
<1>0. /\ req' = req /\ DOMAIN fpc = Threads /\ DOMAIN out = Threads /\ DOMAIN copied = Threads
      /\ PackedInv(t) /\ ThreadInv(t)
  BY DEF ReadCompressed, BeginCompressed, CopyInline, OpenFork, XattrFails, CopyBlock,
         EndBlocks, Quiet, PathInv, Functions, ForksInv
<1>r. /\ File(t)' = File(t) /\ Off(t)' = Off(t) /\ IsPacked(t)' = IsPacked(t) /\ req'[t] = req[t]
      /\ \A k : PackedByte(t, k)' = PackedByte(t, k)
  BY <1>0 DEF File, Off, IsPacked, PackedByte
<1>fail. ASSUME fpc'[t] \in {"failed", "panic"}, errors' # 0 \/ ~ Whole(File(t))
         PROVE  PackedInv(t)'
  BY <1>r, <1>fail DEF PackedInv
<1>f. \A r : fpc' = [fpc EXCEPT ![t] = r] => fpc'[t] = r
  BY <1>0
<1>1. CASE BeginCompressed(t)
  <2>1. IsPacked(t) /\ fpc[t] = "begin" /\ out[t] = <<>>
    BY <1>0, <1>1 DEF BeginCompressed, ThreadInv, IsPacked
  <2>2. CASE ~ File(t).header
    BY <1>1, <1>f, <1>fail, <2>2 DEF BeginCompressed, Result, Whole
  <2>3. CASE File(t).header /\ Off(t) >= File(t).size
    <3>1. fpc'[t] = "done" /\ out' = out
      BY <1>1, <1>f, <2>3 DEF BeginCompressed, Result
    <3>2. Len(out[t]) = 0 /\ Expected(Off(t), req[t].len, File(t).size) = 0
      BY <2>1, <2>3 DEF Expected
    <3> QED  BY <1>r, <3>1, <3>2 DEF PackedInv
  <2>4. CASE File(t).header /\ ~ (Off(t) >= File(t).size) /\ File(t).type = "unsupported"
    BY <1>1, <1>f, <1>fail, <2>4 DEF BeginCompressed, Result, Whole
  <2>5. CASE File(t).header /\ ~ (Off(t) >= File(t).size) /\ File(t).type # "unsupported"
    <3> DEFINE n == MinOf(req[t].len, File(t).size - Off(t))
    <3>1. /\ fpc'[t] = IF File(t).type = "rsrc" THEN "fork" ELSE "inline"
          /\ out' = [out EXCEPT ![t] = Zeros(n)]
      BY <1>1, <1>f, <2>5 DEF BeginCompressed, Result
    <3>2. Off(t) \in Nat /\ req[t].len \in Nat /\ File(t).size \in Nat
      BY <2>1, <2>5, PackedFacts
    <3>3. n \in Nat /\ Off(t) < File(t).size
      BY <2>5, <3>2, SMT DEF MinOf
    <3> HIDE DEF n
    <3>4. out'[t] = Zeros(n)
      BY <1>0, <3>1
    <3>5. Want(t)' = n
      BY <3>3, <3>4, ZerosFacts DEF Want
    <3> QED  BY <1>r, <2>1, <2>5, <3>1, <3>3, <3>5 DEF PackedInv, n
  <2> QED  BY <2>2, <2>3, <2>4, <2>5
<1>2. CASE CopyInline(t)
  <2> DEFINE len == File(t).blocks[1]
             n == Want(t)
  <2>1. /\ fpc[t] = "inline" /\ IsPacked(t) /\ File(t).header /\ File(t).type \in InXattr
        /\ Off(t) < File(t).size /\ n = MinOf(req[t].len, File(t).size - Off(t))
    <3>1. /\ fpc[t] = "inline" /\ IsPacked(t) /\ File(t).header /\ File(t).type # "unsupported"
          /\ File(t).type # "rsrc" /\ Off(t) < File(t).size
          /\ n = MinOf(req[t].len, File(t).size - Off(t))
      BY <1>0, <1>2 DEF CopyInline, PackedInv
    <3> QED  BY <3>1, PackedFacts DEF Types
  <2>2. /\ Off(t) \in Nat /\ req[t].len \in Nat /\ File(t).size \in Nat
        /\ len \in Nat \cup {Broken}
    BY <2>1, PackedFacts
  <2>3. n \in Nat /\ n = Expected(Off(t), req[t].len, File(t).size)
    BY <2>1, <2>2, SMT DEF MinOf, Expected
  <2> HIDE DEF len, n
  <2>4. Whole(File(t)) => len = File(t).size /\ len # Broken /\ ~ Panics(len, Off(t))
    <3>1. Whole(File(t)) => len = File(t).size
      BY <2>1 DEF Whole, len
    <3> QED  BY <2>1, <2>2, <3>1, SMT DEF Panics, Broken
  <2>5. CASE len = Broken \/ Panics(len, Off(t))
    <3>1. fpc'[t] \in {"failed", "panic"}
      BY <1>2, <1>f, <2>5 DEF CopyInline, Result, len
    <3> QED  BY <1>fail, <2>4, <2>5, <3>1
  <2>6. CASE len # Broken /\ ~ Panics(len, Off(t))
    <3> DEFINE win == Window(t, 0, len, Off(t), 0, n)
    <3>1. fpc'[t] = "done" /\ out' = [out EXCEPT ![t] = win]
      BY <1>2, <1>f, <2>6 DEF CopyInline, Result, len, n
    <3>2. len \in Nat
      BY <2>2, <2>6
    <3>3. Len(win) = n
      BY <2>3 DEF Window, n
    <3>4. ASSUME NEW k \in 1 .. n PROVE win[k] = PackedByte(t, k)
      <4> DEFINE w == Off(t) + (k - 1 - 0)
      <4>1. /\ win[k] = IF w < len THEN 0 + w + 1 ELSE 0
        <5>1. k - 1 \in 0 .. 0 + n - 1
          BY <2>3, SMT
        <5> QED  BY <5>1 DEF Window, n
      <4>2. w = Off(t) + k - 1 /\ 0 + w + 1 = Off(t) + k
        BY <2>2, <2>3, SMT
      <4>3. HasByte(File(t), Off(t) + k - 1) <=> Off(t) + k - 1 < len
        BY <2>1 DEF HasByte, len
      <4> QED  BY <4>1, <4>2, <4>3 DEF PackedByte
    <3> HIDE DEF win
    <3>5. out'[t] = win
      BY <1>0, <3>1
    <3> QED  BY <1>r, <2>3, <3>1, <3>3, <3>4, <3>5 DEF PackedInv
  <2> QED  BY <2>5, <2>6
<1>3. CASE OpenFork(t)
  <2>1. /\ fpc[t] = "fork" /\ copied' = [copied EXCEPT ![t] = 0] /\ out' = out
        /\ IsPacked(t) /\ File(t).header /\ File(t).type # "unsupported" /\ File(t).type = "rsrc"
        /\ Off(t) < File(t).size /\ Want(t) = MinOf(req[t].len, File(t).size - Off(t))
    BY <1>0, <1>3 DEF OpenFork, PackedInv
  <2>2. CASE File(t).listed # BlockCount(File(t).size)
    BY <1>3, <1>f, <1>fail, <2>1, <2>2 DEF OpenFork, Result, Whole
  <2>3. CASE File(t).listed = BlockCount(File(t).size)
    <3>1. fpc'[t] = "block" /\ copied'[t] = 0 /\ Want(t)' = Want(t)
      BY <1>0, <1>3, <1>f, <2>1, <2>3 DEF OpenFork, Result, Want
    <3>2. Want(t) \in Nat
      <4>1. Off(t) \in Nat /\ req[t].len \in Nat /\ File(t).size \in Nat
        BY <2>1, PackedFacts
      <4> QED  BY <2>1, <4>1, SMT DEF MinOf
    <3>3. copied'[t] \in 0 .. Want(t)' /\ 1 .. copied'[t] = {}
      BY <3>1, <3>2, SMT
    <3> QED  BY <1>r, <2>1, <2>3, <3>1, <3>3 DEF PackedInv
  <2> QED  BY <2>2, <2>3
<1>4. CASE XattrFails(t)
  <2>1. fpc'[t] = "failed" /\ errors' = errors + 1
    BY <1>4, <1>f DEF XattrFails, Result
  <2>2. errors' # 0
    <3>1. errors \in Nat
      BY DeviceAssumption, SMT DEF PathInv, IInv, DeviceTypeOK
    <3> QED  BY <2>1, <3>1, SMT
  <2> QED  BY <1>fail, <2>1, <2>2
<1>5. CASE CopyBlock(t)
  <2> DEFINE len == File(t).blocks[BlockIdx(t) + 1]
             win == Window(t, BlockIdx(t) * BlockLen, len, Within(t), copied[t], Take(t))
  <2>1. fpc[t] = "block" /\ copied[t] < Want(t)
    BY <1>5 DEF CopyBlock
  <2>2. /\ Take(t) # 0 /\ len \in Nat \cup {Broken} /\ File(t).type = "rsrc" /\ IsPacked(t)
        /\ BlockIdx(t) + 1 \in 1 .. BlockCount(File(t).size)
        /\ Within(t) < UncompLen(t) /\ BlockIdx(t) \in Nat /\ Within(t) \in Nat
        /\ UncompLen(t) = MinOf(File(t).size - BlockIdx(t) * BlockLen, BlockLen)
        /\ BlockIdx(t) * BlockLen \in Nat /\ File(t).size \in Nat
    BY <2>1, TurnFacts, PackedFacts
  <2>3. Whole(File(t)) => len # Broken /\ ~ Panics(len, Within(t))
    <3> SUFFICES ASSUME Whole(File(t)) PROVE len # Broken /\ ~ Panics(len, Within(t))
        OBVIOUS
    <3> DEFINE b == BlockIdx(t)
               c == b * BlockLen
               size == File(t).size
    <3>1. len = MinOf(BlockLen, size - (b + 1 - 1) * BlockLen)
      BY <2>2 DEF Whole
    <3>2. b + 1 - 1 = b
      BY <2>2, SMT
    <3>3. /\ len = MinOf(BlockLen, size - c) /\ UncompLen(t) = MinOf(size - c, BlockLen)
          /\ c \in Nat /\ size \in Nat /\ Within(t) < UncompLen(t) /\ Within(t) \in Nat
      BY <2>2, <3>1, <3>2
    <3> HIDE DEF len, b, c, size
    <3>4. len = UncompLen(t) /\ len \in Int
      BY <3>3, BlockLenAssumption, SMT DEF MinOf
    <3> QED  BY <3>3, <3>4, SMT DEF Panics, Broken
  <2>4. CASE len = Broken \/ Panics(len, Within(t))
    <3>1. fpc'[t] \in {"failed", "panic"}
      BY <1>5, <1>f, <2>2, <2>4 DEF CopyBlock, Result
    <3> QED  BY <1>fail, <2>3, <2>4, <3>1
  <2>5. CASE len # Broken /\ ~ Panics(len, Within(t))
    <3>1. /\ out' = [out EXCEPT ![t] = win] /\ fpc' = fpc
          /\ copied' = [copied EXCEPT ![t] = copied[t] + Take(t)]
      BY <1>5, <2>2, <2>5 DEF CopyBlock
    <3>2. /\ Want(t) \in Nat /\ copied[t] \in Nat /\ Take(t) \in Nat
          /\ Take(t) <= Want(t) - copied[t]
      BY <2>1, TurnFacts
    <3>3. Len(win) = Want(t)
      BY <3>2 DEF Window
    <3>4. \A k \in 1 .. copied[t] + Take(t) : win[k] = PackedByte(t, k)
      <4>1. len \in Nat
        BY <2>2, <2>5
      <4> QED  BY <2>1, <4>1, TurnStores
    <3> HIDE DEF win
    <3>5. out'[t] = win /\ copied'[t] = copied[t] + Take(t) /\ fpc'[t] = "block"
      BY <1>0, <2>1, <3>1
    <3>6. Want(t)' = Want(t)
      BY <3>3, <3>5 DEF Want
    <3>7. copied'[t] \in 0 .. Want(t)'
      BY <3>2, <3>5, <3>6, SMT
    <3> QED  BY <1>0, <1>r, <2>1, <3>4, <3>5, <3>6, <3>7 DEF PackedInv
  <2> QED  BY <2>4, <2>5
<1>6. CASE EndBlocks(t)
  <2>1. /\ fpc[t] = "block" /\ copied[t] >= Want(t) /\ fpc'[t] = "done" /\ out' = out
    BY <1>6, <1>f DEF EndBlocks, Result
  <2>2. /\ IsPacked(t) /\ File(t).header /\ Off(t) < File(t).size
        /\ Want(t) = MinOf(req[t].len, File(t).size - Off(t)) /\ copied[t] \in 0 .. Want(t)
        /\ \A k \in 1 .. copied[t] : out[t][k] = PackedByte(t, k)
    BY <1>0, <2>1 DEF PackedInv
  <2>3. Off(t) \in Nat /\ req[t].len \in Nat /\ File(t).size \in Nat
    BY <2>2, PackedFacts
  <2>4. Want(t) = Expected(Off(t), req[t].len, File(t).size) /\ copied[t] = Want(t)
    BY <2>1, <2>2, <2>3, SMT DEF MinOf, Expected
  <2> QED  BY <1>r, <2>1, <2>2, <2>4 DEF PackedInv, Want
<1> QED
  BY <1>1, <1>2, <1>3, <1>4, <1>5, <1>6 DEF ReadCompressed

\* A plain file's step leaves the compressed ones alone.
LEMMA PlainStep ==
    ASSUME PathInv, ForksInv, NEW t \in Threads, ReadFileAt(t), copied' = copied
    PROVE  ForksInv'
<1>0. /\ DOMAIN fpc = Threads /\ DOMAIN out = Threads /\ IInv /\ ThreadInv(t)
  BY DEF PathInv, Functions
<1>1. errors # 0 => errors' # 0
  <2>1. CASE DeviceStep(t) \/ EndRead(t) \/ \E off, len \in Nat : CallRead(t, off, len)
    BY <1>0, <2>1, DeviceStepFrame
  <2>2. CASE ReadExtent(t)
    <3>1. \E off, len : CallRead(t, off, len)
      BY <2>2 DEF ReadExtent
    <3> QED  BY <3>1 DEF CallRead
  <2>3. CASE VolumeFails(t) \/ ExtentsFail(t)
    <3>1. errors \in Nat
      BY DeviceAssumption, SMT DEF PathInv, IInv, DeviceTypeOK
    <3>2. errors' = errors + 1
      BY <2>3 DEF VolumeFails, ExtentsFail
    <3> QED  BY <3>1, <3>2, SMT
  <2> QED  BY <2>1, <2>2, <2>3 DEF ReadFileAt, BeginFile, SkipExtent, StoreExtent, ExtentFails,
                                  EndFile, devVars
<1>2. req' = req
  BY DEF ReadFileAt, BeginFile, VolumeFails, ExtentsFail, SkipExtent, ReadExtent, StoreExtent,
       ExtentFails,
         EndFile, fileVars
<1>3. ASSUME NEW u \in Threads, u # t PROVE PackedInv(u)'
  <2>1. fpc'[u] = fpc[u] /\ out'[u] = out[u]
    BY <1>0, <1>3 DEF ReadFileAt, BeginFile, VolumeFails, ExtentsFail, SkipExtent, ReadExtent,
         StoreExtent,
                      ExtentFails, EndFile, fileVars
  <2> QED  BY <1>1, <1>2, <2>1, PackedFrame DEF ForksInv
<1>4. PackedInv(t)'
  <2>1. CASE UNCHANGED fileVars
    BY <1>1, <1>2, <2>1, PackedFrame DEF ForksInv, fileVars
  <2>f. CASE VolumeFails(t)
    <3>1. errors \in Nat /\ errors' = errors + 1 /\ fpc'[t] = "failed"
      BY <1>0, <2>f, DeviceAssumption, SMT DEF VolumeFails, IInv, DeviceTypeOK
    <3>2. errors' # 0
      BY <3>1, SMT
    <3> QED  BY <3>1, <3>2 DEF PackedInv
  <2>2. CASE ~ UNCHANGED fileVars /\ ~ VolumeFails(t)
    <3>1. ~ IsPacked(t)
      BY <1>0, <2>2 DEF ReadFileAt, BeginFile, VolumeFails, ExtentsFail, SkipExtent, ReadExtent,
           StoreExtent,
         ExtentFails, EndFile, MoreExtents, ThreadInv, IsPlain, IsPacked, File
    <3>2. fpc'[t] \in {"done", "failed", "extent", "reading"}
      BY <1>0, <2>2 DEF ReadFileAt, BeginFile, VolumeFails, ExtentsFail, SkipExtent, ReadExtent,
           StoreExtent,
         ExtentFails, EndFile, MoreExtents
    <3>3. IsPacked(t)' = IsPacked(t)
      BY <1>2 DEF IsPacked, File
    <3> QED  BY <3>1, <3>2, <3>3 DEF PackedInv
  <2> QED  BY <2>1, <2>2, <2>f
<1> QED
  BY <1>3, <1>4 DEF ForksInv

LEMMA ForksInductive == Spec => []ForksInv
<1>1. Init => ForksInv
  BY DEF Init, FileInit, ForksInv, PackedInv
<1>2. PathInv /\ ForksInv /\ Next => ForksInv'
  <2> SUFFICES ASSUME PathInv, ForksInv, NEW t \in Threads,
                      ReadCompressed(t) \/ (ReadFileAt(t) /\ UNCHANGED copied)
               PROVE  ForksInv'
    BY DEF Next
  <2>1. CASE ReadCompressed(t)
    <3>1. /\ req' = req /\ DOMAIN fpc = Threads /\ DOMAIN out = Threads
          /\ DOMAIN copied = Threads /\ errors \in Nat
      BY <2>1, DeviceAssumption DEF ReadCompressed, BeginCompressed, CopyInline, OpenFork,
         XattrFails, CopyBlock, EndBlocks, Quiet, PathInv, Functions, ForksInv, IInv,
         DeviceTypeOK
    <3>2. errors' = errors \/ errors' = errors + 1
      BY <2>1 DEF ReadCompressed, BeginCompressed, CopyInline, OpenFork, XattrFails,
         CopyBlock, EndBlocks, Quiet, devVars
    <3>3. errors # 0 => errors' # 0
      BY <3>1, <3>2, SMT
    <3>4. /\ fpc' = fpc \/ \E r : fpc' = [fpc EXCEPT ![t] = r]
          /\ out' = out \/ \E b : out' = [out EXCEPT ![t] = b]
          /\ copied' = copied \/ \E c : copied' = [copied EXCEPT ![t] = c]
      BY <2>1, Zenon DEF ReadCompressed, BeginCompressed, CopyInline, OpenFork, XattrFails,
         CopyBlock, EndBlocks, Quiet, Result
    <3>5. /\ DOMAIN copied' = Threads
          /\ \A u \in Threads \ {t} :
                fpc'[u] = fpc[u] /\ out'[u] = out[u] /\ copied'[u] = copied[u]
      BY <3>1, <3>4
    <3>6. ASSUME NEW u \in Threads, u # t PROVE PackedInv(u)'
      BY <3>1, <3>3, <3>5, <3>6, PackedFrame DEF ForksInv
    <3> QED  BY <2>1, <3>5, <3>6, PackedStep DEF ForksInv
  <2>2. CASE ReadFileAt(t) /\ UNCHANGED copied
    BY <2>2, PlainStep
  <2> QED  BY <2>1, <2>2
<1>3. PathInv /\ ForksInv /\ UNCHANGED vars => ForksInv'
  BY PackedFrame DEF vars, fileVars, devVars, ForksInv
<1> QED
  BY <1>1, <1>2, <1>3, PathInductive, PTL DEF Spec

(* What a read of a compressed file returns is the file that was           *)
(* compressed, at every offset, across any number of blocks of any size,   *)
(* with zeros where the data of a block ends early (decmpfs.rs:87-205).    *)
THEOREM CompressedIsTheFile == Spec => []ReadsCompressed
<1>1. ForksInv => ReadsCompressed
  BY DEF ForksInv, PackedInv, ReadsCompressed, IsPacked, PackedByte
<1> QED
  BY <1>1, ForksInductive, PTL

(* A compressed file as the system that wrote it left it is read without   *)
(* an error and without a panic unless the system fails a read             *)
(* (decmpfs.rs:87-205).                                                    *)
THEOREM CompressedIsServed == Spec => []CompressedServed
<1>1. ForksInv => CompressedServed
  BY DEF ForksInv, PackedInv, CompressedServed, IsPacked
<1> QED
  BY <1>1, ForksInductive, PTL

----------------------------------------------------------------------------
\* The types of the readers' own variables; the device has its own.
ReaderTypes ==
    /\ fpc \in [Threads -> {"begin", "extent", "reading", "inline", "fork", "block",
                            "done", "failed", "panic"}]
    /\ ei \in [Threads -> Nat \ {0}]
    /\ out \in [Threads -> Seq(Nat)]
    /\ copied \in [Threads -> Nat]

LEMMA StoredBytes ==
    ASSUME PathInv, ReaderTypes, NEW t \in Threads, StoreExtent(t)
    PROVE  \E b \in Seq(Nat) : out' = [out EXCEPT ![t] = b]
<1> DEFINE n == Want(t)
           In(k) == k - 1 \in ReadStart(t) - Off(t) .. ReadEnd(t) - Off(t) - 1
           new == [k \in 1 .. n |-> IF In(k) THEN got[t][k - (ReadStart(t) - Off(t))] ELSE out[t][k]]
<1>1. /\ fpc[t] = "reading" /\ dpc[t] = "ok" /\ out' = [out EXCEPT ![t] = new]
      /\ out[t] \in Seq(Nat) /\ n = Len(out[t]) /\ ei[t] <= Len(Exts(t)) /\ ThreadInv(t)
  BY DEF StoreExtent, PathInv, ThreadInv, ReaderTypes, Want
<1>2. n \in Nat
  BY <1>1, BufferLength
<1>3. ASSUME NEW k \in 1 .. n PROVE new[k] \in Nat
  <2>1. CASE In(k)
    <3> DEFINE j == k - (ReadStart(t) - Off(t))
    <3>1. /\ ReadStart(t) \in Nat /\ ReadEnd(t) \in Nat /\ Off(t) \in Nat
      BY <1>1, ExtentFacts, PlainFacts
    <3>2. j \in 1 .. ReadEnd(t) - ReadStart(t)
      BY <2>1, <3>1, SMT
    <3>3. got[t] = [m \in 1 .. ask[t].len |-> dev.start + ask[t].off + m - 1]
      BY <1>1 DEF PathInv, IInv, ReadsExactly
    <3>4. ask[t].len = ReadEnd(t) - ReadStart(t)
      BY <1>1 DEF ThreadInv, AskedFor
    <3>6. ask[t].off \in Nat /\ dev.start \in Nat
      <4>1. ask[t] \in [off : Nat, len : Nat]
        BY DEF PathInv, IInv, DeviceTypeOK
      <4> QED  BY <4>1, PlainFacts
    <3> HIDE DEF j
    <3>7. got[t][j] = dev.start + ask[t].off + j - 1 /\ j \in Nat \ {0}
      <4>1. j \in 1 .. ask[t].len
        BY <3>2, <3>4
      <4>2. j \in Nat \ {0}
        BY <3>1, <3>2, SMT
      <4> QED  BY <3>3, <4>1, <4>2
    <3>5. got[t][j] \in Nat
      BY <3>6, <3>7, SMT
    <3> QED  BY <2>1, <3>5 DEF j
  <2>2. CASE ~ In(k)
    BY <1>1, <2>2
  <2> QED  BY <2>1, <2>2
<1> HIDE DEF new
<1>4. new \in Seq(Nat)
  <2>1. new = [k \in 1 .. n |-> new[k]]
    BY DEF new
  <2> HIDE DEF n
  <2> QED  BY <1>2, <1>3, <2>1
<1> QED
  BY <1>1, <1>4

LEMMA WindowType ==
    ASSUME NEW t \in Threads, out[t] \in Seq(Nat), NEW base \in Nat, NEW len \in Int,
           NEW off \in Nat, NEW at \in Nat, NEW n \in Int
    PROVE  Window(t, base, len, off, at, n) \in Seq(Nat)
<1> DEFINE win == Window(t, base, len, off, at, n)
<1>1. Want(t) \in Nat /\ \A k \in 1 .. Want(t) : out[t][k] \in Nat
  BY DEF Want
<1>2. ASSUME NEW k \in 1 .. Want(t) PROVE win[k] \in Nat
  <2>1. k - 1 \in at .. at + n - 1 => base + (off + (k - 1 - at)) + 1 \in Nat
    BY <1>1, SMT
  <2> QED  BY <1>1, <2>1 DEF Window
<1>3. win = [k \in 1 .. Want(t) |-> win[k]]
  BY DEF Window
<1> HIDE DEF win
<1> QED
  BY <1>1, <1>2, <1>3 DEF win

LEMMA ZerosType ==
    ASSUME NEW n \in Nat PROVE Zeros(n) \in Seq(Nat)
BY DEF Zeros

LEMMA ReaderTypesNext ==
    ASSUME PathInv, ForksInv, ReaderTypes, NEW t \in Threads,
           ReadCompressed(t) \/ (ReadFileAt(t) /\ UNCHANGED copied)
    PROVE  ReaderTypes'
<1>1. \/ fpc' = fpc
      \/ \E r \in {"extent", "reading", "inline", "fork", "block", "done", "failed", "panic"} :
            fpc' = [fpc EXCEPT ![t] = r]
  BY DEF ReadCompressed, BeginCompressed, CopyInline, OpenFork, XattrFails, CopyBlock,
         EndBlocks, Result, ReadFileAt, BeginFile, VolumeFails, ExtentsFail, SkipExtent, ReadExtent,
         StoreExtent, ExtentFails, EndFile, fileVars
<1>2. ei' = ei \/ ei' = [ei EXCEPT ![t] = ei[t] + 1]
  BY DEF ReadCompressed, BeginCompressed, CopyInline, OpenFork, XattrFails, CopyBlock,
         EndBlocks, Quiet, ReadFileAt, BeginFile, VolumeFails, ExtentsFail, SkipExtent, ReadExtent,
         StoreExtent, ExtentFails, EndFile, fileVars
<1>3. copied' = copied \/ \E c \in Nat : copied' = [copied EXCEPT ![t] = c]
  <2>1. CASE CopyBlock(t)
    <3>1. copied[t] + Take(t) \in Nat
      BY <2>1, TurnFacts DEF CopyBlock
    <3> QED  BY <2>1, <3>1 DEF CopyBlock
  <2> QED  BY <2>1 DEF ReadCompressed, BeginCompressed, CopyInline, OpenFork, XattrFails,
         EndBlocks
<1>4. out' = out \/ \E b \in Seq(Nat) : out' = [out EXCEPT ![t] = b]
  <2>0. out[t] \in Seq(Nat)
    BY DEF ReaderTypes
  <2>1. CASE BeginFile(t)
    <3>1. CASE out' = [out EXCEPT ![t] = Zeros(MinOf(req[t].len, req[t].file.size - Off(t)))]
               /\ ~ (Off(t) >= req[t].file.size) /\ req[t].file.kind # "dir"
      <4>1. Off(t) \in Nat /\ req[t].len \in Nat /\ req[t].file.size \in Nat
        BY <2>1, <3>1, PlainFacts DEF BeginFile, IsPlain
      <4>2. MinOf(req[t].len, req[t].file.size - Off(t)) \in Nat
        BY <3>1, <4>1, SMT DEF MinOf
      <4> QED  BY <3>1, <4>2, ZerosType
    <3> QED  BY <2>1, <3>1 DEF BeginFile
  <2>2. CASE StoreExtent(t)
    BY <2>2, StoredBytes
  <2>3. CASE BeginCompressed(t)
    <3>1. CASE out' = [out EXCEPT ![t] = Zeros(MinOf(req[t].len, File(t).size - Off(t)))]
               /\ ~ (Off(t) >= File(t).size) /\ File(t).header
      <4>1. Off(t) \in Nat /\ req[t].len \in Nat /\ File(t).size \in Nat
        BY <2>3, <3>1, PackedFacts DEF BeginCompressed, IsPacked
      <4>2. MinOf(req[t].len, File(t).size - Off(t)) \in Nat
        BY <3>1, <4>1, SMT DEF MinOf
      <4> QED  BY <3>1, <4>2, ZerosType
    <3> QED  BY <2>3, <3>1 DEF BeginCompressed
  <2>4. CASE CopyInline(t)
    <3>1. /\ Off(t) \in Nat /\ Want(t) \in Nat /\ File(t).blocks[1] \in Int
      <4>1. /\ IsPacked(t) /\ File(t).header /\ File(t).type # "unsupported"
            /\ File(t).type # "rsrc"
        BY <2>4 DEF CopyInline, ForksInv, PackedInv
      <4>2. File(t).blocks \in Seq(Nat \cup {Broken}) /\ Len(File(t).blocks) = 1
        BY <4>1, PackedFacts DEF Types
      <4>3. File(t).blocks[1] \in Nat \cup {Broken}
        BY <4>2
      <4> QED  BY <2>0, <4>1, <4>3, PackedFacts DEF Want, Broken
    <3>2. Window(t, 0, File(t).blocks[1], Off(t), 0, Want(t)) \in Seq(Nat)
      <4>1. 0 \in Nat /\ Want(t) \in Int
        BY <3>1
      <4> QED  BY <2>0, <3>1, <4>1, WindowType, Zenon
    <3> QED  BY <2>4, <3>2 DEF CopyInline
  <2>5. CASE CopyBlock(t)
    <3> DEFINE len == File(t).blocks[BlockIdx(t) + 1]
               win == Window(t, BlockIdx(t) * BlockLen, len, Within(t), copied[t], Take(t))
    <3>1. /\ fpc[t] = "block" /\ copied[t] < Want(t)
          /\ out' = out \/ out' = [out EXCEPT ![t] = win]
      BY <2>5 DEF CopyBlock
    <3>2. /\ BlockIdx(t) * BlockLen \in Nat /\ Within(t) \in Nat /\ copied[t] \in Nat
          /\ Take(t) \in Nat /\ len \in Nat \cup {Broken}
      BY <3>1, TurnFacts
    <3>3. len \in Int /\ Take(t) \in Int
      BY <3>2 DEF Broken
    <3>4. win \in Seq(Nat)
      BY <2>0, <3>2, <3>3, WindowType, Zenon
    <3> HIDE DEF win
    <3> QED  BY <3>1, <3>4
  <2> QED
    BY <2>1, <2>2, <2>3, <2>4, <2>5
       DEF ReadCompressed, OpenFork, XattrFails, EndBlocks, ReadFileAt, VolumeFails, ExtentsFail,
           SkipExtent, ReadExtent, ExtentFails, EndFile, fileVars
<1>5. ei' \in [Threads -> Nat \ {0}]
  <2>1. ei[t] + 1 \in Nat \ {0}
    <3>1. ei[t] \in Nat \ {0}
      BY DEF ReaderTypes
    <3> QED  BY <3>1, SMT
  <2> QED  BY <1>2, <2>1 DEF ReaderTypes
<1> QED
  BY <1>1, <1>3, <1>4, <1>5 DEF ReaderTypes

(* Type correctness of the readers over the device (fs.rs:292-331,         *)
(* decmpfs.rs:87-205, device.rs:51-142).                                   *)
THEOREM TypeCorrect == Spec => []TypeOK
<1>1. Init => ReaderTypes
  BY DEF Init, FileInit, ReaderTypes
<1>2. PathInv /\ ForksInv /\ ReaderTypes /\ Next => ReaderTypes'
  BY ReaderTypesNext DEF Next
<1>3. ReaderTypes /\ UNCHANGED vars => ReaderTypes'
  BY DEF ReaderTypes, vars, fileVars
<1>4. Spec => []ReaderTypes
  BY <1>1, <1>2, <1>3, PathInductive, ForksInductive, PTL DEF Spec
<1>5. PathInv /\ ReaderTypes => TypeOK
  BY DEF PathInv, IInv, ThreadInv, ReaderTypes, TypeOK
<1> QED
  BY <1>4, <1>5, PathInductive, PTL

=============================================================================
