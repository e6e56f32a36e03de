----------------------------- MODULE MCReadPath -----------------------------
(* Small instances of Decmpfs: blocks of 4 bytes on a regular file and on  *)
(* raw disks with sectors of 2 and of 4 bytes, two threads.                *)
EXTENDS Decmpfs

CONSTANTS t1, t2

\* A file by its plain path and by one that begins with \\?\, and two disks.
\* The partition starts off the large sector size on the small-sector disk,
\* which also ends off it, and ends with the disk on each.
MCDevices == {
    [sector |-> 0, raw |-> FALSE, size |-> 25, start |-> 1, part |-> 24],
    [sector |-> 0, raw |-> TRUE, size |-> 26, start |-> 2, part |-> 24],
    [sector |-> 2, raw |-> TRUE, size |-> 30, start |-> 6, part |-> 24],
    [sector |-> 4, raw |-> TRUE, size |-> 28, start |-> 4, part |-> 24]}

E(logical, len, phys) == [logical |-> logical, len |-> len, phys |-> phys]
Plain(size, exts) == [kind |-> "plain", size |-> size, extents |-> exts]

\* One run of blocks; scattered blocks, the last of the disk first; a hole
\* record; holes without a record in front and behind; no extent at all.
Straight == Plain(8, <<E(0, 8, 4)>>)
PlainFiles == {
    Straight,
    Plain(7, <<E(0, 4, 5), E(4, 4, 2)>>),
    Plain(7, <<E(0, 4, 0), E(4, 4, 5)>>),
    Plain(11, <<E(4, 4, 5)>>),
    Plain(3, <<>>)}

Packed(type, size, blocks, listed) ==
    [kind |-> "compressed", header |-> TRUE, type |-> type, size |-> size,
     blocks |-> blocks, listed |-> listed]

\* Whole files, files cut short, files with too much, files not decodable.
InlineFiles ==
    {Packed(ty, 5, <<len>>, 0) : ty \in InXattr, len \in {0, 3, 5, 6}}
        \cup {Packed("zlib", 5, <<Broken>>, 0)}
ForkFiles ==
    {Packed("rsrc", 5, b, 2) : b \in {<<3, 2>>, <<1, 2>>, <<3, 0>>, <<3, Broken>>, <<4, 2>>}}
        \cup {Packed("rsrc", 6, <<3, 3>>, 2), Packed("rsrc", 5, <<3, 2>>, 1)}
OtherFiles == {
    [kind |-> "dir"],
    Packed("unsupported", 5, <<5>>, 0),
    [kind |-> "compressed", header |-> FALSE]}

Ask(files, offs, lens) == [file : files, off : offs, len : lens]

MCRequests == (
    t1 :> (Ask(PlainFiles, {0, 1, 3, 5, 8}, {0, 2, 4, 12})
             \cup Ask(InlineFiles \cup ForkFiles, 0 .. 6, {1, 2, 6})
             \cup Ask(OtherFiles, {0}, {4})) @@
    t2 :> Ask({Straight}, {1}, {6}))
=============================================================================
