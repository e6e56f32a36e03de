--------------------------- MODULE MCFixtureMount ---------------------------
(***************************************************************************)
(* The injector, the mounted volume and the command line tool, one after   *)
(* the other on one image.  Names, lengths and hashes are those of the     *)
(* committed test image (crates/apfs-core/tests/fixtures), and so are the  *)
(* trees that mkapfs leaves; the image itself has 24 blocks, whose first   *)
(* ones are in use with the holes that the allocator has to see.           *)
(***************************************************************************)
EXTENDS Cli

MCNameLen == <<7, 4, 9, 13, 15, 10, 17, 11, 9, 4>>

MCHash == <<61282, 1919837, 3708644, 1820075, 4133948, 3236535, 215172, 2828707,
            2158423, 2989177>>

MkInode(id, parent, name) == BuildInode(id, parent, name, [Zeroed EXCEPT !.mode = "dir", !.kids = 0])

\* What mkapfs writes; `used` are the blocks it takes for itself.
MkApfs(used, fold) ==
    [kind |-> "container", parts |-> <<>>, hashed |-> TRUE, fold |-> fold,
     desc |-> <<[nx |-> FALSE, xid |-> 1, spaceman |-> 0, fs |-> 0],
                [nx |-> TRUE, xid |-> 1, spaceman |-> 1024, fs |-> 1026]>>,
     data |-> <<1025, 1024>>, omap |-> {1026},
     system |-> used, used |-> used,
     chunkFree |-> Blocks - Cardinality(used), devFree |-> Blocks - Cardinality(used),
     tree |-> SerializeNode(64, Sorted(
        <<MkInode(RootDir, RootParent, RootName), MkInode(PrivDir, RootParent, PrivDirName),
          BuildDrec(RootParent, RootName, RootDir, DtDir),
          BuildDrec(RootParent, PrivDirName, PrivDir, DtDir)>>)),
     refs |-> SerializeNode(128, <<>>), content |-> <<>>,
     next |-> 16, files |-> 0, dirs |-> 0, links |-> 0,
     allocCount |-> 5, alloced |-> 0, stale |-> {}]

\* Holes of every length and place, with enough room, just enough, too little
\* in all, or too little in a row; the second line has room for two injections.
Layouts ==
    {0 .. 3 \cup holes : holes \in SUBSET {5, 8, 13, 23}}
    \cup {0 .. 2}
    \cup {0 .. 13, 0 .. 14, {b \in 0 .. 23 : b < 4 \/ b % 3 = 0}}

Fresh == MkApfs(0 .. 3, TRUE)

MCFormatted ==
    {MkApfs(used, TRUE) : used \in Layouts}
    \cup {MkApfs({0, 1, 2, 4}, FALSE)}
    \cup {[Fresh EXCEPT !.hashed = FALSE, !.fold = FALSE],   \* no hashed names
          [Fresh EXCEPT !.data = <<1025>>],                  \* no space manager
          [kind |-> "disk", parts |-> <<[apfs |-> FALSE], [apfs |-> TRUE, image |-> Fresh],
                                        [apfs |-> TRUE, image |-> NoImage]>>]}

MCPaths ==
    {<<>>, <<Hello>>, <<Hello + Upper>>, <<Docs>>, <<Docs, Readme>>, <<Docs + Upper, BigBin>>,
     <<Readme>>, <<Hello, Readme>>, <<PlainTxt>>, <<PackedRsrc>>, <<Link>>, <<Docs, RootName>>}

MCPageSizes == {1, 2, 3, 8}
=============================================================================
