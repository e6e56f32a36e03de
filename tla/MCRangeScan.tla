---------------------------- MODULE MCRangeScan ----------------------------
(* Instances of RangeScan for TLC: well-formed trees of several shapes     *)
(* over every set of a few records, and graphs of two broken nodes.        *)
EXTENDS RangeScan

R(p, s) == [prefix |-> p, suffix |-> s]
MCNodes == 1 .. 9
Universe == {R(1, 1), R(2, 1), R(2, 2), R(2, 3), R(3, 1)}

Leaf(s) == [leaf |-> TRUE, keys |-> s, refs |-> [j \in DOMAIN s |-> 0]]
Inner(s, refs) == [leaf |-> FALSE, keys |-> s, refs |-> refs]

RECURSIVE Records(_, _)
Records(node, b) ==
    IF node[b].leaf THEN node[b].keys
    ELSE FlattenSeq([k \in DOMAIN node[b].keys |-> Records(node, node[b].refs[k])])

\* The records left of the leaves below b, and those up to the last of them.
RECURSIVE Past(_, _)
Past(node, b) ==
    IF node[b].leaf THEN Len(FlattenSeq([k \in 1 .. Len(node) |->
                             IF node[k].leaf /\ k <= b THEN node[k].keys ELSE <<>>]))
    ELSE Past(node, Last(node[b].refs))

\* Leaves are numbered from left to right.
Tree(node) ==
    [root |-> 1, node |-> node, records |-> Records(node, 1),
     span |-> [b \in DOMAIN node |->
                 [first |-> Past(node, b) - Len(Records(node, b)), past |-> Past(node, b)]]]

Cut(s, c, d) == SubSeq(s, c + 1, d)

ThreeLeaves(s, c, d) ==
    LET l == Cut(s, 0, c)  m == Cut(s, c, d)  r == Cut(s, d, Len(s))
    IN  Tree(<<Inner(<<l[1], m[1], r[1]>>, <<2, 3, 4>>), Leaf(l), Leaf(m), Leaf(r)>>)

ThreeLevels(s, c, d) ==
    LET l == Cut(s, 0, c)  m == Cut(s, c, d)  r == Cut(s, d, Len(s))
    IN  Tree(<<Inner(<<l[1], r[1]>>, <<2, 3>>),
               Inner(<<l[1], m[1]>>, <<4, 5>>), Inner(<<r[1]>>, <<6>>),
               Leaf(l), Leaf(m), Leaf(r)>>)

Chain(s) ==
    Tree(<<Inner(<<s[1]>>, <<2>>), Inner(<<s[1]>>, <<3>>), Inner(<<s[1]>>, <<4>>), Leaf(s)>>)

GoodTrees == UNION {
    LET s == SetToSortSeq(S, Less) IN
         {Tree(<<Leaf(s)>>)}
    \cup UNION {{ThreeLeaves(s, c, d), ThreeLevels(s, c, d)} :
                  <<c, d>> \in {cd \in (1 .. Len(s)) \X (1 .. Len(s)) :
                                  cd[1] < cd[2] /\ cd[2] < Len(s)}}
    \cup (IF s = <<>> THEN {} ELSE {Chain(s)})
    : S \in SUBSET Universe}

\* inode stops at the first record; directories and extents at none; xattr
\* at the record with its name.
MCAccepts == {{}, {2}, {1, 2, 3}}

BrokenNodes ==
    UNION {{[leaf |-> l, keys |-> ks, refs |-> rs] :
              l \in BOOLEAN, ks \in [1 .. len -> {R(1, 1), R(2, 1)}],
              rs \in [1 .. len -> {1, 2}]} : len \in 0 .. 2}
BrokenTrees ==
    {[root |-> 1, node |-> <<n1, n2>>, records |-> <<>>, span |-> [b \in 1 .. 2 |-> [first |-> 0, past |-> 0]]] :
        n1 \in {n \in BrokenNodes : ~ n.leaf}, n2 \in BrokenNodes}
AllTrees == GoodTrees \cup BrokenTrees

ASSUME GoodAssumption == \A t \in GoodTrees : WellFormed(t)
=============================================================================
