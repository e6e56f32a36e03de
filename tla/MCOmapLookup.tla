---------------------------- MODULE MCOmapLookup ----------------------------
(* Instances of OmapLookup for TLC: every tree of some shapes over a few   *)
(* keys, and every graph of two broken nodes.                              *)
EXTENDS OmapLookup, SequencesExt, FiniteSetsExt

K(o, x) == [oid |-> o, xid |-> x]

Universe == {K(1, 1), K(1, 3), K(2, 2), K(2, 3), K(3, 1)}
AllWanted == {K(o, x) : o \in 1 .. 3, x \in 0 .. 3}
MCNodes == 1 .. 9

\* Two ways the mappings are marked.
KindSets == {
    [k \in Universe |-> IF k.xid = 3 THEN "deleted" ELSE "live"],
    [k \in Universe |-> CASE k = K(1, 1) -> "encrypted" [] k = K(2, 3) -> "ghost" [] OTHER -> "live"]}

Leaf(s, kind) == [leaf |-> TRUE, keys |-> s, refs |-> [j \in DOMAIN s |-> 9],
                  vals |-> [j \in DOMAIN s |-> kind[s[j]]]]
Inner(s, refs) == [leaf |-> FALSE, keys |-> s, refs |-> refs,
                   vals |-> [j \in DOMAIN s |-> "live"]]

RECURSIVE Under(_, _)
Under(node, b) ==
    IF node[b].leaf THEN {<<b, j - 1>> : j \in DOMAIN node[b].keys}
    ELSE UNION {Under(node, node[b].refs[j]) : j \in DOMAIN node[b].keys}

Tree(node) == [root |-> 1, blocks |-> DOMAIN node, node |-> node,
               under |-> [b \in DOMAIN node |-> Under(node, b)]]

Sorted(S) == SetToSortSeq(S, Less)
First(s) == s[1]

OneLeaf(s, kind) == Tree(<<Leaf(s, kind)>>)

TwoLeaves(s, c, kind) ==
    LET l == SubSeq(s, 1, c)  r == SubSeq(s, c + 1, Len(s))
    IN  Tree(<<Inner(<<First(l), First(r)>>, <<2, 3>>), Leaf(l, kind), Leaf(r, kind)>>)

\* Two non-leaf levels: the left child has two leaves, the right one a single leaf.
ThreeLevels(s, c, d, kind) ==
    LET l == SubSeq(s, 1, c)  m == SubSeq(s, c + 1, d)  r == SubSeq(s, d + 1, Len(s))
    IN  Tree(<<Inner(<<First(l), First(r)>>, <<2, 3>>),
               Inner(<<First(l), First(m)>>, <<4, 5>>), Inner(<<First(r)>>, <<6>>),
               Leaf(l, kind), Leaf(m, kind), Leaf(r, kind)>>)

\* Three non-leaf levels.
Chain(s, kind) ==
    Tree(<<Inner(<<First(s)>>, <<2>>), Inner(<<First(s)>>, <<3>>),
           Inner(<<First(s)>>, <<4>>), Leaf(s, kind)>>)

GoodTrees == UNION {
    LET s == Sorted(S) IN
         {OneLeaf(s, kind) : kind \in KindSets}
    \cup {TwoLeaves(s, c, kind) : c \in 1 .. Len(s) - 1, kind \in KindSets}
    \cup UNION {{ThreeLevels(s, c, d, kind) : d \in c + 1 .. Len(s) - 1, kind \in KindSets}
                  : c \in 1 .. Len(s) - 2}
    \cup (IF s = <<>> THEN {} ELSE {Chain(s, kind) : kind \in KindSets})
    : S \in SUBSET Universe}

\* Broken nodes: unordered keys, circles, non-leaf nodes without keys.
BrokenKeys == {K(1, 1), K(2, 2)}
BrokenNodes ==
    UNION {{[leaf |-> l, keys |-> ks, refs |-> rs, vals |-> [j \in 1 .. len |-> "live"]] :
              l \in BOOLEAN, ks \in [1 .. len -> BrokenKeys], rs \in [1 .. len -> {1, 2}]} :
             len \in 0 .. 2}
BrokenTrees ==
    {[root |-> 1, blocks |-> 1 .. 2, node |-> <<n1, n2>>, under |-> <<{}, {}>>] :
        n1 \in {n \in BrokenNodes : ~ n.leaf}, n2 \in BrokenNodes}
AllTrees == GoodTrees \cup BrokenTrees
=============================================================================
