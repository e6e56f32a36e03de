----------------------------- MODULE RangeScan -----------------------------
(***************************************************************************)
(* Range scans of a file-system tree (crates/apfs-core/src/btree.rs,       *)
(* scan_from / scan_rec and walk_leaves / walk_rec), as the readers of     *)
(* fs.rs use them: inode, read_dir_inode, extents and xattr each scan from *)
(* the first record whose (object, type) prefix is not below the wanted    *)
(* one, take records while the prefix matches, and stop.                   *)
(*                                                                         *)
(* The recursion is a stack of frames.  The tree is what the disk holds;   *)
(* any child can fail to load.                                             *)
(***************************************************************************)
EXTENDS Integers, Sequences, SequencesExt

CONSTANTS
    Nodes,      \* blocks
    Trees,      \* the trees scanned
    PrefixSet,  \* (object, type) prefixes, as numbers in key order
    SuffixSet,  \* what follows the prefix (a name, an offset), as numbers
    Accepts,    \* sets of suffixes at which a caller stops
    MaxDepth    \* depth of the recursion allowed (16 in btree.rs:327, 379)

Key == [prefix : PrefixSet, suffix : SuffixSet]
Less(k, m) == k.prefix < m.prefix \/ (k.prefix = m.prefix /\ k.suffix < m.suffix)

(***************************************************************************)
(* A node has its keys, and for each key its child (0: a ghost value).  A  *)
(* tree has its nodes and what the writer meant by them, which the code    *)
(* does not see: its records in key order, and for each node the span of   *)
(* those below it, from behind number `first` up to number `past`.         *)
(***************************************************************************)
NodeType == [leaf : BOOLEAN, keys : Seq(Key), refs : Seq(Nodes \cup {0})]
Span == [first : Nat, past : Nat]

ASSUME ScanAssumption ==
    /\ PrefixSet \subseteq Nat /\ SuffixSet \subseteq Nat /\ MaxDepth \in Nat
    /\ Nodes \subseteq Nat \ {0}
    /\ \A t \in Trees :
        /\ t.root \in DOMAIN t.node
        /\ \A b \in DOMAIN t.node : t.node[b] \in NodeType
        /\ \A b \in DOMAIN t.node : Len(t.node[b].refs) = Len(t.node[b].keys)
        /\ t.records \in Seq(Key) /\ t.span \in [DOMAIN t.node -> Span]

VARIABLES
    tree,       \* the tree on disk
    want,       \* the wanted prefix
    accept,     \* the suffixes at which the caller's callback stops
    walk,       \* TRUE for walk_leaves: every record, no lower bound
    stack,      \* the frames, innermost last: the node and the next index
    lo, hi,     \* bounds of the search in the innermost frame
    pc,         \* "enter", "search", "leaf", "inner", "ok" or "failed"
    delivered   \* the records the callback took

vars == <<tree, want, accept, walk, stack, lo, hi, pc, delivered>>
inputs == <<tree, want, accept, walk>>

Frame(b) == [node |-> b, next |-> 0]
Top      == Last(stack)
Node     == tree.node[Top.node]
NKeys    == Len(Node.keys)
KeyAt(k) == Node.keys[k + 1]
RefAt(k) == Node.refs[k + 1]

Init ==
    /\ tree \in Trees /\ want \in PrefixSet /\ accept \in Accepts /\ walk \in BOOLEAN
    /\ stack = <<Frame(tree.root)>>
    /\ lo = 0 /\ hi = 0
    /\ pc = "enter"
    /\ delivered = <<>>

SetNext(k) == stack' = [stack EXCEPT ![Len(stack)].next = k]

\* The head of scan_rec: the depth is that of the frame, 0 for the root.
TooDeep ==
    /\ pc = "enter" /\ Len(stack) - 1 > MaxDepth
    /\ pc' = "failed"
    /\ UNCHANGED <<inputs, stack, lo, hi, delivered>>

Enter ==
    /\ pc = "enter" /\ Len(stack) - 1 <= MaxDepth
    /\ lo' = 0 /\ hi' = (IF walk THEN 0 ELSE NKeys)
    /\ pc' = "search"
    /\ UNCHANGED <<inputs, stack, delivered>>

\* Lower bound: the first key whose prefix is not below the wanted one.
Mid == (lo + hi) \div 2

Search ==
    /\ pc = "search" /\ lo < hi
    /\ IF KeyAt(Mid).prefix < want
         THEN lo' = Mid + 1 /\ hi' = hi
         ELSE hi' = Mid /\ lo' = lo
    /\ UNCHANGED <<inputs, stack, pc, delivered>>

\* Mutated: the child at the bound; the child before it, not saturated.
ChildAtBound(lb) == lb
ChildBeforeBound(lb) == lb - 1

\* lb.saturating_sub(1): the child before the bound may hold wanted records.
FirstChild(lb) == IF lb = 0 THEN 0 ELSE lb - 1

StartNode ==
    /\ pc = "search" /\ lo = hi
    /\ IF Node.leaf
         THEN SetNext(lo) /\ pc' = "leaf"
         ELSE SetNext(FirstChild(lo)) /\ pc' = "inner"
    /\ UNCHANGED <<inputs, lo, hi, delivered>>

\* The callback: false, without taking the record, past the wanted prefix;
\* false after taking a record the caller was looking for.
Takes(k) == walk \/ k.prefix = want
Goes(k)  == walk \/ (k.prefix = want /\ k.suffix \notin accept)

CallBack ==
    /\ pc = "leaf" /\ Top.next < NKeys
    /\ LET k == KeyAt(Top.next) IN
         /\ delivered' = IF Takes(k) THEN Append(delivered, k) ELSE delivered
         /\ pc' = IF Goes(k) THEN "leaf" ELSE "ok"
    /\ SetNext(Top.next + 1)
    /\ UNCHANGED <<inputs, lo, hi>>

\* Ok(true) from a frame: the caller's loop goes on, or the scan is over.
EndNode ==
    /\ pc \in {"leaf", "inner"} /\ Top.next >= NKeys
    /\ IF Len(stack) = 1
         THEN pc' = "ok" /\ UNCHANGED stack
         ELSE pc' = "inner" /\ stack' = Front(stack)
    /\ UNCHANGED <<inputs, lo, hi, delivered>>

\* Mutated: the index is not advanced.
RecurseAgain ==
    /\ pc = "inner" /\ Top.next < NKeys
    /\ RefAt(Top.next) \in DOMAIN tree.node
    /\ stack' = Append(stack, Frame(RefAt(Top.next)))
    /\ pc' = "enter"
    /\ UNCHANGED <<inputs, lo, hi, delivered>>

Recurse ==
    /\ pc = "inner" /\ Top.next < NKeys
    /\ RefAt(Top.next) \in DOMAIN tree.node
    /\ stack' = Append([stack EXCEPT ![Len(stack)].next = @ + 1],
                       Frame(RefAt(Top.next)))
    /\ pc' = "enter"
    /\ UNCHANGED <<inputs, lo, hi, delivered>>

\* A key or value outside the block, a ghost value, a child that does not load
\* or is no node, or a record that the callback cannot parse.
RecordFails ==
    /\ \/ pc = "search" /\ lo < hi
       \/ pc \in {"leaf", "inner"} /\ Top.next < NKeys
    /\ pc' = "failed"
    /\ UNCHANGED <<inputs, stack, lo, hi, delivered>>

Next ==
    \/ TooDeep \/ Enter \/ Search \/ StartNode
    \/ CallBack \/ EndNode \/ Recurse \/ RecordFails

\* A scan runs on the caller's thread until it returns.
Spec == Init /\ [][Next]_vars /\ WF_vars(Next)

----------------------------------------------------------------------------
\* The children of a node divide its span among them, and a separator is the
\* smallest key below its child.
Divides(t, b) ==
    LET n == t.node[b]
        Below(k) == t.span[n.refs[k]]
    IN  /\ n.keys # <<>>
        /\ \A k \in DOMAIN n.keys :
              /\ n.refs[k] \in DOMAIN t.node
              /\ Below(k).first < Below(k).past /\ Below(k).past <= Len(t.records)
              /\ n.keys[k] = t.records[Below(k).first + 1]
        /\ Below(1).first = t.span[b].first /\ Below(Len(n.keys)).past = t.span[b].past
        /\ \A k \in 1 .. Len(n.keys) - 1 : Below(k).past = Below(k + 1).first

WellFormed(t) ==
    /\ \A i, j \in DOMAIN t.records : i < j => Less(t.records[i], t.records[j])
    /\ t.span[t.root] = [first |-> 0, past |-> Len(t.records)]
    /\ \A b \in DOMAIN t.node :
          IF t.node[b].leaf
          THEN t.span[b].past <= Len(t.records)
               /\ t.node[b].keys = SubSeq(t.records, t.span[b].first + 1, t.span[b].past)
               /\ t.span[b].first <= t.span[b].past
          ELSE Divides(t, b)

\* What the caller asked for: the records it takes up to the one at which it
\* stops, which are neighbours.
Asked(s) == {i \in DOMAIN s : Takes(s[i]) /\ \A j \in 1 .. i - 1 : Takes(s[j]) => Goes(s[j])}
Wanted(s) == IF Asked(s) = {} THEN <<>> ELSE SubSeq(s, Min(Asked(s)), Max(Asked(s)))

Status == IF pc \in {"ok", "failed"} THEN pc ELSE "running"

\* Nothing is promised about a broken tree but that the scan returns.
Expected == IF WellFormed(tree) THEN Wanted(tree.records) ELSE <<>>
Given    == IF WellFormed(tree) THEN delivered ELSE <<>>

Promise == INSTANCE OrderedScan
             WITH Records <- Key, expected <- Expected, delivered <- Given, status <- Status

(* On a well-formed tree the scan delivers exactly the wanted records, in  *)
(* order and each once, wherever they are spread over the leaves, also     *)
(* when a run of equal prefixes starts in the middle of the leaf before    *)
(* the separator it equals (btree.rs:331-358); it never reports success    *)
(* with a record missing.                                                  *)
DeliversWanted == Promise!Spec

(* A scan returns, whatever circles the nodes form (btree.rs:327, 379).    *)
ScanReturns == <>(pc \in {"ok", "failed"})

(* Type invariant of the scan.                                             *)
TypeOK ==
    /\ want \in PrefixSet /\ accept \in Accepts /\ walk \in BOOLEAN
    /\ stack \in Seq([node : DOMAIN tree.node, next : Nat])
    /\ Len(stack) \in 1 .. MaxDepth + 2
    /\ lo \in Nat /\ hi \in Nat
    /\ pc \in {"enter", "search", "leaf", "inner", "ok", "failed"}
    /\ delivered \in Seq(Key)
============================================================================
