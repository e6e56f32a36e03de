--------------------------- MODULE RangeScanProofs ---------------------------
(***************************************************************************)
(* Proofs about RangeScan for trees of any shape and size: the scan keeps  *)
(* its types in any tree, and in a well-formed one it implements           *)
(* OrderedScan.                                                            *)
(*                                                                         *)
(* The argument follows a position in the records of the tree, At: all     *)
(* records before it are either below the wanted prefix or delivered, none *)
(* of them stopped the scan, and the rest is still ahead of the frames on  *)
(* the stack.  Only StartNode moves the position over records it does not  *)
(* look at, and the lower bound says that these are below the prefix.      *)
(***************************************************************************)
EXTENDS RangeScan, TLAPS, SequenceTheorems, WellFoundedInduction

(* A non-empty set of numbers has a least element: what induction over     *)
(* numbers amounts to, without a predicate as a parameter.                 *)
LEMMA LeastNumber ==
    ASSUME NEW S \in SUBSET Nat, S # {}
    PROVE  \E n \in S : \A m \in S : n <= m
<1>1. PICK n \in S : \A m \in S : ~ (<<m, n>> \in OpToRel(<, Nat))
  BY NatLessThanWellFounded, WFMin, Zenon
<1>2. ASSUME NEW m \in S PROVE n <= m
  <2>1. ~ (m < n)
    BY <1>1, Zenon DEF OpToRel
  <2> QED
    BY <2>1
<1> QED
  BY <1>2

LEMMA GreatestNumber ==
    ASSUME NEW S \in SUBSET Nat, S # {}, NEW b \in Nat, \A n \in S : n <= b
    PROVE  Max(S) \in S /\ \A n \in S : n <= Max(S)
<1> DEFINE U == {u \in Nat : \A n \in S : n <= u}
<1>1. U \in SUBSET Nat /\ U # {}
  OBVIOUS
<1>2. PICK u \in U : \A v \in U : u <= v
  BY <1>1, LeastNumber
<1>3. u \in Nat /\ \A n \in S : n <= u
  BY <1>2
<1>4. u \in S
  <2> SUFFICES ASSUME u \notin S PROVE FALSE
    OBVIOUS
  <2>1. \A n \in S : n \in Nat /\ n < u
    BY <1>3
  <2>2. u >= 1
    <3>1. PICK n \in S : TRUE
      OBVIOUS
    <3>2. n \in Nat /\ n < u
      BY <2>1
    <3> QED
      BY <1>3, <3>2
  <2>3. \A n \in S : n <= u - 1
    BY <1>3, <2>1, <2>2
  <2>4. u - 1 \in U
    BY <1>3, <2>2, <2>3
  <2> QED
    BY <1>2, <1>3, <2>4
<1>5. \E x \in S : \A y \in S : x >= y
  BY <1>3, <1>4
<1>6. Max(S) \in S /\ \A y \in S : Max(S) >= y
  BY <1>5 DEF Max
<1> QED
  BY <1>6

LEMMA MinIs ==
    ASSUME NEW S \in SUBSET Int, NEW m \in S, \A n \in S : m <= n
    PROVE  Min(S) = m
<1>1. Min(S) \in S /\ \A n \in S : Min(S) <= n
  BY DEF Min
<1>2. Min(S) \in Int /\ m \in Int /\ Min(S) <= m /\ m <= Min(S)
  BY <1>1
<1> QED
  BY <1>2

LEMMA MaxIs ==
    ASSUME NEW S \in SUBSET Int, NEW m \in S, \A n \in S : n <= m
    PROVE  Max(S) = m
<1>1. Max(S) \in S /\ \A n \in S : Max(S) >= n
  BY DEF Max
<1>2. Max(S) \in Int /\ m \in Int /\ Max(S) >= m /\ m >= Max(S)
  BY <1>1
<1> QED
  BY <1>2

\* A stretch of a sequence.
LEMMA Stretch ==
    ASSUME NEW S, NEW s \in Seq(S), NEW f \in Nat, NEW b \in Nat, f <= b, b <= Len(s)
    PROVE  /\ SubSeq(s, f + 1, b) \in Seq(S) /\ Len(SubSeq(s, f + 1, b)) = b - f
           /\ \A i \in 1 .. b - f : SubSeq(s, f + 1, b)[i] = s[f + i]
<1>1. \A i \in f + 1 .. b : i \in 1 .. Len(s)
  OBVIOUS
<1>2. \A i \in f + 1 .. b : s[i] \in S
  BY <1>1, ElementOfSeq
<1>3. /\ SubSeq(s, f + 1, b) \in Seq(S)
      /\ Len(SubSeq(s, f + 1, b)) = IF f + 1 <= b THEN b - (f + 1) + 1 ELSE 0
      /\ \A i \in 1 .. b - (f + 1) + 1 : SubSeq(s, f + 1, b)[i] = s[f + 1 + i - 1]
  BY <1>2, SubSeqProperties
<1>4. b - (f + 1) + 1 = b - f /\ (~ f + 1 <= b => b - f = 0)
  OBVIOUS
<1>5. \A i \in 1 .. b - f : f + 1 + i - 1 = f + i
  OBVIOUS
<1> QED
  BY <1>3, <1>4, <1>5

LEMMA StretchMore ==
    ASSUME NEW S, NEW s \in Seq(S), NEW f \in Nat, NEW b \in Nat, f <= b, b < Len(s)
    PROVE  Append(SubSeq(s, f + 1, b), s[b + 1]) = SubSeq(s, f + 1, b + 1)
<1> DEFINE x == SubSeq(s, f + 1, b)
           y == SubSeq(s, f + 1, b + 1)
<1>1. x \in Seq(S) /\ Len(x) = b - f /\ \A i \in 1 .. b - f : x[i] = s[f + i]
  BY Stretch
<1>2. y \in Seq(S) /\ Len(y) = b + 1 - f /\ \A i \in 1 .. b + 1 - f : y[i] = s[f + i]
  BY Stretch
<1>3. s[b + 1] \in S
  BY ElementOfSeq
<1> HIDE DEF x, y
<1> DEFINE z == Append(x, s[b + 1])
<1>a. /\ z \in Seq(S) /\ Len(z) = Len(x) + 1
      /\ \A i \in 1 .. Len(x) : z[i] = x[i]
      /\ z[Len(x) + 1] = s[b + 1]
  <2> SUFFICES ASSUME NEW q \in Seq(S), NEW e \in S
               PROVE  /\ Append(q, e) \in Seq(S) /\ Len(Append(q, e)) = Len(q) + 1
                      /\ \A i \in 1 .. Len(q) : Append(q, e)[i] = q[i]
                      /\ Append(q, e)[Len(q) + 1] = e
    BY <1>1, <1>3
  <2> QED
    BY AppendProperties
<1> HIDE DEF z
<1>4. /\ z \in Seq(S) /\ Len(z) = b - f + 1
      /\ \A i \in 1 .. b - f : z[i] = x[i]
      /\ z[b - f + 1] = s[b + 1]
  BY <1>1, <1>a
<1>5. \A i \in 1 .. b - f + 1 : z[i] = y[i]
  BY <1>1, <1>2, <1>4
<1>6. z = y
  BY <1>2, <1>4, <1>5, SeqEqual
<1> QED
  BY <1>6 DEF x, y, z

\* Sequences: an element, a replaced element, all but the last.
LEMMA Element ==
    ASSUME NEW S, NEW s \in Seq(S), NEW i \in 1 .. Len(s)
    PROVE  s[i] \in S
OBVIOUS

LEMMA Replaced ==
    ASSUME NEW S, NEW s \in Seq(S), NEW i \in 1 .. Len(s), NEW e \in S
    PROVE  /\ [s EXCEPT ![i] = e] \in Seq(S) /\ Len([s EXCEPT ![i] = e]) = Len(s)
           /\ [s EXCEPT ![i] = e][i] = e
           /\ \A j \in 1 .. Len(s) : j # i => [s EXCEPT ![i] = e][j] = s[j]
OBVIOUS

LEMMA FrontFacts ==
    ASSUME NEW S, NEW s \in Seq(S), Len(s) > 1
    PROVE  /\ Front(s) \in Seq(S) /\ Len(Front(s)) = Len(s) - 1
           /\ \A i \in 1 .. Len(s) - 1 : Front(s)[i] = s[i]
BY DEF Front

----------------------------------------------------------------------------
(* The tree is one of those assumed, the depth limit is checked at every   *)
(* frame but the innermost one, and an index stays in its node.            *)
Deep == pc \in {"search", "leaf", "inner"} => Len(stack) <= MaxDepth + 1
IndicesIn == \A i \in DOMAIN stack : stack[i].next <= Len(tree.node[stack[i].node].keys)
BoundsIn == pc = "search" => lo <= hi /\ hi <= NKeys

TypeInv == TypeOK /\ tree \in Trees /\ Deep /\ IndicesIn /\ BoundsIn

LEMMA TreeFacts ==
    ASSUME TypeInv
    PROVE  /\ tree.root \in DOMAIN tree.node
           /\ \A b \in DOMAIN tree.node :
                /\ tree.node[b] \in NodeType
                /\ Len(tree.node[b].refs) = Len(tree.node[b].keys)
           /\ tree.records \in Seq(Key) /\ tree.span \in [DOMAIN tree.node -> Span]
           /\ MaxDepth \in Nat
BY ScanAssumption DEF TypeInv

Frames == [node : DOMAIN tree.node, next : Nat]

LEMMA TopFacts ==
    ASSUME TypeInv
    PROVE  /\ stack \in Seq(Frames) /\ Top \in Frames /\ Len(stack) \in 1 .. Len(stack)
           /\ Len(stack) \in Nat \ {0} /\ Top = stack[Len(stack)]
           /\ Top.node \in DOMAIN tree.node /\ Top.next \in 0 .. NKeys /\ NKeys \in Nat
           /\ Node = tree.node[Top.node] /\ Node.keys \in Seq(Key)
           /\ \A k \in 0 .. NKeys - 1 : KeyAt(k) \in Key
<1>1. /\ stack \in Seq(Frames) /\ Len(stack) \in 1 .. MaxDepth + 2 /\ MaxDepth \in Nat
  BY TreeFacts DEF TypeInv, TypeOK, Frames
<1>2. Len(stack) \in DOMAIN stack /\ Len(stack) \in Nat \ {0} /\ Top = stack[Len(stack)]
  BY <1>1 DEF Top, Last
<1>a. Top \in Frames
  BY <1>1, <1>2, Element
<1>3. Top.node \in DOMAIN tree.node /\ Top.next \in Nat
  BY <1>a DEF Frames
<1>4. Node.keys \in Seq(Key)
  BY <1>3, TreeFacts DEF Node, NodeType
<1>5. Top.next <= NKeys
  BY <1>2 DEF TypeInv, IndicesIn, NKeys, Node
<1> QED
  BY <1>1, <1>2, <1>a, <1>3, <1>4, <1>5 DEF Node, NKeys, KeyAt

\* Advancing the innermost frame.
LEMMA SetNextFacts ==
    ASSUME TypeInv, NEW k \in 0 .. NKeys, SetNext(k), UNCHANGED tree
    PROVE  /\ stack' \in Seq(Frames)
           /\ Len(stack') = Len(stack)
           /\ \A i \in DOMAIN stack : i # Len(stack) => stack'[i] = stack[i]
           /\ stack'[Len(stack)] = [node |-> Top.node, next |-> k]
           /\ Top' = [node |-> Top.node, next |-> k]
           /\ Node' = Node /\ NKeys' = NKeys
           /\ IndicesIn'
<1> DEFINE e == [node |-> Top.node, next |-> k]
<1>1. /\ stack \in Seq(Frames) /\ Len(stack) \in 1 .. Len(stack) /\ Top = stack[Len(stack)] /\ Top \in Frames
      /\ e \in Frames
  BY TopFacts DEF Frames
<1>2. stack' = [stack EXCEPT ![Len(stack)] = [Top EXCEPT !.next = k]] /\ [Top EXCEPT !.next = k] = e
  BY <1>1 DEF SetNext, Frames
<1> HIDE DEF e
<1>3. /\ stack' \in Seq(Frames) /\ Len(stack') = Len(stack) /\ DOMAIN stack' = DOMAIN stack
      /\ \A i \in DOMAIN stack : i # Len(stack) => stack'[i] = stack[i]
      /\ stack'[Len(stack)] = e
  BY <1>1, <1>2, Replaced
<1>4. Top' = [node |-> Top.node, next |-> k]
  BY <1>3 DEF Top, Last, e
<1>5. Node' = Node /\ NKeys' = NKeys
  BY <1>4 DEF Node, NKeys
<1>6. IndicesIn'
  <2> SUFFICES ASSUME NEW i \in DOMAIN stack PROVE stack'[i].next <= Len(tree.node[stack'[i].node].keys)
    BY <1>3 DEF IndicesIn
  <2>1. CASE i = Len(stack)
    <3>1. stack'[i].node = Top.node /\ stack'[i].next = k /\ NKeys \in Nat
      BY <1>3, <2>1, TopFacts DEF e
    <3> QED
      BY <3>1, TopFacts DEF NKeys
  <2>2. CASE i # Len(stack)
    BY <1>3, <2>2 DEF TypeInv, IndicesIn
  <2> QED
    BY <2>1, <2>2
<1> QED
  BY <1>3, <1>4, <1>5, <1>6 DEF e

\* Leaving a node, and descending into a child.
LEMMA PopFacts ==
    ASSUME TypeInv, EndNode, Len(stack) # 1
    PROVE  /\ stack' \in Seq(Frames) /\ Len(stack') = Len(stack) - 1 /\ Len(stack) > 1
           /\ \A i \in DOMAIN stack' : i \in DOMAIN stack /\ stack'[i] = stack[i]
<1>1. stack' = Front(stack)
  BY Zenon DEF EndNode
<1>2. Len(stack) \in Nat \ {0} /\ stack \in Seq(Frames)
  BY TopFacts, Zenon
<1> DEFINE n == Len(stack)
<1>3. n \in Nat \ {0} /\ n # 1
  BY <1>2
<1> HIDE DEF n
<1>4. n > 1
  BY <1>3
<1>5. Len(stack) > 1
  BY <1>4 DEF n
<1>6. /\ Front(stack) \in Seq(Frames) /\ Len(Front(stack)) = Len(stack) - 1
      /\ \A i \in 1 .. Len(stack) - 1 : Front(stack)[i] = stack[i]
  BY <1>2, <1>5, FrontFacts, Zenon
<1> QED
  BY <1>1, <1>2, <1>5, <1>6

LEMMA PushFacts ==
    ASSUME TypeInv, Recurse
    PROVE  /\ stack' \in Seq(Frames) /\ Len(stack') = Len(stack) + 1
           /\ \A i \in 1 .. Len(stack) - 1 : stack'[i] = stack[i]
           /\ stack'[Len(stack)] = [node |-> Top.node, next |-> Top.next + 1]
           /\ stack'[Len(stack) + 1] = [node |-> RefAt(Top.next), next |-> 0]
           /\ Top.next + 1 \in 1 .. NKeys /\ RefAt(Top.next) \in DOMAIN tree.node
           /\ IndicesIn'
<1> DEFINE b == RefAt(Top.next)
           s == [stack EXCEPT ![Len(stack)].next = @ + 1]
           e == [node |-> Top.node, next |-> Top.next + 1]
<1>1. b \in DOMAIN tree.node /\ Len(tree.node[b].keys) \in Nat
  BY TreeFacts DEF Recurse, NodeType
<1>2. Top.next + 1 \in 1 .. NKeys /\ Len(stack) \in DOMAIN stack
  BY TopFacts DEF Recurse
<1>3. stack' = Append(s, Frame(b))
  BY DEF Recurse
<1>4. /\ s \in Seq(Frames) /\ Len(s) = Len(stack)
      /\ \A i \in DOMAIN stack : i # Len(stack) => s[i] = stack[i]
      /\ s[Len(stack)] = e
  <2>1. s = [stack EXCEPT ![Len(stack)] = [Top EXCEPT !.next = @ + 1]]
    BY TopFacts
  <2>2. [Top EXCEPT !.next = @ + 1] = e /\ e \in Frames
    BY <1>2, TopFacts DEF Frames
  <2>3. stack \in Seq(Frames) /\ Len(stack) \in 1 .. Len(stack)
    BY TopFacts
  <2> HIDE DEF e, s, b
  <2> QED
    BY <2>1, <2>2, <2>3, Replaced
<1>5. Frame(b) = [node |-> b, next |-> 0] /\ Frame(b) \in Frames
  BY <1>1 DEF Frame, Frames
<1> HIDE DEF s, b, e
<1>6. /\ stack' \in Seq(Frames) /\ Len(stack') = Len(stack) + 1
      /\ \A i \in DOMAIN stack : stack'[i] = s[i]
      /\ stack'[Len(stack) + 1] = Frame(b)
      /\ DOMAIN stack' = 1 .. Len(stack) + 1
  BY <1>3, <1>4, <1>5
<1>7. \A i \in 1 .. Len(stack) - 1 : i \in DOMAIN stack /\ stack'[i] = stack[i]
  <2> TAKE i \in 1 .. Len(stack) - 1
  <2>1. i \in DOMAIN stack /\ i # Len(stack)
    BY TopFacts
  <2> QED
    BY <1>4, <1>6, <2>1
<1>8. stack'[Len(stack)] = e
  BY <1>2, <1>4, <1>6
<1>9. IndicesIn'
  <2> SUFFICES ASSUME NEW i \in 1 .. Len(stack) + 1
               PROVE  stack'[i].next <= Len(tree.node[stack'[i].node].keys)
    BY <1>6 DEF IndicesIn, Recurse, inputs
  <2>1. CASE i = Len(stack) + 1
    BY <1>1, <1>5, <1>6, <2>1
  <2>2. CASE i = Len(stack)
    <3>1. stack'[i].node = Top.node /\ stack'[i].next = Top.next + 1
      BY <1>8, <2>2 DEF e
    <3> QED
      BY <1>2, <3>1, TopFacts DEF NKeys
  <2>3. CASE i < Len(stack)
    <3>1. i \in DOMAIN stack /\ stack'[i] = stack[i]
      BY <1>7, <2>3, TopFacts
    <3> QED
      BY <3>1 DEF IndicesIn, TypeInv
  <2> QED
    BY <1>2, <2>1, <2>2, <2>3
<1> QED
  BY <1>1, <1>2, <1>5, <1>6, <1>7, <1>8, <1>9 DEF b, e

LEMMA TypeInit == Init => TypeInv
<1> SUFFICES ASSUME Init PROVE TypeInv
  OBVIOUS
<1>1. tree \in Trees /\ tree.root \in DOMAIN tree.node /\ MaxDepth \in Nat
  BY ScanAssumption DEF Init
<1>2. stack \in Seq([node : DOMAIN tree.node, next : Nat]) /\ Len(stack) = 1
  BY <1>1 DEF Init, Frame
<1>3. \A i \in DOMAIN stack : stack[i] = [node |-> tree.root, next |-> 0]
  BY DEF Init, Frame
<1>4. Len(tree.node[tree.root].keys) \in Nat
  BY <1>1, ScanAssumption DEF NodeType
<1> QED
  BY <1>1, <1>2, <1>3, <1>4 DEF Init, TypeInv, TypeOK, Deep, IndicesIn, BoundsIn

LEMMA TypeStep == TypeInv /\ [Next]_vars => TypeInv'
<1> SUFFICES ASSUME TypeInv, [Next]_vars PROVE TypeInv'
  OBVIOUS
<1>a. /\ TypeOK /\ tree \in Trees /\ Deep /\ IndicesIn /\ BoundsIn
      /\ (tree' = tree => Frames' = Frames)
  BY DEF TypeInv, Frames
<1>b. ASSUME tree' = tree, want' = want, accept' = accept, walk' = walk, stack' \in Seq(Frames),
             Len(stack') \in 1 .. MaxDepth + 2, lo' \in Nat, hi' \in Nat,
             pc' \in {"enter", "search", "leaf", "inner", "ok", "failed"}, delivered' \in Seq(Key),
             Deep', IndicesIn', BoundsIn'
      PROVE  TypeInv'
  BY <1>a, <1>b DEF TypeInv, TypeOK, Frames
<1>c. /\ stack \in Seq(Frames) /\ Len(stack) \in 1 .. MaxDepth + 2 /\ lo \in Nat /\ hi \in Nat
      /\ pc \in {"enter", "search", "leaf", "inner", "ok", "failed"} /\ delivered \in Seq(Key)
  BY TopFacts, <1>a DEF TypeOK
<1>1. CASE TooDeep
  BY <1>a, <1>b, <1>c, <1>1 DEF TooDeep, inputs, Deep, IndicesIn, BoundsIn
<1>2. CASE Enter
  <2>1. NKeys' = NKeys /\ NKeys \in Nat
    BY <1>a, <1>b, <1>c, <1>2, TopFacts DEF Enter, inputs, NKeys, Node, Top
  <2> QED
    BY <1>a, <1>b, <1>c, <1>2, <2>1, TreeFacts DEF Enter, inputs, Deep, IndicesIn, BoundsIn
<1>3. CASE Search
  <2>1. NKeys' = NKeys /\ NKeys \in Nat
    BY <1>a, <1>b, <1>c, <1>3, TopFacts DEF Search, inputs, NKeys, Node, Top
  <2>2. Mid \in Nat /\ lo <= Mid /\ Mid < hi
    BY <1>a, <1>b, <1>c, <1>3, SMT DEF Search, Mid
  <2> QED
    BY <1>a, <1>b, <1>c, <1>3, <2>1, <2>2 DEF Search, inputs, Deep, IndicesIn, BoundsIn
<1>4. CASE StartNode
  <2>1. lo \in 0 .. NKeys /\ FirstChild(lo) \in 0 .. NKeys
    BY <1>a, <1>b, <1>c, <1>4, TopFacts DEF StartNode, BoundsIn, FirstChild
  <2>2. PICK k \in 0 .. NKeys : SetNext(k)
    BY <1>a, <1>b, <1>c, <1>4, <2>1 DEF StartNode
  <2> QED
    BY <1>a, <1>b, <1>c, <1>4, <2>2, SetNextFacts DEF StartNode, inputs, Deep, BoundsIn
<1>5. CASE CallBack
  <2>1. Top.next + 1 \in 0 .. NKeys /\ KeyAt(Top.next) \in Key
    BY <1>a, <1>b, <1>c, <1>5, TopFacts DEF CallBack
  <2>2. delivered' \in Seq(Key)
    BY <1>a, <1>b, <1>c, <1>5, <2>1 DEF CallBack
  <2>3. pc' \in {"leaf", "ok"}
    BY <1>a, <1>b, <1>c, <1>5 DEF CallBack
  <2> QED
    BY <1>a, <1>b, <1>c, <1>5, <2>1, <2>2, <2>3, SetNextFacts DEF CallBack, inputs, Deep, BoundsIn
<1>6. CASE EndNode
  <2>1. CASE Len(stack) = 1
    BY <1>a, <1>b, <1>c, <1>6, <2>1 DEF EndNode, inputs, Deep, IndicesIn, BoundsIn
  <2>2. CASE Len(stack) # 1
    <3>1. /\ stack' \in Seq(Frames)
          /\ Len(stack') = Len(stack) - 1 /\ Len(stack) > 1
          /\ \A i \in DOMAIN stack' : i \in DOMAIN stack /\ stack'[i] = stack[i]
      BY <1>6, <2>2, PopFacts
    <3> QED
      BY <1>a, <1>b, <1>c, <1>6, <2>2, <3>1, TreeFacts DEF EndNode, inputs, Deep, IndicesIn, BoundsIn
  <2> QED
    BY <2>1, <2>2
<1>7. CASE Recurse
  <2>1. /\ stack' \in Seq(Frames) /\ Len(stack') = Len(stack) + 1 /\ IndicesIn'
    BY <1>7, PushFacts
  <2> QED
    BY <1>a, <1>b, <1>c, <1>7, <2>1, TreeFacts DEF Recurse, inputs, Deep, BoundsIn
<1>8. CASE RecordFails
  BY <1>a, <1>b, <1>c, <1>8 DEF RecordFails, inputs, Deep, IndicesIn, BoundsIn
<1>9. CASE UNCHANGED vars
  BY <1>a, <1>b, <1>c, <1>9 DEF vars, Deep, IndicesIn, BoundsIn, NKeys, Node, Top
<1> QED
  BY <1>1, <1>2, <1>3, <1>4, <1>5, <1>6, <1>7, <1>8, <1>9 DEF Next

(* The scan keeps its types, and its recursion its depth, in any tree,     *)
(* sorted or not and whatever circles its nodes form (scan_rec and         *)
(* walk_rec, btree.rs:313-407).                                            *)
THEOREM TypeCorrect == Spec => []TypeOK
<1>1. TypeInv => TypeOK
  BY DEF TypeInv
<1> QED
  BY <1>1, TypeInit, TypeStep, PTL DEF Spec

----------------------------------------------------------------------------
(* The position of the scan.                                               *)
BelowWant(k) == ~ walk /\ k.prefix < want

\* Where a frame stands: at its next record, or before its next child.
PosOf(frame) ==
    LET n == tree.node[frame.node] IN
    IF n.leaf THEN tree.span[frame.node].first + frame.next
    ELSE IF frame.next < Len(n.keys) THEN tree.span[n.refs[frame.next + 1]].first
    ELSE tree.span[frame.node].past

At == IF pc \in {"enter", "search"} THEN tree.span[Top.node].first ELSE PosOf(Top)

\* The first `at` records are done with: f of them lie below the wanted prefix,
\* the others are delivered and did not stop the scan.
ReadyAt(at, d) ==
    /\ at \in 0 .. Len(tree.records)
    /\ \E f \in 0 .. at :
          /\ \A i \in 1 .. f : BelowWant(tree.records[i])
          /\ \A i \in f + 1 .. at : Goes(tree.records[i])
          /\ d = SubSeq(tree.records, f + 1, at)

\* A frame on the stack waits for the child it descended to.
Path ==
    /\ stack[1].node = tree.root
    /\ \A i \in 1 .. Len(stack) - 1 :
          /\ ~ tree.node[stack[i].node].leaf /\ stack[i].next >= 1
          /\ tree.node[stack[i].node].refs[stack[i].next] = stack[i + 1].node

\* The lower bound lies between lo and hi; the rest of a leaf is not below it.
BoundBetween ==
    pc = "search" =>
        /\ walk => hi = 0
        /\ \A k \in 1 .. lo : BelowWant(Node.keys[k])
        /\ \A k \in hi + 1 .. NKeys : ~ BelowWant(Node.keys[k])

LeafRest == pc = "leaf" => Node.leaf /\ \A k \in Top.next + 1 .. NKeys : ~ BelowWant(Node.keys[k])
InnerTop == pc = "inner" => ~ Node.leaf

Progress == pc \notin {"ok", "failed"} => ReadyAt(At, delivered)

ScanInv == WellFormed(tree) => Path /\ BoundBetween /\ LeafRest /\ InnerTop /\ Progress

LEMMA RecordsAscend ==
    ASSUME TypeInv, WellFormed(tree), NEW i \in DOMAIN tree.records, NEW j \in DOMAIN tree.records, i <= j
    PROVE  /\ tree.records[i].prefix \in Nat /\ tree.records[j].prefix \in Nat /\ want \in Nat
           /\ tree.records[i].prefix <= tree.records[j].prefix
<1>1. tree.records \in Seq(Key) /\ PrefixSet \subseteq Nat /\ want \in Nat
  BY TreeFacts, ScanAssumption DEF TypeInv, TypeOK
<1>2. tree.records[i] \in Key /\ tree.records[j] \in Key
  BY <1>1, Element
<1>3. tree.records[i].prefix \in Nat /\ tree.records[j].prefix \in Nat
  BY <1>1, <1>2 DEF Key
<1>4. CASE i = j
  BY <1>1, <1>3, <1>4
<1>5. CASE i < j
  BY <1>1, <1>3, <1>5 DEF WellFormed, Less
<1> QED
  BY <1>1, <1>4, <1>5

\* Records below the wanted prefix may be passed over.
LEMMA Skip ==
    ASSUME TypeInv, WellFormed(tree), NEW at, NEW d, ReadyAt(at, d),
           NEW j \in DOMAIN tree.records, NEW a \in Nat, at <= a, a <= j,
           BelowWant(tree.records[j])
    PROVE  ReadyAt(a, d)
<1> DEFINE r == tree.records
<1>1. r \in Seq(Key) /\ at \in 0 .. Len(r) /\ j \in 1 .. Len(r)
  BY TreeFacts DEF ReadyAt
<1>2. \A i \in 1 .. j : BelowWant(r[i])
  BY <1>1, RecordsAscend DEF BelowWant
<1>3. PICK f \in 0 .. at : /\ \A i \in f + 1 .. at : Goes(r[i])
                           /\ d = SubSeq(r, f + 1, at)
  BY DEF ReadyAt
<1>4. f = at
  <2> SUFFICES ASSUME f # at PROVE FALSE
    OBVIOUS
  <2>1. at \in f + 1 .. at /\ at \in 1 .. j
    BY <1>1, <1>3
  <2>2. Goes(r[at]) /\ BelowWant(r[at])
    BY <1>2, <1>3, <2>1
  <2>3. r[at].prefix < want /\ r[at].prefix = want /\ r[at].prefix \in Nat
    <3>1. at \in DOMAIN r
      BY <1>1, <2>1
    <3>2. r[at].prefix \in Nat
      <4>1. at <= at
        BY <1>1
      <4> QED
        BY <3>1, <4>1, RecordsAscend
    <3> QED
      BY <2>2, <3>2 DEF Goes, BelowWant
  <2> QED
    BY <2>3
<1>5. d = <<>> /\ SubSeq(r, a + 1, a) = <<>>
  BY <1>1, <1>3, <1>4
<1>6. /\ a \in 0 .. Len(r) /\ a \in 0 .. a
      /\ \A i \in 1 .. a : BelowWant(r[i])
      /\ \A i \in a + 1 .. a : Goes(r[i])
  BY <1>1, <1>2
<1> QED
  BY <1>5, <1>6 DEF ReadyAt

\* One more record, taken and not the last.
LEMMA Advance ==
    ASSUME TypeInv, NEW at, NEW d, ReadyAt(at, d), at < Len(tree.records),
           Goes(tree.records[at + 1])
    PROVE  ReadyAt(at + 1, Append(d, tree.records[at + 1]))
<1> DEFINE r == tree.records
<1>1. r \in Seq(Key) /\ at \in 0 .. Len(r)
  BY TreeFacts DEF ReadyAt
<1>2. PICK f \in 0 .. at : /\ \A i \in 1 .. f : BelowWant(r[i])
                           /\ \A i \in f + 1 .. at : Goes(r[i])
                           /\ d = SubSeq(r, f + 1, at)
  BY DEF ReadyAt
<1> HIDE DEF r
<1>3. Append(SubSeq(r, f + 1, at), r[at + 1]) = SubSeq(r, f + 1, at + 1)
  BY <1>1, <1>2, StretchMore DEF r
<1>4. \A i \in f + 1 .. at + 1 : Goes(r[i])
  BY <1>1, <1>2 DEF r
<1>5. at + 1 \in 0 .. Len(r) /\ f \in 0 .. at + 1
  BY <1>1, <1>2 DEF r
<1>6. Append(d, r[at + 1]) = SubSeq(r, f + 1, at + 1)
  BY <1>2, <1>3, Zenon DEF r
<1>7. at + 1 \in 0 .. Len(tree.records) /\ f \in 0 .. at + 1
  BY <1>5 DEF r
<1> QED
  BY <1>2, <1>4, <1>6, <1>7 DEF ReadyAt, r

\* The asked records among those done with are the delivered ones.
LEMMA AskedSoFar ==
    ASSUME TypeInv, NEW at \in 0 .. Len(tree.records), NEW f \in 0 .. at,
           \A i \in 1 .. f : BelowWant(tree.records[i]),
           \A i \in f + 1 .. at : Goes(tree.records[i])
    PROVE  /\ Asked(tree.records) \subseteq f + 1 .. Len(tree.records)
           /\ f + 1 .. at \subseteq Asked(tree.records)
           /\ at < Len(tree.records) /\ Takes(tree.records[at + 1])
                => at + 1 \in Asked(tree.records)
<1> DEFINE r == tree.records
<1>1. r \in Seq(Key) /\ DOMAIN r = 1 .. Len(r) /\ Len(r) \in Nat
  BY TreeFacts
<1>2. \A i \in 1 .. f : ~ Takes(r[i])
  <2> TAKE i \in 1 .. f
  <2>1. BelowWant(r[i]) /\ want \in Nat
    BY ScanAssumption DEF TypeInv, TypeOK
  <2>2. i \in 1 .. Len(r)
    BY <1>1
  <2>3. r[i] \in Key
    BY <1>1, <2>2, Element
  <2> QED
    BY <2>1, <2>3, ScanAssumption DEF BelowWant, Takes, Key
<1>3. \A k : Goes(k) => Takes(k)
  BY DEF Goes, Takes
<1>4. \A j \in 1 .. at : Takes(r[j]) => Goes(r[j])
  BY <1>2
<1> HIDE DEF r
<1>5. Asked(r) \subseteq f + 1 .. Len(r)
  BY <1>1, <1>2 DEF Asked
<1>6. f + 1 .. at \subseteq Asked(r)
  BY <1>1, <1>3, <1>4 DEF Asked, r
<1>7. at < Len(r) /\ Takes(r[at + 1]) => at + 1 \in Asked(r)
  BY <1>1, <1>4 DEF Asked, r
<1> QED
  BY <1>5, <1>6, <1>7 DEF r

\* Nothing is asked for behind the position: all is delivered.
LEMMA AllDelivered ==
    ASSUME TypeInv, NEW at, NEW d, ReadyAt(at, d),
           \A i \in at + 1 .. Len(tree.records) : ~ Takes(tree.records[i])
    PROVE  Wanted(tree.records) = d
<1> DEFINE r == tree.records
           A == Asked(r)
<1>1. r \in Seq(Key) /\ at \in 0 .. Len(r) /\ Len(r) \in Nat
  BY TreeFacts DEF ReadyAt
<1>2. PICK f \in 0 .. at : /\ \A i \in 1 .. f : BelowWant(r[i])
                           /\ \A i \in f + 1 .. at : Goes(r[i])
                           /\ d = SubSeq(r, f + 1, at)
  BY DEF ReadyAt
<1>3. A = f + 1 .. at
  <2>1. A \subseteq f + 1 .. Len(r) /\ f + 1 .. at \subseteq A
    BY <1>1, <1>2, AskedSoFar
  <2>2. \A i \in A : Takes(r[i])
    BY DEF Asked
  <2>3. \A i \in at + 1 .. Len(r) : i \notin A
    BY <2>2
  <2> HIDE DEF A, r
  <2>4. ASSUME NEW i \in A PROVE i \in f + 1 .. at
    BY <1>1, <2>1, <2>3
  <2> QED
    BY <2>1, <2>4
<1> HIDE DEF A, r
<1>4. CASE f = at
  <2>1. A = {}
    BY <1>1, <1>3, <1>4
  <2>2. d = <<>>
    <3>1. f + 1 \in Int /\ at \in Int /\ at < f + 1
      BY <1>1, <1>4
    <3> QED
      BY <1>2, <3>1, SubSeqEmpty, Zenon DEF r
  <2> QED
    BY <2>1, <2>2 DEF Wanted, A, r
<1>5. CASE f < at
  <2>1. f + 1 \in A /\ at \in A /\ \A y \in A : f + 1 <= y /\ y <= at /\ y \in Nat
    BY <1>1, <1>2, <1>3, <1>5
  <2>2. Min(A) = f + 1
    <3>1. A \in SUBSET Int
      BY <2>1
    <3> QED
      BY <2>1, <3>1, MinIs
  <2>3. Max(A) = at
    <3>1. A \in SUBSET Int
      BY <2>1
    <3> QED
      BY <2>1, <3>1, MaxIs
  <2>4. A # {}
    BY <2>1
  <2> QED
    BY <1>2, <2>2, <2>3, <2>4, Zenon DEF Wanted, A, r
<1> QED
  BY <1>1, <1>2, <1>4, <1>5

\* The next record is taken: it is the next one expected, and if the caller
\* stops there, the last.
LEMMA NextExpected ==
    ASSUME TypeInv, NEW at, NEW d, ReadyAt(at, d), at < Len(tree.records),
           Takes(tree.records[at + 1])
    PROVE  LET r == tree.records
               e == Wanted(r)
           IN  /\ e \in Seq(Key) /\ d \in Seq(Key)
               /\ Len(d) < Len(e) /\ e[Len(d) + 1] = r[at + 1]
               /\ ~ Goes(r[at + 1]) => Append(d, r[at + 1]) = e
<1> DEFINE r == tree.records
           A == Asked(r)
           e == Wanted(r)
<1>1. r \in Seq(Key) /\ at \in 0 .. Len(r) /\ Len(r) \in Nat
  BY TreeFacts DEF ReadyAt
<1>2. PICK f \in 0 .. at : /\ \A i \in 1 .. f : BelowWant(r[i])
                           /\ \A i \in f + 1 .. at : Goes(r[i])
                           /\ d = SubSeq(r, f + 1, at)
  BY DEF ReadyAt
<1>3. A \subseteq f + 1 .. Len(r) /\ f + 1 .. at \subseteq A /\ at + 1 \in A
  BY <1>1, <1>2, AskedSoFar
<1>4. ~ Goes(r[at + 1]) => \A i \in A : i <= at + 1
  BY <1>1 DEF Asked
<1> HIDE DEF A, r
<1>5. Max(A) \in A /\ \A n \in A : n <= Max(A)
  <2>1. A \in SUBSET Nat /\ A # {} /\ \A n \in A : n <= Len(r)
    BY <1>1, <1>2, <1>3
  <2> QED
    BY <1>1, <2>1, GreatestNumber
<1>6. Min(A) = f + 1
  <2>1. f + 1 \in A
    BY <1>1, <1>2, <1>3
  <2>2. \A y \in A : f + 1 <= y /\ y \in Nat
    BY <1>1, <1>2, <1>3
  <2>3. A \in SUBSET Int
    BY <2>2
  <2> QED
    BY <2>1, <2>2, <2>3, MinIs
<1> DEFINE m == Max(A)
<1>7. m \in at + 1 .. Len(r) /\ (~ Goes(r[at + 1]) => m = at + 1)
  <2>1. m \in f + 1 .. Len(r) /\ at + 1 <= m
    BY <1>3, <1>5
  <2>2. ~ Goes(r[at + 1]) => m <= at + 1
    BY <1>4, <1>5
  <2> HIDE DEF m
  <2> QED
    BY <1>1, <1>2, <2>1, <2>2
<1>8. e = SubSeq(r, f + 1, m)
  BY <1>3, <1>6 DEF Wanted, A, r
<1> HIDE DEF m, e
<1>9. /\ e \in Seq(Key) /\ Len(e) = m - f /\ e[at - f + 1] = r[at + 1]
  <2>1. f \in Nat /\ m \in Nat /\ f <= m /\ m <= Len(r)
    BY <1>1, <1>2, <1>7
  <2>2. /\ e \in Seq(Key) /\ Len(e) = m - f /\ \A i \in 1 .. m - f : e[i] = r[f + i]
    BY <1>1, <1>8, <2>1, Stretch
  <2>3. at - f + 1 \in 1 .. m - f /\ f + (at - f + 1) = at + 1
    BY <1>1, <1>2, <1>7, <2>1
  <2> QED
    BY <2>2, <2>3
<1>10. d \in Seq(Key) /\ Len(d) = at - f
  <2>1. f \in Nat /\ at \in Nat /\ f <= at /\ at <= Len(r)
    BY <1>1, <1>2
  <2>2. d = SubSeq(r, f + 1, at)
    BY <1>2, Zenon DEF r
  <2>3. SubSeq(r, f + 1, at) \in Seq(Key) /\ Len(SubSeq(r, f + 1, at)) = at - f
    BY <1>1, <2>1, Stretch
  <2> QED
    BY <2>2, <2>3, Zenon
<1>11. ASSUME m = at + 1 PROVE Append(d, r[at + 1]) = e
  <2>1. f \in Nat /\ at \in Nat /\ f <= at /\ at < Len(r)
    BY <1>1, <1>2, <1>7
  <2>2. d = SubSeq(r, f + 1, at)
    BY <1>2, Zenon DEF r
  <2>3. Append(SubSeq(r, f + 1, at), r[at + 1]) = SubSeq(r, f + 1, at + 1)
    BY <1>1, <2>1, StretchMore
  <2> QED
    BY <1>8, <1>11, <2>2, <2>3, Zenon
<1>12. Len(d) < Len(e) /\ e[Len(d) + 1] = r[at + 1]
  BY <1>1, <1>2, <1>7, <1>9, <1>10
<1> QED
  BY <1>7, <1>9, <1>10, <1>11, <1>12 DEF e, r
----------------------------------------------------------------------------
\* Where the key at index k of node b stands: behind that many records.
KeyPos(b, k) ==
    IF tree.node[b].leaf THEN tree.span[b].first + k - 1
    ELSE tree.span[tree.node[b].refs[k]].first

LEMMA SpanType ==
    ASSUME TypeInv, NEW b \in DOMAIN tree.node
    PROVE  /\ tree.span[b].first \in Nat /\ tree.span[b].past \in Nat
           /\ tree.node[b].keys \in Seq(Key) /\ Len(tree.node[b].keys) \in Nat
           /\ tree.records \in Seq(Key) /\ Len(tree.records) \in Nat
BY TreeFacts DEF Span, NodeType

\* An inner node: its children, from left to right.
LEMMA Children ==
    ASSUME TypeInv, WellFormed(tree), NEW b \in DOMAIN tree.node, ~ tree.node[b].leaf
    PROVE  LET n == tree.node[b]
               Below(k) == tree.span[n.refs[k]]
           IN  /\ Len(n.keys) >= 1
               /\ \A k \in 1 .. Len(n.keys) :
                     /\ n.refs[k] \in DOMAIN tree.node
                     /\ Below(k).first \in Nat /\ Below(k).past \in Nat
                     /\ Below(k).first < Below(k).past /\ Below(k).past <= Len(tree.records)
                     /\ n.keys[k] = tree.records[Below(k).first + 1]
                     /\ k < Len(n.keys) => Below(k).past = Below(k + 1).first
               /\ Below(1).first = tree.span[b].first
               /\ Below(Len(n.keys)).past = tree.span[b].past
<1> DEFINE n == tree.node[b]
           Below(k) == tree.span[n.refs[k]]
<1>1. Divides(tree, b)
  BY DEF WellFormed
<1>2. /\ n.keys \in Seq(Key) /\ Len(n.keys) \in Nat /\ DOMAIN n.keys = 1 .. Len(n.keys)
      /\ tree.records \in Seq(Key)
  BY SpanType
<1>3. n.keys # <<>> => Len(n.keys) >= 1
  BY <1>2, EmptySeq
<1>4. /\ Len(n.keys) >= 1
      /\ \A k \in 1 .. Len(n.keys) :
           /\ n.refs[k] \in DOMAIN tree.node
           /\ Below(k).first < Below(k).past /\ Below(k).past <= Len(tree.records)
           /\ n.keys[k] = tree.records[Below(k).first + 1]
      /\ Below(1).first = tree.span[b].first
      /\ Below(Len(n.keys)).past = tree.span[b].past
      /\ \A k \in 1 .. Len(n.keys) - 1 : Below(k).past = Below(k + 1).first
  BY <1>1, <1>2, <1>3, Zenon DEF Divides
<1>5. \A k \in 1 .. Len(n.keys) : Below(k).first \in Nat /\ Below(k).past \in Nat
  BY <1>4, SpanType
<1>6. \A k \in 1 .. Len(n.keys) : k < Len(n.keys) => k \in 1 .. Len(n.keys) - 1
  BY <1>2
<1> QED
  BY <1>4, <1>5, <1>6, Zenon

LEMMA ChildrenAscend ==
    ASSUME TypeInv, WellFormed(tree), NEW b \in DOMAIN tree.node, ~ tree.node[b].leaf,
           NEW i \in 1 .. Len(tree.node[b].keys), NEW j \in 1 .. Len(tree.node[b].keys), i <= j
    PROVE  tree.span[tree.node[b].refs[i]].first <= tree.span[tree.node[b].refs[j]].first
<1> DEFINE m == Len(tree.node[b].keys)
           First(k) == tree.span[tree.node[b].refs[k]].first
           Past(k) == tree.span[tree.node[b].refs[k]].past
           Bad == {k \in 1 .. m : i <= k /\ ~ First(i) <= First(k)}
<1>1. m \in Nat /\ i \in 1 .. m /\ j \in 1 .. m /\ i <= j
  BY SpanType
<1>2. \A k \in 1 .. m : /\ First(k) \in Nat /\ Past(k) \in Nat /\ First(k) < Past(k)
                        /\ k < m => Past(k) = First(k + 1)
  BY Children
<1>3. Bad \in SUBSET Nat
  BY <1>1
<1> SUFFICES ASSUME Bad # {} PROVE FALSE
  BY <1>1
<1>4. PICK k \in Bad : \A l \in Bad : k <= l
  BY <1>3, LeastNumber
<1>5. k \in 1 .. m /\ i <= k /\ ~ First(i) <= First(k)
  BY <1>4
<1> HIDE DEF Bad, First, Past, m
<1>6. i # k
  BY <1>1, <1>2, <1>5
<1>7. k - 1 \in 1 .. m /\ i <= k - 1 /\ k - 1 < m /\ k - 1 + 1 = k
  BY <1>1, <1>5, <1>6
<1>8. First(i) <= First(k - 1)
  <2>1. k - 1 \notin Bad
    BY <1>1, <1>4, <1>5
  <2> QED
    BY <1>7, <2>1 DEF Bad
<1>9. First(k - 1) < Past(k - 1) /\ Past(k - 1) = First(k)
  BY <1>2, <1>7
<1> QED
  BY <1>1, <1>2, <1>5, <1>7, <1>8, <1>9

\* The keys of a node are records of its span, in order.
LEMMA NodeFacts ==
    ASSUME TypeInv, WellFormed(tree), NEW b \in DOMAIN tree.node
    PROVE  LET keys == tree.node[b].keys IN
           /\ tree.span[b].first \in 0 .. Len(tree.records)
           /\ tree.span[b].past \in 0 .. Len(tree.records)
           /\ \A k \in 1 .. Len(keys) :
                 KeyPos(b, k) \in 0 .. Len(tree.records) - 1 /\ keys[k] = tree.records[KeyPos(b, k) + 1]
           /\ \A i, j \in 1 .. Len(keys) : i <= j => KeyPos(b, i) <= KeyPos(b, j)
           /\ Len(keys) > 0 => KeyPos(b, 1) = tree.span[b].first
           /\ tree.node[b].leaf => tree.span[b].first + Len(keys) = tree.span[b].past
           /\ ~ tree.node[b].leaf => Len(keys) > 0
<1> DEFINE keys == tree.node[b].keys
           r == tree.records
           f == tree.span[b].first
           p == tree.span[b].past
<1>1. f \in Nat /\ p \in Nat /\ keys \in Seq(Key) /\ Len(keys) \in Nat /\ r \in Seq(Key) /\ Len(r) \in Nat
  BY SpanType
<1>2. CASE tree.node[b].leaf
  <2>1. p <= Len(r) /\ keys = SubSeq(r, f + 1, p) /\ f <= p
    BY <1>2 DEF WellFormed
  <2>2. Len(keys) = p - f /\ \A k \in 1 .. p - f : keys[k] = r[f + k]
    <3>1. /\ Len(SubSeq(r, f + 1, p)) = p - f
          /\ \A k \in 1 .. p - f : SubSeq(r, f + 1, p)[k] = r[f + k]
      <4>1. r \in Seq(Key) /\ f \in Nat /\ p \in Nat /\ f <= p /\ p <= Len(r)
        BY <1>1, <2>1
      <4> HIDE DEF r, f, p
      <4> QED
        BY <4>1, Stretch
    <3> QED
      BY <2>1, <3>1, Zenon
  <2>a. p <= Len(r) /\ f <= p
    BY <2>1
  <2>3. \A k : KeyPos(b, k) = f + k - 1
    BY <1>2 DEF KeyPos
  <2> HIDE DEF keys, r, f, p
  <2>4. \A k \in 1 .. Len(keys) : KeyPos(b, k) \in 0 .. Len(r) - 1 /\ KeyPos(b, k) + 1 = f + k
    BY <1>1, <2>1, <2>2, <2>3
  <2>5. \A i, j \in 1 .. Len(keys) : i <= j => KeyPos(b, i) <= KeyPos(b, j)
    BY <1>1, <2>3
  <2>6. f \in 0 .. Len(r) /\ p \in 0 .. Len(r) /\ f + Len(keys) = p
    BY <1>1, <2>a, <2>2
  <2>7. KeyPos(b, 1) = f
    BY <1>1, <2>3
  <2>8. \A k \in 1 .. Len(keys) : keys[k] = r[KeyPos(b, k) + 1]
    BY <2>2, <2>4
  <2> QED
    BY <1>2, <2>4, <2>5, <2>6, <2>7, <2>8, Zenon DEF keys, r, f, p
<1>3. CASE ~ tree.node[b].leaf
  <2> DEFINE Below(k) == tree.span[tree.node[b].refs[k]]
  <2>1. /\ Len(keys) >= 1
        /\ \A k \in 1 .. Len(keys) :
              /\ Below(k).first \in Nat /\ Below(k).past \in Nat
              /\ Below(k).first < Below(k).past /\ Below(k).past <= Len(r)
              /\ keys[k] = r[Below(k).first + 1]
        /\ Below(1).first = f
        /\ Below(Len(keys)).past = p
    BY <1>3, Children, Zenon
  <2>2. \A k : KeyPos(b, k) = Below(k).first
    BY <1>3 DEF KeyPos
  <2>3. \A i, j \in 1 .. Len(keys) : i <= j => Below(i).first <= Below(j).first
    BY <1>3, ChildrenAscend
  <2> HIDE DEF keys, r, f, p, Below
  <2>4. \A k \in 1 .. Len(keys) : KeyPos(b, k) \in 0 .. Len(r) - 1 /\ keys[k] = r[KeyPos(b, k) + 1]
    BY <1>1, <2>1, <2>2
  <2>5. 1 \in 1 .. Len(keys) /\ Len(keys) \in 1 .. Len(keys)
    BY <1>1, <2>1
  <2>6. f \in 0 .. Len(r) /\ p \in 0 .. Len(r)
    BY <1>1, <2>1, <2>5
  <2>7. Len(keys) > 0
    BY <1>1, <2>1
  <2> QED
    BY <1>3, <2>1, <2>2, <2>3, <2>4, <2>6, <2>7, Zenon DEF keys, r, f, p
<1> QED
  BY <1>2, <1>3, Zenon
LEMMA KeysAscend ==
    ASSUME TypeInv, WellFormed(tree), NEW b \in DOMAIN tree.node,
           NEW i \in 1 .. Len(tree.node[b].keys), NEW j \in 1 .. Len(tree.node[b].keys), i <= j
    PROVE  /\ tree.node[b].keys[i].prefix \in Nat /\ tree.node[b].keys[j].prefix \in Nat /\ want \in Nat
           /\ tree.node[b].keys[i].prefix <= tree.node[b].keys[j].prefix
<1> DEFINE x == KeyPos(b, i) + 1
           y == KeyPos(b, j) + 1
<1>1. /\ KeyPos(b, i) \in 0 .. Len(tree.records) - 1 /\ KeyPos(b, j) \in 0 .. Len(tree.records) - 1
      /\ KeyPos(b, i) <= KeyPos(b, j)
      /\ tree.node[b].keys[i] = tree.records[x] /\ tree.node[b].keys[j] = tree.records[y]
  BY NodeFacts
<1>2. x \in DOMAIN tree.records /\ y \in DOMAIN tree.records /\ x <= y
  BY <1>1, SpanType
<1> QED
  BY <1>1, <1>2, RecordsAscend

\* Where a frame stands, in terms of its keys.
LEMMA PosFacts ==
    ASSUME TypeInv, WellFormed(tree), NEW b \in DOMAIN tree.node, NEW k \in 0 .. Len(tree.node[b].keys)
    PROVE  /\ k < Len(tree.node[b].keys) => PosOf([node |-> b, next |-> k]) = KeyPos(b, k + 1)
           /\ k = Len(tree.node[b].keys) => PosOf([node |-> b, next |-> k]) = tree.span[b].past
           /\ k = 0 => PosOf([node |-> b, next |-> k]) = tree.span[b].first
<1>1. tree.span[b].first \in Nat /\ Len(tree.node[b].keys) \in Nat
  BY SpanType
<1>2. k < Len(tree.node[b].keys) => PosOf([node |-> b, next |-> k]) = KeyPos(b, k + 1)
  BY <1>1 DEF PosOf, KeyPos
<1>3. k = Len(tree.node[b].keys) => PosOf([node |-> b, next |-> k]) = tree.span[b].past
  BY <1>1, NodeFacts DEF PosOf
<1>4. k = 0 => PosOf([node |-> b, next |-> k]) = tree.span[b].first
  <2>1. CASE tree.node[b].leaf
    BY <1>1, <2>1 DEF PosOf
  <2>2. CASE ~ tree.node[b].leaf
    <3>1. Len(tree.node[b].keys) > 0 /\ KeyPos(b, 1) = tree.span[b].first
      BY <2>2, NodeFacts
    <3> QED
      BY <1>1, <1>2, <3>1
  <2> QED
    BY <2>1, <2>2
<1> QED
  BY <1>2, <1>3, <1>4

----------------------------------------------------------------------------
LEMMA ScanInit == Init /\ TypeInv => ScanInv
<1> SUFFICES ASSUME Init, TypeInv, WellFormed(tree)
             PROVE  Path /\ BoundBetween /\ LeafRest /\ InnerTop /\ Progress
  BY DEF ScanInv
<1>1. Len(stack) = 1 /\ stack[1].node = tree.root /\ Top = stack[1]
  BY DEF Init, Frame, Top, Last
<1>2. Path
  BY <1>1 DEF Path
<1>3. At = 0
  BY <1>1 DEF Init, At, WellFormed
<1>4. ReadyAt(0, <<>>)
  <2>1. tree.records \in Seq(Key) /\ Len(tree.records) \in Nat
    BY TreeFacts
  <2>2. SubSeq(tree.records, 1, 0) = <<>>
    BY SubSeqEmpty
  <2>3. 0 \in 0 .. Len(tree.records) /\ 0 \in 0 .. 0 /\ 1 .. 0 = {} /\ 0 + 1 = 1
    BY <2>1
  <2> QED
    BY <2>2, <2>3 DEF ReadyAt
<1> QED
  BY <1>2, <1>3, <1>4 DEF Init, BoundBetween, LeafRest, InnerTop, Progress

\* A step that keeps the tree, the frames' nodes and those below the top.
LEMMA PathKept ==
    ASSUME TypeInv, Path, UNCHANGED tree, stack' \in Seq(Frames), Len(stack') = Len(stack),
           \A i \in DOMAIN stack : i # Len(stack) => stack'[i] = stack[i],
           stack'[Len(stack)].node = Top.node
    PROVE  Path'
<1>1. Len(stack) \in Nat \ {0} /\ stack \in Seq(Frames) /\ Top = stack[Len(stack)]
  BY TopFacts
<1>2. \A i \in 1 .. Len(stack) : stack'[i].node = stack[i].node
  BY <1>1
<1>3. \A i \in 1 .. Len(stack) - 1 : i \in 1 .. Len(stack) /\ i + 1 \in 1 .. Len(stack) /\ stack'[i] = stack[i]
  BY <1>1
<1>4. stack'[1].node = tree.root
  BY <1>1, <1>2 DEF Path
<1>5. \A i \in 1 .. Len(stack) - 1 :
         /\ ~ tree.node[stack'[i].node].leaf /\ stack'[i].next >= 1
         /\ tree.node[stack'[i].node].refs[stack'[i].next] = stack'[i + 1].node
  BY <1>2, <1>3 DEF Path
<1> QED
  BY <1>4, <1>5 DEF Path

LEMMA EnterKeeps ==
    ASSUME TypeInv, ScanInv, WellFormed(tree), Enter
    PROVE  Path' /\ BoundBetween' /\ LeafRest' /\ InnerTop' /\ Progress'
<1>1. /\ tree' = tree /\ want' = want /\ walk' = walk /\ accept' = accept /\ stack' = stack
      /\ delivered' = delivered /\ pc = "enter" /\ pc' = "search"
  BY DEF Enter, inputs
<1>2. Top' = Top /\ Node' = Node /\ NKeys' = NKeys /\ NKeys \in Nat
  BY <1>1, TopFacts DEF Top, Node, NKeys
<1>3. Path' /\ ReadyAt(At, delivered)
  BY <1>1 DEF ScanInv, Path, Progress
<1>4. At' = At
  BY <1>1, <1>2 DEF At
<1>5. ReadyAt(At, delivered)' = ReadyAt(At, delivered)
  BY <1>1, <1>4 DEF ReadyAt, BelowWant, Goes
<1>6. BoundBetween'
  <2>1. \A k : walk => ~ BelowWant(k)
    BY DEF BelowWant
  <2> QED
    BY <1>1, <1>2, <2>1 DEF BoundBetween, BelowWant, Enter
<1> QED
  BY <1>1, <1>3, <1>5, <1>6 DEF LeafRest, InnerTop, Progress

LEMMA SearchKeeps ==
    ASSUME TypeInv, ScanInv, WellFormed(tree), Search
    PROVE  Path' /\ BoundBetween' /\ LeafRest' /\ InnerTop' /\ Progress'
<1>1. /\ tree' = tree /\ want' = want /\ walk' = walk /\ accept' = accept /\ stack' = stack
      /\ delivered' = delivered /\ pc = "search" /\ pc' = pc
  BY DEF Search, inputs
<1>2. /\ Top' = Top /\ Node' = Node /\ NKeys' = NKeys /\ NKeys \in Nat
      /\ Top.node \in DOMAIN tree.node /\ Node = tree.node[Top.node]
  BY <1>1, TopFacts DEF Top, Node, NKeys
<1>3. Path' /\ ReadyAt(At, delivered)
  BY <1>1 DEF ScanInv, Path, Progress
<1>4. At' = At
  BY <1>1, <1>2 DEF At
<1>5. ReadyAt(At, delivered)' = ReadyAt(At, delivered)
  BY <1>1, <1>4 DEF ReadyAt, BelowWant, Goes
<1>6. BoundBetween'
  <2>1. lo \in Nat /\ hi \in Nat /\ lo < hi /\ hi <= NKeys
    BY <1>1 DEF TypeInv, TypeOK, BoundsIn, Search
  <2>2. Mid \in Nat /\ lo <= Mid /\ Mid < hi
    BY <2>1, SMT DEF Mid
  <2>3. /\ \A k \in 1 .. lo : BelowWant(Node.keys[k])
        /\ \A k \in hi + 1 .. NKeys : ~ BelowWant(Node.keys[k])
        /\ walk => hi = 0
    BY <1>1 DEF ScanInv, BoundBetween
  <2>4. ~ walk
    BY <2>1, <2>3
  <2>5. \A i, j \in 1 .. NKeys : i <= j =>
           /\ Node.keys[i].prefix \in Nat /\ Node.keys[j].prefix \in Nat /\ want \in Nat
           /\ Node.keys[i].prefix <= Node.keys[j].prefix
    BY <1>2, KeysAscend DEF NKeys
  <2>6. Mid + 1 \in 1 .. NKeys
    BY <1>2, <2>1, <2>2
  <2>7. CASE KeyAt(Mid).prefix < want
    <3>1. lo' = Mid + 1 /\ hi' = hi
      BY <2>7 DEF Search
    <3>2. \A k \in 1 .. Mid + 1 : Node.keys[k].prefix < want
      <4> TAKE k \in 1 .. Mid + 1
      <4>1. k \in 1 .. NKeys /\ k <= Mid + 1
        BY <2>2, <2>6, <1>2
      <4> QED
        BY <2>5, <2>6, <2>7, <4>1 DEF KeyAt
    <3> QED
      BY <1>1, <1>2, <2>3, <2>4, <3>1, <3>2 DEF BoundBetween, BelowWant
  <2>8. CASE ~ KeyAt(Mid).prefix < want
    <3>1. hi' = Mid /\ lo' = lo
      BY <2>8 DEF Search
    <3>2. \A k \in Mid + 1 .. NKeys : ~ Node.keys[k].prefix < want
      <4> TAKE k \in Mid + 1 .. NKeys
      <4>1. k \in 1 .. NKeys /\ Mid + 1 <= k
        BY <2>2, <2>6, <1>2
      <4> QED
        BY <2>5, <2>6, <2>8, <4>1 DEF KeyAt
    <3> QED
      BY <1>1, <1>2, <2>3, <2>4, <3>1, <3>2 DEF BoundBetween, BelowWant
  <2> QED
    BY <2>7, <2>8
<1> QED
  BY <1>1, <1>3, <1>5, <1>6 DEF LeafRest, InnerTop, Progress
LEMMA StartKeeps ==
    ASSUME TypeInv, ScanInv, WellFormed(tree), StartNode
    PROVE  Path' /\ BoundBetween' /\ LeafRest' /\ InnerTop' /\ Progress'
<1> DEFINE b == Top.node
           r == tree.records
           f == tree.span[b].first
<1>1. /\ tree' = tree /\ want' = want /\ walk' = walk /\ accept' = accept /\ lo' = lo /\ hi' = hi
      /\ delivered' = delivered /\ pc = "search" /\ lo = hi /\ UNCHANGED tree
  BY DEF StartNode, inputs
<1>2. /\ b \in DOMAIN tree.node /\ Node = tree.node[b] /\ NKeys = Len(tree.node[b].keys) /\ NKeys \in Nat
      /\ f \in Nat /\ Len(r) \in Nat /\ DOMAIN r = 1 .. Len(r)
  BY TopFacts, SpanType DEF NKeys
<1>3. lo \in 0 .. NKeys /\ \A k \in 1 .. lo : BelowWant(tree.node[b].keys[k])
  BY <1>1, <1>2 DEF TypeInv, TypeOK, BoundsIn, ScanInv, BoundBetween
<1>4. \A k \in lo + 1 .. NKeys : ~ BelowWant(Node.keys[k])
  BY <1>1 DEF ScanInv, BoundBetween
<1>5. ReadyAt(f, delivered) /\ Path
  BY <1>1 DEF ScanInv, Progress, At
<1>6. PICK n \in 0 .. NKeys :
         /\ SetNext(n) /\ n = (IF Node.leaf THEN lo ELSE FirstChild(lo))
         /\ pc' = (IF Node.leaf THEN "leaf" ELSE "inner")
  <2> DEFINE n == IF Node.leaf THEN lo ELSE FirstChild(lo)
  <2>1. n \in 0 .. NKeys
    BY <1>2, <1>3 DEF FirstChild
  <2>2. SetNext(n) /\ pc' = (IF Node.leaf THEN "leaf" ELSE "inner")
    BY DEF StartNode
  <2> QED
    BY <2>1, <2>2
<1>7. /\ stack' \in Seq(Frames) /\ Len(stack') = Len(stack)
      /\ \A i \in DOMAIN stack : i # Len(stack) => stack'[i] = stack[i]
      /\ stack'[Len(stack)] = [node |-> b, next |-> n] /\ Top' = [node |-> b, next |-> n]
      /\ Node' = Node /\ NKeys' = NKeys
  BY <1>1, <1>6, SetNextFacts
<1>8. Path'
  BY <1>1, <1>5, <1>7, PathKept
<1>9. LeafRest'
  BY <1>1, <1>4, <1>6, <1>7 DEF LeafRest, BelowWant
<1>10. At' = PosOf([node |-> b, next |-> n])
  BY <1>1, <1>6, <1>7 DEF At, PosOf
<1>11. ReadyAt(At', delivered)
  <2>1. CASE n = 0
    <3>1. At' = f
      BY <1>2, <1>6, <1>10, <2>1, PosFacts
    <3> QED
      BY <1>5, <3>1
  <2>2. CASE n # 0
    <3> HIDE DEF b, r, f
    <3>1. n \in 1 .. NKeys /\ lo \in 1 .. NKeys /\ 1 <= lo
      BY <1>2, <1>3, <1>6, <2>2 DEF FirstChild
    <3>2. BelowWant(tree.node[b].keys[lo])
      BY <1>3, <3>1
    <3>3. /\ KeyPos(b, lo) \in 0 .. Len(r) - 1 /\ tree.node[b].keys[lo] = r[KeyPos(b, lo) + 1]
          /\ KeyPos(b, 1) = f /\ KeyPos(b, 1) <= KeyPos(b, lo)
          /\ Node.leaf => f + NKeys = tree.span[b].past
      <4> DEFINE keys == tree.node[b].keys
      <4>1. keys = Node.keys /\ Len(keys) = NKeys /\ tree.node[b] = Node /\ b \in DOMAIN tree.node
        BY <1>2
      <4>2. TypeInv /\ WellFormed(tree)
        BY <1>2
      <4>3. /\ \A k \in 1 .. Len(keys) :
                  KeyPos(b, k) \in 0 .. Len(tree.records) - 1 /\ keys[k] = tree.records[KeyPos(b, k) + 1]
            /\ \A i, j \in 1 .. Len(keys) : i <= j => KeyPos(b, i) <= KeyPos(b, j)
            /\ Len(keys) > 0 => KeyPos(b, 1) = tree.span[b].first
            /\ tree.node[b].leaf => tree.span[b].first + Len(keys) = tree.span[b].past
        BY <4>1, <4>2, NodeFacts, Zenon
      <4> HIDE DEF keys
      <4>4. /\ lo \in 1 .. Len(keys) /\ 1 \in 1 .. Len(keys) /\ 1 <= lo /\ Len(keys) > 0
        BY <3>1, <4>1
      <4>5. /\ KeyPos(b, lo) \in 0 .. Len(tree.records) - 1 /\ keys[lo] = tree.records[KeyPos(b, lo) + 1]
            /\ KeyPos(b, 1) = tree.span[b].first /\ KeyPos(b, 1) <= KeyPos(b, lo)
        BY <4>3, <4>4, Zenon
      <4> QED
        BY <4>1, <4>3, <4>5, Zenon DEF keys, r, f
    <3> DEFINE j == KeyPos(b, lo) + 1
    <3>4. j \in DOMAIN r /\ BelowWant(r[j]) /\ KeyPos(b, lo) \in Nat /\ f <= KeyPos(b, lo)
      BY <1>2, <3>2, <3>3
    <3>5. CASE Node.leaf
      <4>1. KeyPos(b, lo) = f + lo - 1
        BY <1>2, <3>5 DEF KeyPos, f
      <4>2. n = lo
        BY <1>6, <3>5
      <4>3. At' = f + lo
        BY <1>2, <1>10, <4>2, <3>5 DEF PosOf, f
      <4>4. At' = j
        BY <1>2, <3>1, <4>1, <4>3
      <4>5. f <= j /\ j \in Nat /\ j <= j
        BY <1>2, <3>3, <3>4
      <4> HIDE DEF j
      <4> QED
        BY <1>5, <3>4, <4>4, <4>5, Skip DEF r
    <3>6. CASE ~ Node.leaf
      <4>1. n = lo - 1 /\ n < NKeys /\ n + 1 = lo
        BY <1>2, <1>6, <3>1, <3>6 DEF FirstChild
      <4>2. At' = KeyPos(b, lo)
        BY <1>2, <1>6, <1>10, <4>1, PosFacts
      <4>3. KeyPos(b, lo) <= j
        BY <3>4
      <4> HIDE DEF j
      <4> QED
        BY <1>5, <3>4, <4>2, <4>3, Skip DEF r
    <3> QED
      BY <3>5, <3>6
  <2> QED
    BY <2>1, <2>2
<1>12. ReadyAt(At, delivered)' = ReadyAt(At', delivered)
  BY <1>1 DEF ReadyAt, BelowWant, Goes
<1> QED
  BY <1>1, <1>6, <1>7, <1>8, <1>9, <1>11, <1>12 DEF BoundBetween, InnerTop, Progress

\* The position of a leaf is the record it calls back with.
LEMMA LeafTop ==
    ASSUME TypeInv, ScanInv, WellFormed(tree), pc = "leaf", Top.next < NKeys
    PROVE  /\ At = tree.span[Top.node].first + Top.next /\ At \in Nat /\ At < Len(tree.records)
           /\ KeyAt(Top.next) = tree.records[At + 1]
           /\ Node.leaf /\ ReadyAt(At, delivered)
<1> DEFINE b == Top.node
<1>1. /\ b \in DOMAIN tree.node /\ Node = tree.node[b] /\ NKeys = Len(tree.node[b].keys)
      /\ Top.next \in 0 .. NKeys /\ NKeys \in Nat
  BY TopFacts DEF NKeys
<1>2. Node.leaf /\ ReadyAt(At, delivered)
  BY DEF ScanInv, LeafRest, Progress
<1>3. At = tree.span[b].first + Top.next
  BY <1>1, <1>2 DEF At, PosOf
<1>4. Top.next + 1 \in 1 .. NKeys /\ tree.span[b].first \in Nat
  BY <1>1, SpanType
<1>5. /\ KeyPos(b, Top.next + 1) \in 0 .. Len(tree.records) - 1
      /\ Node.keys[Top.next + 1] = tree.records[KeyPos(b, Top.next + 1) + 1]
  BY <1>1, <1>4, NodeFacts
<1>6. KeyPos(b, Top.next + 1) = At
  BY <1>1, <1>2, <1>3, <1>4 DEF KeyPos
<1>7. Len(tree.records) \in Nat
  BY <1>1, SpanType
<1> HIDE DEF b
<1> QED
  BY <1>2, <1>3, <1>5, <1>6, <1>7 DEF KeyAt, b

LEMMA CallBackKeeps ==
    ASSUME TypeInv, ScanInv, WellFormed(tree), CallBack
    PROVE  Path' /\ BoundBetween' /\ LeafRest' /\ InnerTop' /\ Progress'
<1> DEFINE k == KeyAt(Top.next)
           n == Top.next + 1
<1>1. /\ tree' = tree /\ want' = want /\ walk' = walk /\ accept' = accept /\ UNCHANGED tree
      /\ pc = "leaf" /\ Top.next < NKeys /\ SetNext(n)
      /\ delivered' = IF Takes(k) THEN Append(delivered, k) ELSE delivered
      /\ pc' = IF Goes(k) THEN "leaf" ELSE "ok"
  BY DEF CallBack, inputs
<1>2. n \in 1 .. NKeys /\ n \in 0 .. NKeys /\ NKeys \in Nat /\ Top.next \in Nat
  BY <1>1, TopFacts
<1>3. /\ stack' \in Seq(Frames) /\ Len(stack') = Len(stack)
      /\ \A i \in DOMAIN stack : i # Len(stack) => stack'[i] = stack[i]
      /\ stack'[Len(stack)] = [node |-> Top.node, next |-> n] /\ Top' = [node |-> Top.node, next |-> n]
      /\ Node' = Node /\ NKeys' = NKeys
  BY <1>1, <1>2, SetNextFacts
<1>4. /\ At = tree.span[Top.node].first + Top.next /\ At \in Nat /\ At < Len(tree.records)
      /\ k = tree.records[At + 1] /\ Node.leaf /\ ReadyAt(At, delivered)
  BY <1>1, LeafTop
<1>5. Path'
  BY <1>1, <1>3, PathKept DEF ScanInv
<1>6. LeafRest'
  <2>1. \A i \in Top.next + 1 .. NKeys : ~ BelowWant(Node.keys[i])
    BY <1>1 DEF ScanInv, LeafRest
  <2>2. \A i \in n + 1 .. NKeys : i \in Top.next + 1 .. NKeys
    BY <1>2
  <2> QED
    BY <1>1, <1>3, <1>4, <2>1, <2>2 DEF LeafRest, BelowWant
<1>7. Progress'
  <2> SUFFICES ASSUME Goes(k) PROVE ReadyAt(At', delivered')
    BY <1>1 DEF Progress, ReadyAt, BelowWant, Goes
  <2>1. delivered' = Append(delivered, tree.records[At + 1])
    BY <1>1, <1>4 DEF Takes, Goes
  <2>2. At' = PosOf([node |-> Top.node, next |-> n])
    BY <1>1, <1>3 DEF At, PosOf
  <2>3. At' = tree.span[Top.node].first + n /\ tree.span[Top.node].first \in Nat
    BY <1>4, <2>2, TopFacts, SpanType DEF PosOf
  <2>4. At' = At + 1
    <3> SUFFICES ASSUME NEW f \in Nat, NEW t \in Nat, n = t + 1, At' = f + n, At = f + t
                 PROVE  At' = At + 1
      BY <1>2, <1>4, <2>3
    <3> QED
      OBVIOUS
  <2>5. ReadyAt(At + 1, Append(delivered, tree.records[At + 1]))
    BY <1>4, Advance
  <2> QED
    BY <2>1, <2>4, <2>5
<1> QED
  BY <1>1, <1>5, <1>6, <1>7 DEF BoundBetween, InnerTop

LEMMA EndKeeps ==
    ASSUME TypeInv, ScanInv, WellFormed(tree), EndNode
    PROVE  Path' /\ BoundBetween' /\ LeafRest' /\ InnerTop' /\ Progress'
<1>1. /\ tree' = tree /\ want' = want /\ walk' = walk /\ accept' = accept
      /\ delivered' = delivered /\ pc \in {"leaf", "inner"} /\ Top.next >= NKeys
  BY DEF EndNode, inputs
<1>2. Path /\ ReadyAt(At, delivered)
  BY <1>1 DEF ScanInv, Progress
<1>3. CASE Len(stack) = 1
  BY <1>1, <1>2, <1>3 DEF EndNode, Path, BoundBetween, LeafRest, InnerTop, Progress
<1>4. CASE Len(stack) # 1
  <2> DEFINE m == Len(stack) - 1
             p == stack[m]
             b == p.node
             c == Top.node
  <2>1. /\ pc' = "inner" /\ stack' \in Seq(Frames) /\ Len(stack') = m /\ Len(stack) > 1
        /\ \A i \in DOMAIN stack' : i \in DOMAIN stack /\ stack'[i] = stack[i]
    BY <1>4, PopFacts DEF EndNode
  <2>2. /\ Len(stack) \in Nat /\ stack \in Seq(Frames) /\ Top = stack[Len(stack)]
        /\ c \in DOMAIN tree.node /\ Top.next = NKeys /\ NKeys = Len(tree.node[c].keys) /\ Top \in Frames
        /\ NKeys \in 0 .. NKeys
    BY <1>1, TopFacts DEF NKeys
  <2>3. m \in DOMAIN stack' /\ m \in 1 .. Len(stack) - 1 /\ m \in 1 .. Len(stack) /\ m + 1 = Len(stack)
    BY <2>1, <2>2
  <2>4. Top' = p /\ stack'[m] = p
    BY <2>1, <2>3 DEF Top, Last
  <2>5. /\ p \in Frames /\ b \in DOMAIN tree.node /\ p.next \in Nat /\ p = [node |-> b, next |-> p.next]
        /\ p.next <= Len(tree.node[b].keys)
    <3>1. p \in Frames
      BY <2>2, <2>3, Element
    <3> QED
      BY <2>3, <3>1 DEF Frames, TypeInv, IndicesIn
  <2>6. ~ tree.node[b].leaf /\ p.next >= 1 /\ tree.node[b].refs[p.next] = c
    BY <1>2, <2>2, <2>3 DEF Path
  <2>7. Path'
    <3>1. \A i \in 1 .. m : i \in DOMAIN stack'
      BY <2>1
    <3>2. \A i \in 1 .. m - 1 : i \in 1 .. Len(stack) - 1 /\ i \in 1 .. m /\ i + 1 \in 1 .. m
      BY <2>2, <2>3
    <3>3. 1 \in 1 .. m
      BY <2>3
    <3> HIDE DEF m
    <3>4. stack'[1].node = tree'.root
      BY <1>1, <1>2, <2>1, <3>1, <3>3 DEF Path
    <3>5. \A i \in 1 .. m - 1 : stack'[i] = stack[i] /\ stack'[i + 1] = stack[i + 1]
      BY <2>1, <3>1, <3>2
    <3>6. \A i \in 1 .. m - 1 :
             /\ ~ tree.node[stack'[i].node].leaf /\ stack'[i].next >= 1
             /\ tree.node[stack'[i].node].refs[stack'[i].next] = stack'[i + 1].node
      BY <1>2, <3>2, <3>5 DEF Path
    <3> QED
      BY <1>1, <2>1, <3>4, <3>6 DEF Path
  <2>8. At = tree.span[c].past
    <3>1. Top = [node |-> c, next |-> NKeys]
      BY <2>2 DEF Frames
    <3>2. At = PosOf(Top)
      BY <1>1 DEF At
    <3> HIDE DEF c
    <3> QED
      BY <2>2, <3>1, <3>2, PosFacts
  <2>9. PosOf(p) = At
    <3> DEFINE len == Len(tree.node[b].keys)
    <3>1. /\ p.next \in 1 .. len /\ len \in Nat
          /\ p.next < len => tree.span[c].past = tree.span[tree.node[b].refs[p.next + 1]].first
          /\ p.next = len => tree.span[c].past = tree.span[b].past
      <4>1. p.next \in 1 .. len /\ len \in Nat
        BY <2>5, <2>6, SpanType
      <4> HIDE DEF c, p
      <4> QED
        BY <2>5, <2>6, <4>1, Children
    <3>2. PosOf(p) = IF p.next < len THEN tree.span[tree.node[b].refs[p.next + 1]].first
                     ELSE tree.span[b].past
      BY <2>6 DEF PosOf
    <3>3. p.next < len \/ p.next = len
      <4> SUFFICES ASSUME NEW l \in Nat, NEW q \in 1 .. l PROVE q < l \/ q = l
        BY <3>1
      <4> QED
        OBVIOUS
    <3> HIDE DEF len, p, b, c
    <3> QED
      BY <2>8, <3>1, <3>2, <3>3
  <2>10. At' = PosOf(p)
    BY <1>1, <2>1, <2>4 DEF At, PosOf
  <2>11. ReadyAt(At, delivered)' = ReadyAt(At, delivered)
    BY <1>1, <2>9, <2>10 DEF ReadyAt, BelowWant, Goes
  <2>12. InnerTop'
    BY <1>1, <2>4, <2>6 DEF InnerTop, Node
  <2> QED
    BY <1>1, <1>2, <2>1, <2>7, <2>11, <2>12 DEF BoundBetween, LeafRest, Progress
<1> QED
  BY <1>3, <1>4

LEMMA RecurseKeeps ==
    ASSUME TypeInv, ScanInv, WellFormed(tree), Recurse
    PROVE  Path' /\ BoundBetween' /\ LeafRest' /\ InnerTop' /\ Progress'
<1> DEFINE b == Top.node
           c == RefAt(Top.next)
           m == Len(stack)
<1>1. /\ tree' = tree /\ want' = want /\ walk' = walk /\ accept' = accept
      /\ delivered' = delivered /\ pc = "inner" /\ pc' = "enter" /\ Top.next < NKeys
  BY DEF Recurse, inputs
<1>2. Path /\ ReadyAt(At, delivered) /\ ~ Node.leaf
  BY <1>1 DEF ScanInv, Progress, InnerTop
<1>3. /\ stack' \in Seq(Frames) /\ Len(stack') = m + 1
      /\ \A i \in 1 .. m - 1 : stack'[i] = stack[i]
      /\ stack'[m] = [node |-> b, next |-> Top.next + 1]
      /\ stack'[m + 1] = [node |-> c, next |-> 0]
      /\ Top.next + 1 \in 1 .. NKeys /\ c \in DOMAIN tree.node
  BY PushFacts
<1>4. /\ m \in Nat \ {0} /\ Top = stack[m] /\ b \in DOMAIN tree.node /\ Node = tree.node[b]
      /\ Top.next \in Nat
  BY TopFacts
<1>5. c = tree.node[b].refs[Top.next + 1]
  BY <1>4 DEF RefAt
<1>6. At = tree.span[c].first
  <2>1. At = PosOf(Top)
    BY <1>1 DEF At
  <2> QED
    BY <1>1, <1>2, <1>4, <1>5, <2>1 DEF PosOf, NKeys
<1>7. At' = tree.span[c].first
  BY <1>1, <1>3, <1>4 DEF At, Top, Last
<1> HIDE DEF b, c, m
<1>8. \A i \in 1 .. m : stack'[i].node = stack[i].node
  BY <1>3, <1>4 DEF b
<1>9. Path'
  <2>1. stack'[1].node = tree.root
    BY <1>2, <1>4, <1>8 DEF Path, m
  <2>2. ASSUME NEW i \in 1 .. m
        PROVE  /\ ~ tree.node[stack'[i].node].leaf /\ stack'[i].next >= 1
               /\ tree.node[stack'[i].node].refs[stack'[i].next] = stack'[i + 1].node
    <3>1. CASE i = m
      BY <1>2, <1>3, <1>4, <1>5, <3>1
    <3>2. CASE i # m
      <4>1. i \in 1 .. m - 1 /\ i + 1 \in 1 .. m
        BY <1>4, <3>2
      <4> QED
        BY <1>2, <1>3, <1>8, <4>1 DEF Path, m
    <3> QED
      BY <3>1, <3>2
  <2> QED
    BY <1>1, <1>3, <1>4, <2>1, <2>2 DEF Path
<1>10. ReadyAt(At, delivered)' = ReadyAt(At, delivered)
  BY <1>1, <1>6, <1>7 DEF ReadyAt, BelowWant, Goes
<1> QED
  BY <1>1, <1>2, <1>9, <1>10 DEF BoundBetween, LeafRest, InnerTop, Progress

LEMMA InputsStay == [Next]_vars => tree' = tree /\ want' = want /\ accept' = accept /\ walk' = walk
<1>1. CASE UNCHANGED vars
  BY <1>1 DEF vars
<1>2. CASE Next
  <2>1. inputs' = inputs
    BY <1>2 DEF Next, TooDeep, Enter, Search, StartNode, CallBack, EndNode, Recurse, RecordFails
  <2> QED
    BY <2>1 DEF inputs
<1> QED
  BY <1>1, <1>2

LEMMA ScanStep == TypeInv /\ ScanInv /\ [Next]_vars => ScanInv'
<1> SUFFICES ASSUME TypeInv, ScanInv, [Next]_vars, WellFormed(tree)
             PROVE  Path' /\ BoundBetween' /\ LeafRest' /\ InnerTop' /\ Progress'
  BY InputsStay DEF ScanInv
<1>1. ASSUME pc' \in {"ok", "failed"}, tree' = tree, stack' = stack
      PROVE  Path' /\ BoundBetween' /\ LeafRest' /\ InnerTop' /\ Progress'
  BY <1>1 DEF ScanInv, Path, BoundBetween, LeafRest, InnerTop, Progress
<1>2. CASE TooDeep
  BY <1>1, <1>2 DEF TooDeep, inputs
<1>3. CASE RecordFails
  BY <1>1, <1>3 DEF RecordFails, inputs
<1>4. CASE UNCHANGED vars
  <2>1. Path'
    BY <1>4 DEF vars, ScanInv, Path
  <2>2. BoundBetween'
    BY <1>4 DEF vars, ScanInv, BoundBetween, Top, Node, NKeys, BelowWant
  <2>3. LeafRest'
    BY <1>4 DEF vars, ScanInv, LeafRest, Top, Node, NKeys, BelowWant
  <2>4. InnerTop'
    BY <1>4 DEF vars, ScanInv, InnerTop, Top, Node
  <2>5. Progress'
    BY <1>4 DEF vars, ScanInv, Progress, At, PosOf, Top, Node, NKeys, ReadyAt, BelowWant, Goes
  <2> QED
    BY <2>1, <2>2, <2>3, <2>4, <2>5
<1> QED
  BY <1>2, <1>3, <1>4, EnterKeeps, SearchKeeps, StartKeeps, CallBackKeeps, EndKeeps, RecurseKeeps DEF Next
----------------------------------------------------------------------------
\* What the promise sees of a step.
LEMMA WantedType ==
    ASSUME TypeInv
    PROVE  Wanted(tree.records) \in Seq(Key)
<1> DEFINE r == tree.records
           A == Asked(r)
<1>1. r \in Seq(Key) /\ Len(r) \in Nat /\ A \subseteq 1 .. Len(r)
  BY TreeFacts DEF Asked
<1>2. CASE A = {}
  BY <1>2 DEF Wanted
<1>3. CASE A # {}
  <2> HIDE DEF A, r
  <2>1. A \in SUBSET Nat /\ \A n \in A : n <= Len(r)
    BY <1>1
  <2>2. Max(A) \in A
    BY <1>1, <1>3, <2>1, GreatestNumber
  <2>3. Min(A) \in A
    <3>1. PICK m \in A : \A n \in A : m <= n
      BY <1>3, <2>1, LeastNumber
    <3>2. A \in SUBSET Int
      BY <2>1
    <3> QED
      BY <3>1, <3>2, MinIs
  <2> DEFINE a == Min(A)
             b == Max(A)
  <2>4. a \in 1 .. Len(r) /\ b \in 1 .. Len(r)
    BY <1>1, <2>2, <2>3
  <2> HIDE DEF a, b
  <2>5. \A i \in a .. b : i \in 1 .. Len(r)
    BY <1>1, <2>4
  <2>6. \A i \in a .. b : r[i] \in Key
    BY <1>1, <2>5, Element
  <2>7. a \in Int /\ b \in Int
    BY <2>4
  <2>8. SubSeq(r, a, b) \in Seq(Key)
    BY <2>6, <2>7, SubSeqProperties
  <2> QED
    BY <1>3, <2>8, Zenon DEF Wanted, A, r, a, b
<1> QED
  BY <1>2, <1>3

LEMMA ExpectedStays == [Next]_vars => Expected' = Expected
<1> SUFFICES ASSUME [Next]_vars PROVE Expected' = Expected
  OBVIOUS
<1>1. tree' = tree /\ want' = want /\ accept' = accept /\ walk' = walk
  BY InputsStay
<1>2. Asked(tree.records)' = Asked(tree.records)
  BY <1>1 DEF Asked, Takes, Goes
<1>3. Wanted(tree.records)' = Wanted(tree.records)
  BY <1>1, <1>2 DEF Wanted
<1> QED
  BY <1>1, <1>3 DEF Expected

Shown == <<Expected, Given, Status>>

\* A step that hands nothing to the caller and does not return.
LEMMA Silent ==
    ASSUME TypeInv, [Next]_vars, delivered' = delivered, Status' = Status
    PROVE  UNCHANGED Shown
BY InputsStay, ExpectedStays DEF Given, Shown

LEMMA FailStep ==
    ASSUME TypeInv, [Next]_vars, delivered' = delivered, Status = "running", Status' = "failed"
    PROVE  Promise!Next
BY InputsStay, ExpectedStays DEF Given, Promise!Next, Promise!Fail

LEMMA FinishStep ==
    ASSUME TypeInv, [Next]_vars, delivered' = delivered, Status = "running", Status' = "ok",
           WellFormed(tree) => Wanted(tree.records) = delivered
    PROVE  Promise!Next
<1>1. Expected = Given /\ Given' = Given
  BY InputsStay DEF Given, Expected
<1> QED
  BY <1>1, ExpectedStays DEF Promise!Next, Promise!Finish

LEMMA RootDone ==
    ASSUME TypeInv, ScanInv, WellFormed(tree), EndNode, Len(stack) = 1
    PROVE  Wanted(tree.records) = delivered
<1> DEFINE c == Top.node
<1>1. pc \in {"leaf", "inner"} /\ Top.next >= NKeys
  BY DEF EndNode
<1>2. Path /\ ReadyAt(At, delivered)
  BY <1>1 DEF ScanInv, Progress
<1>3. /\ Top = stack[1] /\ c \in DOMAIN tree.node /\ Top.next = NKeys /\ NKeys = Len(tree.node[c].keys)
      /\ NKeys \in 0 .. NKeys /\ Top = [node |-> c, next |-> NKeys]
  BY <1>1, TopFacts DEF NKeys, Frames
<1>4. c = tree.root
  BY <1>2, <1>3 DEF Path
<1>5. At = tree.span[c].past
  <2>1. At = PosOf([node |-> c, next |-> NKeys])
    BY <1>1, <1>3 DEF At
  <2> HIDE DEF c
  <2> QED
    BY <1>3, <2>1, PosFacts
<1>6. At = Len(tree.records)
  BY <1>4, <1>5 DEF WellFormed
<1>7. \A i \in At + 1 .. Len(tree.records) : ~ Takes(tree.records[i])
  BY <1>6, TreeFacts
<1> QED
  BY <1>2, <1>7, AllDelivered

LEMMA EndImplements == TypeInv /\ ScanInv /\ EndNode => [Promise!Next]_Shown
<1> SUFFICES ASSUME TypeInv, ScanInv, EndNode PROVE [Promise!Next]_Shown
  OBVIOUS
<1>1. [Next]_vars /\ delivered' = delivered /\ Status = "running"
  BY DEF Next, EndNode, Status
<1>2. CASE Len(stack) = 1
  <2>1. Status' = "ok"
    BY <1>2 DEF EndNode, Status
  <2> QED
    BY <1>1, <1>2, <2>1, RootDone, FinishStep
<1>3. CASE Len(stack) # 1
  <2>1. Status' = "running"
    BY <1>3 DEF EndNode, Status
  <2> QED
    BY <1>1, <2>1, Silent
<1> QED
  BY <1>2, <1>3

\* The callback refuses a record: there is none left that it would take.
LEMMA Refused ==
    ASSUME TypeInv, ScanInv, WellFormed(tree), CallBack, ~ Takes(KeyAt(Top.next))
    PROVE  Wanted(tree.records) = delivered
<1> DEFINE r == tree.records
<1>1. pc = "leaf" /\ Top.next < NKeys
  BY DEF CallBack
<1>2. At \in Nat /\ At < Len(r) /\ KeyAt(Top.next) = r[At + 1] /\ ReadyAt(At, delivered)
  BY <1>1, LeafTop
<1>3. ~ BelowWant(KeyAt(Top.next))
  <2>1. Top.next + 1 \in Top.next + 1 .. NKeys
    BY <1>1, TopFacts
  <2> QED
    BY <1>1, <2>1 DEF ScanInv, LeafRest, KeyAt
<1>4. Len(r) \in Nat /\ DOMAIN r = 1 .. Len(r)
  BY TreeFacts
<1>5. ASSUME NEW i \in At + 1 .. Len(r) PROVE ~ Takes(r[i])
  <2>1. At + 1 \in DOMAIN r /\ i \in DOMAIN r /\ At + 1 <= i
    BY <1>2, <1>4
  <2>2. /\ r[At + 1].prefix \in Nat /\ r[i].prefix \in Nat /\ want \in Nat
        /\ r[At + 1].prefix <= r[i].prefix
    BY <2>1, RecordsAscend
  <2> HIDE DEF r
  <2> QED
    BY <1>2, <1>3, <2>2 DEF BelowWant, Takes
<1> QED
  BY <1>2, <1>5, AllDelivered

LEMMA CallBackImplements == TypeInv /\ ScanInv /\ CallBack => [Promise!Next]_Shown
<1> SUFFICES ASSUME TypeInv, ScanInv, CallBack PROVE [Promise!Next]_Shown
  OBVIOUS
<1> DEFINE k == KeyAt(Top.next)
           r == tree.records
           e == Wanted(r)
<1>1. /\ [Next]_vars /\ Status = "running" /\ pc = "leaf" /\ Top.next < NKeys
      /\ delivered' = IF Takes(k) THEN Append(delivered, k) ELSE delivered
      /\ Status' = IF Goes(k) THEN "running" ELSE "ok"
  BY DEF Next, CallBack, Status
<1>2. CASE ~ WellFormed(tree)
  <2>1. Expected = <<>> /\ Given = <<>> /\ Given' = <<>> /\ Expected' = Expected
    BY <1>1, <1>2, InputsStay, ExpectedStays DEF Expected, Given
  <2>2. CASE Goes(k)
    BY <1>1, <2>1, <2>2 DEF Shown
  <2>3. CASE ~ Goes(k)
    BY <1>1, <2>1, <2>3 DEF Promise!Next, Promise!Finish
  <2> QED
    BY <2>2, <2>3
<1>3. CASE WellFormed(tree) /\ ~ Takes(k)
  <2>1. delivered' = delivered /\ Status' = "ok"
    BY <1>1, <1>3 DEF Takes, Goes
  <2> QED
    BY <1>1, <1>3, <2>1, Refused, FinishStep
<1>4. CASE WellFormed(tree) /\ Takes(k)
  <2>1. At \in Nat /\ At < Len(r) /\ k = r[At + 1] /\ ReadyAt(At, delivered)
    BY <1>1, <1>4, LeafTop
  <2>2. /\ Len(delivered) < Len(e) /\ e[Len(delivered) + 1] = k
        /\ ~ Goes(k) => Append(delivered, k) = e
    BY <1>4, <2>1, NextExpected
  <2>3. /\ Expected = e /\ Expected' = Expected
        /\ Given = delivered /\ Given' = Append(delivered, k)
    BY <1>1, <1>4, InputsStay, ExpectedStays DEF Expected, Given
  <2> HIDE DEF k, e, r
  <2> QED
    BY <1>1, <2>2, <2>3 DEF Promise!Next, Promise!Deliver
<1> QED
  BY <1>2, <1>3, <1>4

LEMMA StepImplements == TypeInv /\ ScanInv /\ [Next]_vars => [Promise!Next]_Shown
<1> SUFFICES ASSUME TypeInv, ScanInv, [Next]_vars PROVE [Promise!Next]_Shown
  OBVIOUS
<1>1. CASE TooDeep
  BY <1>1, FailStep DEF TooDeep, Status
<1>2. CASE Enter
  BY <1>2, Silent DEF Enter, Status
<1>3. CASE Search
  BY <1>3, Silent DEF Search, Status
<1>4. CASE StartNode
  <2>1. delivered' = delivered /\ Status = "running" /\ Status' = "running"
    BY <1>4 DEF StartNode, Status
  <2> QED
    BY <2>1, Silent
<1>5. CASE Recurse
  BY <1>5, Silent DEF Recurse, Status
<1>6. CASE RecordFails
  BY <1>6, FailStep DEF RecordFails, Status
<1>7. CASE UNCHANGED vars
  BY <1>7, Silent DEF vars, Status
<1> QED
  BY <1>1, <1>2, <1>3, <1>4, <1>5, <1>6, <1>7, EndImplements, CallBackImplements DEF Next

(* On a well-formed tree of any shape the scan delivers exactly the wanted *)
(* records, in order and each once (btree.rs:313-407): it implements       *)
(* OrderedScan.                                                            *)
THEOREM DeliversInOrder == Spec => DeliversWanted
<1>1. Init => Promise!Init
  <2> SUFFICES ASSUME Init PROVE Promise!Init
    OBVIOUS
  <2>1. Expected \in Seq(Key)
    BY TypeInit, WantedType DEF Expected
  <2> QED
    BY <2>1 DEF Init, Promise!Init, Given, Status
<1>2. TypeInv /\ ScanInv /\ [Next]_vars => [Promise!Next]_<<Expected, Given, Status>>
  BY StepImplements DEF Shown
<1> QED
  BY <1>1, <1>2, TypeInit, TypeStep, ScanInit, ScanStep, PTL DEF Spec, DeliversWanted, Promise!Spec
=============================================================================
