--------------------------- MODULE SubTreeProofs ---------------------------
(***************************************************************************)
(* Proofs about SubTree: for all filters, topics and subscribers, whatever *)
(* order they subscribe and unsubscribe in.                                *)
(***************************************************************************)
EXTENDS SubTree, TopicLevelsProofs

\* A node other than the root lies on the way of some filter.
OnTheWay(p) ==
    p # <<>> => \E f \in Filters : \E k \in 1..Depth(f) : p = Path(f, k)

\* The entries of a node, also of one that is not there yet.
Old(p) == IF p \in DOMAIN stree THEN stree[p] ELSE {}

\* The entries of a node once the subscriber is gone from the filter's node.
Left(f, s, p) ==
    IF p = Node(f) THEN stree[p] \ EntriesOf(stree[p], s) ELSE stree[p]

\* sremove deletes the filter's node of level k if it deleted the one after.
Bare(f, s, k) ==
    /\ Left(f, s, Path(f, k)) = {}
    /\ Children(DOMAIN stree, Path(f, k)) \subseteq
           (IF k = Depth(f) THEN {} ELSE {Path(f, k + 1)})

-----------------------------------------------------------------------------
\* The topics and filters are words, as the lemmas of TopicLevelsProofs need.
LEMMA FiltersAreWords ==
    /\ \A f \in Filters : f \in TopicWords
    /\ \A t \in Topics : t \in TopicWords
  BY SubTreeAssumption, StringTopics DEF SubTreeAssumption

\* The shape TypeOK gives the tree.
LEMMA TreeShape ==
    ASSUME TypeOK
    PROVE  /\ DOMAIN stree \subseteq Words
           /\ ParentClosed(DOMAIN stree)
           /\ \A p \in DOMAIN stree : OnTheWay(p)
<1>1. \A p \in DOMAIN stree : OnTheWay(p)
  BY DEF TypeOK, OnTheWay
<1>2. DOMAIN stree \subseteq Words
  <2>0. <<>> \in Words
    BY DEF Words
  <2>1. SUFFICES ASSUME NEW p \in DOMAIN stree, p # <<>>
                 PROVE  p \in Words
    BY <2>0
  <2>2. PICK f \in Filters : \E k \in 1..Depth(f) : p = Path(f, k)
    BY <1>1, <2>1 DEF OnTheWay
  <2>3. PICK k \in 0..Depth(f) : p = Path(f, k)
    BY <2>2, FiltersAreWords, DepthBound
  <2>4. QED
    BY <2>3, FiltersAreWords, PathLevels
<1>3. ParentClosed(DOMAIN stree)
  BY DEF TypeOK, ParentClosed
<1>4. QED
  BY <1>1, <1>2, <1>3

\* The node of a well-formed filter is one an insertion makes.
LEMMA NodeFacts ==
    ASSUME NEW f \in Filters
    PROVE  /\ Node(f) \in Words
           /\ ~ Malformed(f) => Node(f) \in InsertPaths(f)
<1>1. f \in TopicWords
  BY FiltersAreWords
<1>2. Depth(f) \in 0..Depth(f)
  BY <1>1, DepthBound
<1>3. QED
  BY <1>1, <1>2, Insertion, PathLevels DEF Node

\* What sinsert does to the shape of the tree.
LEMMA GrownShape ==
    ASSUME TypeOK, NEW f \in Filters
    PROVE  /\ DOMAIN Grown(f) = DOMAIN stree \cup InsertPaths(f)
           /\ \A p \in DOMAIN Grown(f) :
                 /\ OnTheWay(p)
                 /\ p # <<>> => SubSeq(p, 1, Len(p) - 1) \in DOMAIN Grown(f)
                 /\ Grown(f)[p] = Old(p)
<1>0. f \in TopicWords
  BY FiltersAreWords
<1>1. DOMAIN Grown(f) = DOMAIN stree \cup InsertPaths(f)
  BY DEF Grown
<1>2. \A p \in DOMAIN Grown(f) : Grown(f)[p] = Old(p)
  BY DEF Grown, Old
<1>3. ASSUME NEW p \in DOMAIN stree
      PROVE  /\ OnTheWay(p)
             /\ p # <<>> => SubSeq(p, 1, Len(p) - 1) \in DOMAIN stree
  BY <1>3, TreeShape DEF ParentClosed
<1>4. ASSUME NEW p \in InsertPaths(f)
      PROVE  /\ OnTheWay(p)
             /\ p # <<>> => SubSeq(p, 1, Len(p) - 1) \in InsertPaths(f)
  BY <1>0, InsertParents DEF OnTheWay
<1>5. QED
  BY <1>1, <1>2, <1>3, <1>4

\* The tree after Subscribe.
LEMMA Subscribed ==
    ASSUME TypeOK, NEW f \in Filters, NEW q, NEW s \in Subs, Subscribe(f, q, s)
    PROVE  /\ q \in 0..2
           /\ Node(f) \in InsertPaths(f)
           /\ DOMAIN stree' = DOMAIN stree \cup InsertPaths(f)
           /\ \A p \in DOMAIN stree' :
                 /\ OnTheWay(p)
                 /\ p # <<>> => SubSeq(p, 1, Len(p) - 1) \in DOMAIN stree'
                 /\ stree'[p] = IF p = Node(f)
                                  THEN (Old(p) \ EntriesOf(Old(p), s))
                                          \cup {[sub |-> s, qos |-> q]}
                                  ELSE Old(p)
           /\ stree' \in [DOMAIN stree' -> SUBSET [sub : Subs, qos : 0..2]]
<1>1. q \in 0..2 /\ Node(f) \in InsertPaths(f)
  BY NodeFacts DEF Subscribe, ValidQos
<1>2. /\ DOMAIN Grown(f) = DOMAIN stree \cup InsertPaths(f)
      /\ \A p \in DOMAIN Grown(f) :
            /\ OnTheWay(p)
            /\ p # <<>> => SubSeq(p, 1, Len(p) - 1) \in DOMAIN Grown(f)
            /\ Grown(f)[p] = Old(p)
  BY GrownShape
<1> DEFINE New(p) == (Old(p) \ EntriesOf(Old(p), s)) \cup {[sub |-> s, qos |-> q]}
<1>3. stree' = [p \in DOMAIN stree \cup InsertPaths(f) |->
                    IF p = Node(f) THEN New(p) ELSE Old(p)]
  <2>1. stree' = [Grown(f) EXCEPT ![Node(f)] =
                     (@ \ EntriesOf(@, s)) \cup {[sub |-> s, qos |-> q]}]
    BY DEF Subscribe
  <2>2. Grown(f) = [p \in DOMAIN stree \cup InsertPaths(f) |-> Old(p)]
    BY DEF Grown, Old
  <2>3. QED
    BY <1>1, <2>1, <2>2
<1>4. \A p : Old(p) \subseteq [sub : Subs, qos : 0..2]
  BY DEF TypeOK, Old
<1>5. \A p : New(p) \subseteq [sub : Subs, qos : 0..2]
  BY <1>1, <1>4
<1>6. QED
  BY <1>1, <1>2, <1>3, <1>4, <1>5

\* The tree after Unsubscribe.  The nodes cut off are the filter's own, from
\* some level on, and none of them has a subscriber left.
LEMMA Unsubscribed ==
    ASSUME TypeOK, NEW f \in Filters, NEW s \in Subs, Unsubscribe(f, s)
    PROVE  /\ Node(f) \in DOMAIN stree
           /\ \E levels \in SUBSET (1..Depth(f)) :
                /\ \A j \in 1..Depth(f) :
                      j \in levels <=> \A i \in j..Depth(f) : Bare(f, s, i)
                /\ DOMAIN stree' = {p \in DOMAIN stree :
                                       \A k \in levels : ~ Below(Path(f, k), p)}
           /\ \A p \in DOMAIN stree : p \notin DOMAIN stree' => Left(f, s, p) = {}
           /\ \A p \in DOMAIN stree' : stree'[p] = Left(f, s, p)
           /\ stree' \in [DOMAIN stree' -> SUBSET [sub : Subs, qos : 0..2]]
<1> DEFINE d == Depth(f)
           tree == [stree EXCEPT ![Node(f)] = @ \ EntriesOf(@, s)]
           bare(k) ==
               /\ tree[Path(f, k)] = {}
               /\ Children(DOMAIN tree, Path(f, k)) \subseteq
                      (IF k = d THEN {} ELSE {Path(f, k + 1)})
           levels == {j \in 1..d : \A i \in j..d : bare(i)}
           gone == {Path(f, k) : k \in levels}
           keep == {p \in DOMAIN stree : \A k \in levels : ~ Below(Path(f, k), p)}
<1>0. f \in TopicWords /\ d \in Nat /\ d \in 0..d
  BY FiltersAreWords, DepthBound
<1>1. Node(f) \in DOMAIN stree
  BY DEF Unsubscribe, Holds
<1>2. DOMAIN tree = DOMAIN stree /\ \A p \in DOMAIN stree : tree[p] = Left(f, s, p)
  BY <1>1 DEF TypeOK, Left
<1>3. \A i \in 0..d : Path(f, i) \in DOMAIN stree
  <2>1. SUFFICES ASSUME NEW i \in 0..d
                 PROVE  Path(f, i) \in DOMAIN stree
    OBVIOUS
  <2>2. Path(f, d) \in DOMAIN stree /\ Len(Path(f, d)) = d
    BY <1>0, <1>1, PathLevels DEF Node
  <2>3. SubSeq(Path(f, d), 1, i) \in DOMAIN stree
    BY <2>2, TreeShape, AllPrefixes
  <2>4. QED
    BY <1>0, <2>3, PathPrefix
<1>4. \A i \in 1..d : bare(i) <=> Bare(f, s, i)
  BY <1>0, <1>2, <1>3 DEF Bare
<1>5. stree' = [p \in {q \in DOMAIN tree : \A g \in gone : ~ Below(g, q)} |-> tree[p]]
  BY DEF Unsubscribe, Pruned, Cut, Restrict
<1> HIDE DEF tree
<1>6. {q \in DOMAIN tree : \A g \in gone : ~ Below(g, q)} = keep
  BY <1>2
<1>7. stree' = [p \in keep |-> Left(f, s, p)]
  BY <1>2, <1>5, <1>6
<1>8. ASSUME NEW p \in DOMAIN stree, p \notin keep
      PROVE  Left(f, s, p) = {}
  <2>1. PICK k \in levels : Below(Path(f, k), p)
    BY <1>8
  <2>2. k \in 1..d /\ \A i \in k..d : bare(i)
    OBVIOUS
  <2>3. k \in 0..d /\ \A i \in k..d : Bare(f, s, i)
    BY <1>0, <1>4, <2>2
  <2>4. \A i \in k..d : Children(DOMAIN stree, Path(f, i)) \subseteq
            (IF i = d THEN {} ELSE {Path(f, i + 1)})
    BY <2>3 DEF Bare
  <2>5. Len(p) \in k..d /\ p = Path(f, Len(p))
    BY <1>0, <2>1, <2>3, <2>4, TreeShape, LoneBranch
  <2>6. QED
    BY <2>3, <2>5 DEF Bare
<1>9. \A j \in 1..d : j \in levels <=> \A i \in j..d : Bare(f, s, i)
  BY <1>0, <1>4
<1>10. \A p \in DOMAIN stree : Left(f, s, p) \subseteq [sub : Subs, qos : 0..2]
  BY DEF TypeOK, Left
<1> HIDE DEF levels
<1>11. levels \in SUBSET (1..d)
  BY DEF levels
<1>12. QED
  BY <1>1, <1>7, <1>8, <1>9, <1>10, <1>11

\* The nodes that Unsubscribe leaves are nodes of a tree.
LEMMA CutShape ==
    ASSUME TypeOK, NEW f \in Filters, NEW levels \in SUBSET (1..Depth(f)),
           NEW nodes, nodes = {p \in DOMAIN stree :
                                  \A k \in levels : ~ Below(Path(f, k), p)}
    PROVE  <<>> \in nodes /\ ParentClosed(nodes)
<1> DEFINE gone == {Path(f, k) : k \in levels}
<1>0. f \in TopicWords /\ Depth(f) \in Nat
  BY FiltersAreWords, DepthBound
<1>1. ASSUME NEW k \in levels
      PROVE  Path(f, k) \in Words /\ Path(f, k) # <<>>
  <2>1. k \in 0..Depth(f) /\ k # 0
    BY <1>0
  <2>2. Path(f, k) \in Words /\ Len(Path(f, k)) = k
    BY <1>0, <2>1, PathLevels
  <2>3. QED
    BY <2>1, <2>2 DEF Words
<1>2. gone \subseteq Words
  BY <1>1
<1>3. nodes = {p \in DOMAIN stree : \A g \in gone : ~ Below(g, p)}
  OBVIOUS
<1> HIDE DEF gone
<1>4. ParentClosed(nodes)
  BY <1>2, <1>3, TreeShape, CutParents
<1>5. ASSUME NEW p \in Words, p # <<>>
      PROVE  ~ Below(p, <<>>)
  BY <1>5 DEF Words, Below
<1>6. <<>> \in nodes
  BY <1>1, <1>5 DEF TypeOK
<1>7. QED
  BY <1>4, <1>6

\* Next, action by action.
LEMMA NextCases ==
    ASSUME Next
    PROVE  \E f \in Filters, s \in Subs :
              \/ \E q \in QoS : Subscribe(f, q, s)
              \/ stree' = Grown(f) /\ Malformed(f)
              \/ Unsubscribe(f, s)
              \/ UNCHANGED stree
  BY DEF Next, SubscribeFails, SubscribeBadQos, UnsubscribeFails

-----------------------------------------------------------------------------
\* Type correctness of the subscription tree: every snode hangs under its
\* parent, on the way of some filter, and holds a subscriber at most once.
THEOREM TypeCorrect == Spec => []TypeOK
<1>1. Init => TypeOK
  BY DEF Init, TypeOK
<1>2. TypeOK /\ [Next]_stree => TypeOK'
  <2> SUFFICES ASSUME TypeOK, [Next]_stree
               PROVE  TypeOK'
    OBVIOUS
  <2>1. CASE UNCHANGED stree
    BY <2>1 DEF TypeOK
  <2>2. ASSUME NEW f \in Filters, NEW q, NEW s \in Subs, Subscribe(f, q, s)
        PROVE  TypeOK'
    <3>1. /\ q \in 0..2
          /\ DOMAIN stree' = DOMAIN stree \cup InsertPaths(f)
          /\ \A p \in DOMAIN stree' :
                /\ OnTheWay(p)
                /\ p # <<>> => SubSeq(p, 1, Len(p) - 1) \in DOMAIN stree'
                /\ stree'[p] = IF p = Node(f)
                                 THEN (Old(p) \ EntriesOf(Old(p), s))
                                         \cup {[sub |-> s, qos |-> q]}
                                 ELSE Old(p)
          /\ stree' \in [DOMAIN stree' -> SUBSET [sub : Subs, qos : 0..2]]
      BY <2>2, Subscribed
    <3>2. \A p : \A d, e \in Old(p) : d.sub = e.sub => d = e
      BY DEF TypeOK, Old
    <3>3. ASSUME NEW p \in DOMAIN stree', NEW d \in stree'[p], NEW e \in stree'[p],
                 d.sub = e.sub
          PROVE  d = e
      <4>1. CASE p # Node(f)
        <5>1. d \in Old(p) /\ e \in Old(p)
          BY <3>1, <3>3, <4>1
        <5>2. QED
          BY <3>2, <3>3, <5>1
      <4>2. CASE p = Node(f)
        <5>1. \A x \in stree'[p] : \/ x \in Old(p) /\ x.sub # s
                                   \/ x = [sub |-> s, qos |-> q]
          BY <3>1, <4>2 DEF EntriesOf
        <5>2. QED
          BY <3>2, <3>3, <5>1
      <4>3. QED
        BY <4>1, <4>2
    <3>4. QED
      BY <3>1, <3>3 DEF TypeOK, OnTheWay
  <2>3. ASSUME NEW f \in Filters, stree' = Grown(f)
        PROVE  TypeOK'
    <3>1. /\ DOMAIN stree' = DOMAIN stree \cup InsertPaths(f)
          /\ \A p \in DOMAIN stree' :
                /\ OnTheWay(p)
                /\ p # <<>> => SubSeq(p, 1, Len(p) - 1) \in DOMAIN stree'
                /\ stree'[p] = Old(p)
      BY <2>3, GrownShape
    <3>2. \A p : /\ Old(p) \subseteq [sub : Subs, qos : 0..2]
                 /\ \A d, e \in Old(p) : d.sub = e.sub => d = e
      BY DEF TypeOK, Old
    <3>3. stree' \in [DOMAIN stree' -> SUBSET [sub : Subs, qos : 0..2]]
      <4>1. stree' = [p \in DOMAIN stree' |-> stree'[p]]
        BY <2>3 DEF Grown
      <4>2. QED
        BY <3>1, <3>2, <4>1
    <3>4. QED
      BY <3>1, <3>2, <3>3 DEF TypeOK, OnTheWay
  <2>4. ASSUME NEW f \in Filters, NEW s \in Subs, Unsubscribe(f, s)
        PROVE  TypeOK'
    <3>1. PICK levels \in SUBSET (1..Depth(f)) :
              DOMAIN stree' = {p \in DOMAIN stree :
                                  \A k \in levels : ~ Below(Path(f, k), p)}
      BY <2>4, Unsubscribed
    <3>2. /\ \A p \in DOMAIN stree' : stree'[p] = Left(f, s, p)
          /\ stree' \in [DOMAIN stree' -> SUBSET [sub : Subs, qos : 0..2]]
      BY <2>4, Unsubscribed
    <3>3. <<>> \in DOMAIN stree' /\ ParentClosed(DOMAIN stree')
      BY <3>1, CutShape
    <3>4. \A p \in DOMAIN stree' : p \in DOMAIN stree /\ stree'[p] \subseteq stree[p]
      BY <3>1, <3>2 DEF Left
    <3>5. QED
      BY <3>2, <3>3, <3>4 DEF TypeOK, ParentClosed
  <2>5. QED
    BY <2>1, <2>2, <2>3, <2>4, NextCases
<1>3. QED
  BY <1>1, <1>2, PTL DEF Spec

-----------------------------------------------------------------------------
\* An entry of the index is an entry of a node, before and after a step.
LEMMA IndexEntries ==
    /\ \A x : x \in Index <=>
          \E p \in DOMAIN stree : \E e \in stree[p] :
              x = [filter |-> p, sub |-> e.sub, qos |-> e.qos]
    /\ \A x : x \in Index' <=>
          \E p \in DOMAIN stree' : \E e \in stree'[p] :
              x = [filter |-> p, sub |-> e.sub, qos |-> e.qos]
  BY DEF Index

\* Subscribe adds one entry to the index, in place of the subscriber's old one
\* for the same filter, and touches no other.
LEMMA SubscribeAdds ==
    ASSUME TypeOK, NEW f \in Filters, NEW q, NEW s \in Subs, Subscribe(f, q, s)
    PROVE  Index' = (Index \ {x \in Index : x.filter = Node(f) /\ x.sub = s})
                        \cup {[filter |-> Node(f), sub |-> s, qos |-> q]}
<1> DEFINE E == [filter |-> Node(f), sub |-> s, qos |-> q]
           Kept == Index \ {x \in Index : x.filter = Node(f) /\ x.sub = s}
<1>1. /\ q \in 0..2
      /\ Node(f) \in InsertPaths(f)
      /\ DOMAIN stree' = DOMAIN stree \cup InsertPaths(f)
      /\ \A p \in DOMAIN stree' :
            stree'[p] = IF p = Node(f)
                          THEN (Old(p) \ EntriesOf(Old(p), s))
                                  \cup {[sub |-> s, qos |-> q]}
                          ELSE Old(p)
  BY Subscribed
<1>2. \A p : \A e : e \in Old(p) <=> p \in DOMAIN stree /\ e \in stree[p]
  BY DEF Old
<1>3. ASSUME NEW x \in Index'
      PROVE  x \in Kept \cup {E}
  <2>0. PICK p \in DOMAIN stree' : \E e \in stree'[p] :
            x = [filter |-> p, sub |-> e.sub, qos |-> e.qos]
    BY <1>3, IndexEntries
  <2>1. PICK e \in stree'[p] : x = [filter |-> p, sub |-> e.sub, qos |-> e.qos]
    BY <2>0
  <2>2. CASE e \in Old(p) /\ ~ (p = Node(f) /\ e.sub = s)
    <3>1. x \in Index
      BY <1>2, <2>1, <2>2, IndexEntries
    <3>2. x.filter = p /\ x.sub = e.sub
      BY <2>1
    <3>3. QED
      BY <2>2, <3>1, <3>2
  <2>3. CASE p = Node(f) /\ e = [sub |-> s, qos |-> q]
    BY <2>1, <2>3
  <2>4. \/ e \in Old(p) /\ ~ (p = Node(f) /\ e.sub = s)
        \/ p = Node(f) /\ e = [sub |-> s, qos |-> q]
    BY <1>1, <2>1 DEF EntriesOf
  <2>5. QED
    BY <2>2, <2>3, <2>4
<1>4. E \in Index'
  <2>1. [sub |-> s, qos |-> q] \in stree'[Node(f)] /\ Node(f) \in DOMAIN stree'
    BY <1>1
  <2>2. PICK e \in stree'[Node(f)] : e = [sub |-> s, qos |-> q]
    BY <2>1
  <2>3. E = [filter |-> Node(f), sub |-> e.sub, qos |-> e.qos]
    BY <2>2
  <2>4. QED
    BY <2>1, <2>2, <2>3, IndexEntries
<1>5. ASSUME NEW x \in Kept
      PROVE  x \in Index'
  <2>0. PICK p \in DOMAIN stree : \E e \in stree[p] :
            x = [filter |-> p, sub |-> e.sub, qos |-> e.qos]
    BY <1>5, IndexEntries
  <2>1. PICK e \in stree[p] : x = [filter |-> p, sub |-> e.sub, qos |-> e.qos]
    BY <2>0
  <2>2. x.filter = p /\ x.sub = e.sub
    BY <2>1
  <2>3. ~ (p = Node(f) /\ e.sub = s)
    BY <1>5, <2>2
  <2>4. p \in DOMAIN stree' /\ e \in stree'[p]
    BY <1>1, <1>2, <2>1, <2>3 DEF EntriesOf
  <2>5. QED
    BY <2>1, <2>4, IndexEntries
<1>6. QED
  BY <1>3, <1>4, <1>5

\* sinsert on a malformed filter adds no entry.
LEMMA FailureAddsNothing ==
    ASSUME TypeOK, NEW f \in Filters, stree' = Grown(f)
    PROVE  Index' = Index
<1>1. /\ DOMAIN stree' = DOMAIN stree \cup InsertPaths(f)
      /\ \A p \in DOMAIN stree' : stree'[p] = Old(p)
  BY GrownShape
<1>2. \A x : x \in Index' <=> x \in Index
  BY <1>1, IndexEntries DEF Old
<1>3. QED
  BY <1>2

\* Unsubscribe, with all the nodes that sremove deletes on its way back, takes
\* out the subscriber's entry for the filter and no other.
LEMMA UnsubscribeRemoves ==
    ASSUME TypeOK, NEW f \in Filters, NEW s \in Subs, Unsubscribe(f, s)
    PROVE  Index' = Index \ {x \in Index : x.filter = Node(f) /\ x.sub = s}
<1> DEFINE Kept == Index \ {x \in Index : x.filter = Node(f) /\ x.sub = s}
<1>1. /\ \A p \in DOMAIN stree : p \notin DOMAIN stree' => Left(f, s, p) = {}
      /\ \A p \in DOMAIN stree' : p \in DOMAIN stree /\ stree'[p] = Left(f, s, p)
  BY Unsubscribed
<1>2. \A p \in DOMAIN stree : \A e :
          e \in Left(f, s, p) <=> e \in stree[p] /\ ~ (p = Node(f) /\ e.sub = s)
  BY DEF Left, EntriesOf
<1>3. ASSUME NEW x \in Index'
      PROVE  x \in Kept
  <2>0. PICK p \in DOMAIN stree' : \E e \in stree'[p] :
            x = [filter |-> p, sub |-> e.sub, qos |-> e.qos]
    BY <1>3, IndexEntries
  <2>1. PICK e \in stree'[p] : x = [filter |-> p, sub |-> e.sub, qos |-> e.qos]
    BY <2>0
  <2>2. p \in DOMAIN stree /\ e \in stree[p] /\ ~ (p = Node(f) /\ e.sub = s)
    BY <1>1, <1>2, <2>1
  <2>3. x \in Index
    BY <2>1, <2>2, IndexEntries
  <2>4. x.filter = p /\ x.sub = e.sub
    BY <2>1
  <2>5. QED
    BY <2>2, <2>3, <2>4
<1>4. ASSUME NEW x \in Kept
      PROVE  x \in Index'
  <2>0. PICK p \in DOMAIN stree : \E e \in stree[p] :
            x = [filter |-> p, sub |-> e.sub, qos |-> e.qos]
    BY <1>4, IndexEntries
  <2>1. PICK e \in stree[p] : x = [filter |-> p, sub |-> e.sub, qos |-> e.qos]
    BY <2>0
  <2>2. x.filter = p /\ x.sub = e.sub
    BY <2>1
  <2>3. e \in Left(f, s, p)
    BY <1>2, <1>4, <2>1, <2>2
  <2>4. p \in DOMAIN stree' /\ e \in stree'[p]
    BY <1>1, <2>1, <2>3
  <2>5. QED
    BY <2>1, <2>4, IndexEntries
<1>5. QED
  BY <1>3, <1>4

\* The tree of memtopics.go implements the plain set of subscriptions that a
\* TopicsProvider promises: no insertion, failed insertion, removal or
\* deletion of nodes ever adds or drops the entry of another filter or
\* subscriber.
THEOREM Refinement == Spec => ImplementsIndex
<1>1. Init => SubIndex!Init
  BY DEF Init, SubIndex!Init, Index
<1>2. TypeOK /\ [Next]_stree => [SubIndex!Next]_Index
  <2> SUFFICES ASSUME TypeOK, [Next]_stree
               PROVE  SubIndex!Next \/ Index' = Index
    OBVIOUS
  <2>1. CASE UNCHANGED stree
    BY <2>1 DEF Index
  <2>2. ASSUME NEW f \in Filters, NEW s \in Subs, NEW q \in QoS, Subscribe(f, q, s)
        PROVE  SubIndex!Next
    <3>1. SubIndex!Add(Node(f), q, s)
      BY <2>2, SubscribeAdds DEF SubIndex!Add, SubIndex!Entries
    <3>2. QED
      BY <3>1 DEF SubIndex!Next
  <2>3. ASSUME NEW f \in Filters, stree' = Grown(f)
        PROVE  Index' = Index
    BY <2>3, FailureAddsNothing
  <2>4. ASSUME NEW f \in Filters, NEW s \in Subs, Unsubscribe(f, s)
        PROVE  SubIndex!Next
    <3>1. SubIndex!Remove(Node(f), s)
      BY <2>4, UnsubscribeRemoves DEF SubIndex!Remove, SubIndex!Entries
    <3>2. QED
      BY <3>1 DEF SubIndex!Next
  <2>5. QED
    BY <2>1, <2>2, <2>3, <2>4, NextCases
<1>3. QED
  BY <1>1, <1>2, TypeCorrect, PTL DEF Spec, ImplementsIndex, SubIndex!Spec

-----------------------------------------------------------------------------
\* Nothing in a topic without wildcards stops a recursion.
LEMMA PublishTopic ==
    ASSUME NEW t \in TopicWords, NoWildcards(t)
    PROVE  /\ Depth(t) \in 0..Len(t)
           /\ Len(Names(t)) = Depth(t)
           /\ \A i \in 1..Depth(t) : /\ Names(t)[i] = t[i]
                                     /\ t[i] # MWC
                                     /\ ~ LevelError(t, i)
<1>1. /\ t \in Words /\ t \in Seq(Strings) /\ Len(t) \in Nat
      /\ DOMAIN t = 1..Len(t) /\ Depth(t) \in 0..Len(t)
  BY DepthBound DEF TopicWords, Words
<1>2. \A i \in 1..Len(t) : t[i] # MWC /\ t[i] \notin Ill
  BY <1>1 DEF NoWildcards
<1>3. \A i \in 1..Depth(t) : t[i] # MWC /\ ~ LevelError(t, i)
  <2>1. \A i \in 1..Depth(t) : i \in 1..Len(t)
    BY <1>1
  <2>2. QED
    BY <1>2, <2>1, Zenon DEF LevelError
<1>4. Len(Names(t)) = Depth(t) /\ \A i \in 1..Depth(t) : Names(t)[i] = t[i]
  BY <1>1, Prefix DEF Names
<1>5. QED
  BY <1>1, <1>3, <1>4

\* No key of the tree is empty, so that a key matches a level of the topic
\* exactly if smatch follows it, an empty level included.
LEMMA KeyMatches ==
    ASSUME TypeOK, NEW t \in TopicWords, NoWildcards(t), NEW p \in DOMAIN stree,
           NEW i \in 1..Depth(t), i <= Len(p)
    PROVE  p[i] \in {SWC, Names(t)[i]} <=> p[i] # MWC /\ p[i] \in {SWC, Level(t, i)}
<1>1. p \in Words /\ Len(p) \in Nat /\ i \in 1..Len(p) /\ Len(p) # 0
  BY TreeShape, PublishTopic DEF Words
<1>2. p # <<>>
  BY <1>1
<1>3. PICK f \in Filters : \E k \in 1..Depth(f) : p = Path(f, k)
  BY <1>2, TreeShape DEF OnTheWay
<1>4. PICK k \in 1..Depth(f) : p = Path(f, k)
  BY <1>3
<1>5. f \in TopicWords /\ Depth(f) \in Nat
  BY FiltersAreWords, DepthBound
<1>6. Len(p) = k /\ p[i] = Level(f, i)
  BY <1>1, <1>4, <1>5, PathLevels
<1>7. p[i] # ""
  <2>1. SWC # ""
    BY DEF SWC
  <2>2. QED
    BY <1>6, <2>1, Zenon DEF Level
<1>8. Names(t)[i] = t[i] /\ t[i] # MWC
  BY PublishTopic
<1>9. SWC # MWC
  BY DEF SWC, MWC
<1>10. Level(t, i) = IF t[i] = "" THEN SWC ELSE t[i]
  BY DEF Level
<1>11. QED
  BY <1>7, <1>8, <1>9, <1>10

\* Whom smatch collects: the subscribers of the nodes the whole topic leads to,
\* and those of the "#" under every node on the way.
LEMMA Collected ==
    ASSUME NEW t, NEW q
    PROVE  \A s : s \in Subscribers(t, q) <=>
              \/ \E p \in Visited(t, Depth(t)) : s \in SubsAt(p)
              \/ \E k \in 0..Depth(t) : \E p \in Visited(t, k) :
                    s \in SubsAt(Append(p, MWC))
<1> DEFINE seen == UNION {Visited(t, k) : k \in 0..Depth(t)}
           whole == UNION {SubsAt(p) : p \in Visited(t, Depth(t))}
           multi == UNION {SubsAt(Append(p, MWC)) : p \in seen}
<1>1. Subscribers(t, q) = whole \cup multi
  BY DEF Subscribers
<1>2. \A s : s \in whole <=> \E p \in Visited(t, Depth(t)) : s \in SubsAt(p)
  OBVIOUS
<1>3. \A p : p \in seen <=> \E k \in 0..Depth(t) : p \in Visited(t, k)
  OBVIOUS
<1>4. \A s : s \in multi <=> \E p \in seen : s \in SubsAt(Append(p, MWC))
  OBVIOUS
<1> HIDE DEF seen, whole, multi
<1>5. QED
  BY <1>1, <1>2, <1>3, <1>4, Zenon

\* A filter without a final "#" matches a topic exactly if smatch stands at the
\* filter's node at the end of the topic.
LEMMA MatchesWhole ==
    ASSUME TypeOK, NEW t \in TopicWords, NoWildcards(t), NEW p \in DOMAIN stree,
           ~ (Len(p) > 0 /\ p[Len(p)] = MWC)
    PROVE  Matches(p, Names(t)) <=> p \in Visited(t, Depth(t))
<1>0. p \in Words /\ Len(p) \in Nat /\ Depth(t) \in Nat /\ Len(Names(t)) = Depth(t)
  BY TreeShape, PublishTopic, DepthBound DEF Words
<1>1. Matches(p, Names(t)) <=> /\ Len(Names(t)) = Len(p)
                               /\ \A i \in 1..Len(p) : p[i] \in {SWC, Names(t)[i]}
  BY Zenon DEF Matches
<1>2. p \in Visited(t, Depth(t)) <=>
          /\ Len(p) = Depth(t)
          /\ \A i \in 1..Depth(t) : p[i] # MWC /\ p[i] \in {SWC, Level(t, i)}
  BY DEF Visited
<1>3. CASE Len(p) = Depth(t)
  <2>1. \A i \in 1..Depth(t) :
            p[i] \in {SWC, Names(t)[i]} <=> p[i] # MWC /\ p[i] \in {SWC, Level(t, i)}
    BY <1>0, <1>3, KeyMatches
  <2>2. QED
    BY <1>0, <1>1, <1>2, <1>3, <2>1
<1>4. QED
  BY <1>0, <1>1, <1>2, <1>3

\* A filter with a final "#" matches a topic exactly if smatch comes by the
\* parent of the filter's node.
LEMMA MatchesMulti ==
    ASSUME TypeOK, NEW t \in TopicWords, NoWildcards(t), NEW p \in DOMAIN stree,
           Len(p) > 0, p[Len(p)] = MWC
    PROVE  Matches(p, Names(t)) <=>
              \E k \in 0..Depth(t) : \E q \in Visited(t, k) : p = Append(q, MWC)
<1>0. /\ p \in Words /\ p \in Seq(Strings) /\ Len(p) \in Nat
      /\ Depth(t) \in Nat /\ Len(Names(t)) = Depth(t)
  BY TreeShape, PublishTopic, DepthBound DEF Words
<1>1. Matches(p, Names(t)) <=>
          /\ Depth(t) >= Len(p) - 1
          /\ \A i \in 1..(Len(p) - 1) : p[i] \in {SWC, Names(t)[i]}
  BY <1>0, Zenon DEF Matches
<1>2. ASSUME Matches(p, Names(t))
      PROVE  \E k \in 0..Depth(t) : \E q \in Visited(t, k) : p = Append(q, MWC)
  <2>1. PICK k \in 0..Len(p) : k = Len(p) - 1
    <3>1. Len(p) - 1 \in 0..Len(p)
      BY <1>0
    <3>2. QED
      BY <3>1
  <2>2. PICK q \in DOMAIN stree : q = SubSeq(p, 1, k)
    BY <2>1, TreeShape, AllPrefixes
  <2>3. q \in Words /\ Len(q) = k /\ \A i \in 1..k : q[i] = p[i]
    BY <1>0, <2>1, <2>2, Prefix
  <2>4. k \in 0..Depth(t)
    BY <1>0, <1>1, <1>2, <2>1
  <2>5. ASSUME NEW i \in 1..k
        PROVE  q[i] # MWC /\ q[i] \in {SWC, Level(t, i)}
    <3>1. i \in 1..Depth(t) /\ i \in 1..(Len(p) - 1) /\ i <= Len(p)
      BY <1>0, <2>1, <2>4
    <3>2. p[i] \in {SWC, Names(t)[i]} /\ q[i] = p[i]
      BY <1>1, <1>2, <2>3, <3>1
    <3>3. QED
      BY <3>1, <3>2, KeyMatches
  <2>6. q \in Visited(t, k)
    BY <2>3, <2>5 DEF Visited
  <2>7. p = Append(q, MWC)
    <3>1. MWC \in Strings
      BY DEF Strings
    <3>2. /\ Append(q, MWC) \in Seq(Strings)
          /\ Len(Append(q, MWC)) = k + 1
          /\ \A i \in 1..k : Append(q, MWC)[i] = q[i]
          /\ Append(q, MWC)[k + 1] = MWC
      BY <2>1, <2>3, <3>1 DEF Words
    <3>3. PICK r \in Words : r = Append(q, MWC)
      BY <3>2 DEF Words
    <3>4. Len(r) = Len(p) /\ \A i \in 1..Len(p) : p[i] = r[i]
      BY <1>0, <2>1, <2>3, <3>2, <3>3
    <3>5. QED
      BY <1>0, <3>3, <3>4, SameLevels
  <2>8. QED
    BY <2>4, <2>6, <2>7
<1>3. ASSUME NEW k \in 0..Depth(t), NEW q \in Visited(t, k), p = Append(q, MWC)
      PROVE  Matches(p, Names(t))
  <2>1. /\ q \in Words
        /\ Len(q) = k
        /\ \A i \in 1..k : q[i] # MWC /\ q[i] \in {SWC, Level(t, i)}
    BY TreeShape DEF Visited
  <2>2. /\ Len(p) = k + 1
        /\ \A i \in 1..k : p[i] = q[i]
    <3>1. MWC \in Strings /\ q \in Seq(Strings)
      BY <2>1 DEF Strings, Words
    <3>2. QED
      BY <1>3, <2>1, <3>1
  <2>3. ASSUME NEW i \in 1..(Len(p) - 1) PROVE p[i] \in {SWC, Names(t)[i]}
    <3>1. i \in 1..k /\ i \in 1..Depth(t) /\ i <= Len(p)
      BY <1>0, <2>2
    <3>2. p[i] # MWC /\ p[i] \in {SWC, Level(t, i)}
      BY <2>1, <2>2, <3>1
    <3>3. QED
      BY <3>1, <3>2, KeyMatches
  <2>4. QED
    BY <1>0, <1>1, <2>2, <2>3
<1>4. QED
  BY <1>2, <1>3

\* No level is left out of a filter or topic whose last level is not empty.
LEMMA NoneLeftOut ==
    ASSUME NEW t \in TopicWords, t[Len(t)] # ""
    PROVE  Depth(t) = Len(t) /\ Level(t, Len(t)) = t[Len(t)]
  BY Zenon DEF Depth, Level

\* A filter that matches a topic as it is spelled matches it as it is stored.
LEMMA SpelledIsStored ==
    ASSUME NEW f \in TopicWords, NEW t \in TopicWords, NoWildcards(t), Matches(f, t),
           Depth(f) = Len(f), Depth(t) = Len(t), Level(f, Len(f)) = f[Len(f)]
    PROVE  Matches(Node(f), Names(t))
<1>1. Len(f) \in Nat \ {0} /\ Len(t) \in Nat \ {0}
  BY DepthBound
<1>2. /\ Len(Node(f)) = Len(f)
      /\ \A i \in 1..Len(f) : Node(f)[i] = Level(f, i)
  <2>1. PICK k \in 0..Depth(f) : k = Len(f)
    BY <1>1
  <2>2. Node(f) = Path(f, k)
    BY <1>1, <2>1 DEF Node
  <2>3. Len(Path(f, k)) = k /\ \A i \in 1..k : Path(f, k)[i] = Level(f, i)
    BY PathLevels
  <2>4. QED
    BY <2>1, <2>2, <2>3
<1>3. Len(Names(t)) = Len(t) /\ \A i \in 1..Len(t) : Names(t)[i] = t[i]
  BY <1>1, PublishTopic
<1>4. Len(f) \in 1..Len(f) /\ Node(f)[Len(f)] = f[Len(f)]
  <2>1. Len(f) \in 1..Len(f)
    BY <1>1
  <2>2. QED
    BY <1>2, <2>1
<1>5. \A i \in 1..Len(f) : Level(f, i) = SWC \/ Level(f, i) = f[i]
  BY DEF Level
<1>6. CASE f[Len(f)] = MWC
  <2>1. Len(f) > 0
    BY <1>1
  <2>2. Len(t) >= Len(f) - 1 /\ \A i \in 1..(Len(f) - 1) : f[i] \in {SWC, t[i]}
    BY <1>6, <2>1, Zenon DEF Matches
  <2>3. ASSUME NEW i \in 1..(Len(f) - 1) PROVE Node(f)[i] \in {SWC, Names(t)[i]}
    <3>1. i \in 1..Len(f) /\ i \in 1..Len(t)
      BY <1>1, <2>2
    <3>2. QED
      BY <1>2, <1>3, <1>5, <2>2, <3>1
  <2>4. /\ Len(Node(f)) > 0 /\ Node(f)[Len(Node(f))] = MWC
        /\ Len(Names(t)) >= Len(Node(f)) - 1
        /\ \A i \in 1..(Len(Node(f)) - 1) : Node(f)[i] \in {SWC, Names(t)[i]}
    BY <1>2, <1>3, <1>4, <1>6, <2>1, <2>2, <2>3
  <2>5. QED
    BY <2>4, Zenon DEF Matches
<1>7. CASE f[Len(f)] # MWC
  <2>1. Len(t) = Len(f) /\ \A i \in 1..Len(f) : f[i] \in {SWC, t[i]}
    BY <1>7, Zenon DEF Matches
  <2>2. \A i \in 1..Len(f) : Node(f)[i] \in {SWC, Names(t)[i]}
    BY <1>1, <1>2, <1>3, <1>5, <2>1
  <2>3. /\ Node(f)[Len(Node(f))] # MWC
        /\ Len(Names(t)) = Len(Node(f))
        /\ \A i \in 1..Len(Node(f)) : Node(f)[i] \in {SWC, Names(t)[i]}
    BY <1>2, <1>3, <1>4, <1>7, <2>1, <2>2
  <2>4. QED
    BY <2>3, Zenon DEF Matches
<1>8. QED
  BY <1>6, <1>7

\* smatch, which descends level by level and never compares a filter with a
\* topic as a whole, returns exactly the subscribers of the matching stored
\* filters, and every subscriber of a filter that matches as it is spelled, in
\* every tree that sinsert and sremove can leave behind, for topics with empty
\* levels too.
THEOREM Matching == Spec => []MatchCorrect
<1>1. TypeOK => MatchCorrect
  <2> SUFFICES ASSUME TypeOK, NEW t \in Topics, NEW q \in QoS,
                      NoWildcards(t), ValidQos(q)
               PROVE  /\ ~ MatchError(t, q)
                      /\ Subscribers(t, q) =
                            {e.sub : e \in {d \in Index : Matches(d.filter, Names(t))}}
                      /\ \A f \in Filters :
                            f[Len(f)] # "" /\ t[Len(t)] # "" /\ Matches(f, t) =>
                                SubsAt(Node(f)) \subseteq Subscribers(t, q)
    BY DEF MatchCorrect
  <2>0. t \in TopicWords
    BY FiltersAreWords
  <2>1. ~ MatchError(t, q)
    BY <2>0, PublishTopic DEF MatchError
  <2>2. \A s : \A p \in DOMAIN stree : s \in SubsAt(p) <=> \E e \in stree[p] : s = e.sub
    BY DEF SubsAt
  <2>3. ASSUME NEW s
        PROVE  s \in Subscribers(t, q) <=>
                   \E p \in DOMAIN stree : s \in SubsAt(p) /\ Matches(p, Names(t))
    <3>1. ASSUME NEW p \in Visited(t, Depth(t)), s \in SubsAt(p)
          PROVE  \E r \in DOMAIN stree : s \in SubsAt(r) /\ Matches(r, Names(t))
      <4>1. p \in DOMAIN stree /\ Len(p) = Depth(t) /\
            \A i \in 1..Depth(t) : p[i] # MWC
        BY DEF Visited
      <4>2. Depth(t) \in Nat
        BY <2>0, DepthBound
      <4>3. ~ (Len(p) > 0 /\ p[Len(p)] = MWC)
        BY <4>1, <4>2
      <4>4. QED
        BY <2>0, <3>1, <4>1, <4>3, MatchesWhole
    <3>2. ASSUME NEW k \in 0..Depth(t), NEW p \in Visited(t, k),
                 s \in SubsAt(Append(p, MWC))
          PROVE  \E r \in DOMAIN stree : s \in SubsAt(r) /\ Matches(r, Names(t))
      <4>1. PICK r \in DOMAIN stree : r = Append(p, MWC)
        BY <3>2 DEF SubsAt
      <4>2. p \in Seq(Strings) /\ MWC \in Strings
        BY TreeShape DEF Visited, Words, Strings
      <4>3. Len(r) > 0 /\ r[Len(r)] = MWC
        BY <4>1, <4>2
      <4>4. QED
        BY <2>0, <3>2, <4>1, <4>3, MatchesMulti
    <3>3. ASSUME NEW p \in DOMAIN stree, s \in SubsAt(p), Matches(p, Names(t))
          PROVE  \/ \E r \in Visited(t, Depth(t)) : s \in SubsAt(r)
                 \/ \E k \in 0..Depth(t) : \E r \in Visited(t, k) :
                       s \in SubsAt(Append(r, MWC))
      <4>1. CASE Len(p) > 0 /\ p[Len(p)] = MWC
        <5>1. \E k \in 0..Depth(t) : \E r \in Visited(t, k) : p = Append(r, MWC)
          BY <2>0, <3>3, <4>1, MatchesMulti
        <5>2. QED
          BY <3>3, <5>1
      <4>2. CASE ~ (Len(p) > 0 /\ p[Len(p)] = MWC)
        BY <2>0, <3>3, <4>2, MatchesWhole
      <4>3. QED
        BY <4>1, <4>2
    <3>4. QED
      BY <3>1, <3>2, <3>3, Collected
  <2>4. ASSUME NEW s
        PROVE  s \in {e.sub : e \in {d \in Index : Matches(d.filter, Names(t))}} <=>
                   \E p \in DOMAIN stree : s \in SubsAt(p) /\ Matches(p, Names(t))
    <3>1. ASSUME NEW x \in Index, Matches(x.filter, Names(t)), s = x.sub
          PROVE  \E p \in DOMAIN stree : s \in SubsAt(p) /\ Matches(p, Names(t))
      <4>1. PICK p \in DOMAIN stree : \E e \in stree[p] :
                x = [filter |-> p, sub |-> e.sub, qos |-> e.qos]
        BY IndexEntries
      <4>2. PICK e \in stree[p] : x = [filter |-> p, sub |-> e.sub, qos |-> e.qos]
        BY <4>1
      <4>3. x.filter = p /\ x.sub = e.sub
        BY <4>2
      <4>4. QED
        BY <2>2, <3>1, <4>2, <4>3
    <3>2. ASSUME NEW p \in DOMAIN stree, s \in SubsAt(p), Matches(p, Names(t))
          PROVE  \E x \in Index : Matches(x.filter, Names(t)) /\ s = x.sub
      <4>1. PICK e \in stree[p] : s = e.sub
        BY <2>2, <3>2
      <4>2. PICK x \in Index : x = [filter |-> p, sub |-> e.sub, qos |-> e.qos]
        BY <4>1, IndexEntries
      <4>3. x.filter = p /\ x.sub = e.sub
        BY <4>2
      <4>4. QED
        BY <3>2, <4>1, <4>2, <4>3
    <3>3. QED
      BY <3>1, <3>2
  <2>5. ASSUME NEW f \in Filters, f[Len(f)] # "", t[Len(t)] # "", Matches(f, t),
               NEW s \in SubsAt(Node(f))
        PROVE  s \in Subscribers(t, q)
    <3>0. f \in TopicWords
      BY FiltersAreWords
    <3>1. Matches(Node(f), Names(t))
      BY <2>0, <2>5, <3>0, NoneLeftOut, SpelledIsStored, Zenon
    <3>2. Node(f) \in DOMAIN stree
      BY <2>5 DEF SubsAt
    <3>3. QED
      BY <2>3, <2>5, <3>1, <3>2
  <2>6. QED
    BY <2>1, <2>3, <2>4, <2>5
<1>2. QED
  BY <1>1, TypeCorrect, PTL

-----------------------------------------------------------------------------
\* A leaf that a failing sinsert leaves behind.
ErrorLeaf(p) ==
    \E f \in Filters : \E k \in 1..Depth(f) : FirstError(f, k) /\ p = Path(f, k - 1)

\* The next node of a topic is a child.
LEMMA PathChild ==
    ASSUME NEW t \in TopicWords, NEW k \in 0..Depth(t), k # Depth(t),
           NEW nodes, Path(t, k + 1) \in nodes
    PROVE  Path(t, k + 1) \in Children(nodes, Path(t, k))
<1>1. Depth(t) \in Nat /\ k + 1 \in 0..Depth(t)
  BY DepthBound
<1>2. Len(Path(t, k)) = k /\ Len(Path(t, k + 1)) = k + 1
  BY <1>1, PathLevels
<1>3. Below(Path(t, k), Path(t, k + 1))
  BY <1>1, PathBelow
<1>4. QED
  BY <1>2, <1>3 DEF Children

\* sinsert leaves no empty leaf behind, but for the one before a bad level.
LEMMA InsertLeaves ==
    ASSUME TypeOK, LeavesInUse, NEW f \in Filters,
           DOMAIN stree' = DOMAIN stree \cup InsertPaths(f),
           \A p \in DOMAIN stree : stree'[p] = {} => stree[p] = {},
           ~ Malformed(f) => stree'[Node(f)] # {}
    PROVE  LeavesInUse'
<1>0. f \in TopicWords /\ Depth(f) \in Nat
  BY FiltersAreWords, DepthBound
<1>1. SUFFICES ASSUME NEW p \in DOMAIN stree', p # <<>>,
                      Children(DOMAIN stree', p) = {}, stree'[p] = {}
               PROVE  ErrorLeaf(p)
  BY DEF LeavesInUse, ErrorLeaf
<1>2. CASE p \in DOMAIN stree
  <2>1. Children(DOMAIN stree, p) = {}
    BY <1>1 DEF Children
  <2>2. stree[p] = {}
    BY <1>1, <1>2
  <2>3. QED
    BY <1>1, <1>2, <2>1, <2>2 DEF LeavesInUse, ErrorLeaf
<1>3. CASE p \in InsertPaths(f)
  <2>1. PICK j \in 1..Depth(f) : p = Path(f, j)
    BY <1>0, <1>1, <1>3, InsertParents
  <2>2. j \in 0..Depth(f) /\ j + 1 \in Nat
    BY <1>0
  <2>3. ASSUME j # Depth(f)
        PROVE  Path(f, j + 1) \notin InsertPaths(f)
    BY <1>0, <1>1, <2>1, <2>2, <2>3, PathChild
  <2>4. CASE ~ Malformed(f)
    <3>1. j # Depth(f)
      BY <1>1, <2>1, <2>4 DEF Node
    <3>2. j + 1 \in 0..Depth(f)
      BY <1>0, <3>1
    <3>3. QED
      BY <1>0, <2>3, <2>4, <3>1, <3>2, Insertion
  <2>5. CASE Malformed(f)
    <3>1. PICK k \in 1..Depth(f) : FirstError(f, k)
      BY <1>0, <2>5, FirstErrorExists
    <3>2. \A i \in 0..Depth(f) : Path(f, i) \in InsertPaths(f) <=> i < k
      BY <1>0, <3>1, Insertion
    <3>3. j < k
      BY <1>3, <2>1, <2>2, <3>2
    <3>4. ~ (j + 1 < k)
      BY <1>0, <2>2, <2>3, <3>2, <3>3
    <3>5. j = k - 1
      BY <1>0, <3>3, <3>4
    <3>6. QED
      BY <2>1, <3>1, <3>5 DEF ErrorLeaf
  <2>6. QED
    BY <2>4, <2>5
<1>4. QED
  BY <1>1, <1>2, <1>3

\* sremove leaves no empty leaf that was not one before: a node that loses its
\* last child or its last subscriber goes too.
LEMMA RemoveLeaves ==
    ASSUME TypeOK, LeavesInUse, NEW f \in Filters, NEW s \in Subs, Unsubscribe(f, s)
    PROVE  LeavesInUse'
<1> DEFINE d == Depth(f)
<1>0. f \in TopicWords /\ d \in Nat
  BY FiltersAreWords, DepthBound
<1>1. PICK levels \in SUBSET (1..d) :
          /\ \A j \in 1..d : j \in levels <=> \A i \in j..d : Bare(f, s, i)
          /\ DOMAIN stree' = {p \in DOMAIN stree :
                                 \A k \in levels : ~ Below(Path(f, k), p)}
  BY Unsubscribed
<1>2. /\ Node(f) \in DOMAIN stree
      /\ \A p \in DOMAIN stree' : p \in DOMAIN stree /\ stree'[p] = Left(f, s, p)
  BY <1>1, Unsubscribed
<1>3. SUFFICES ASSUME NEW p \in DOMAIN stree', p # <<>>,
                      Children(DOMAIN stree', p) = {}, stree'[p] = {}
               PROVE  ErrorLeaf(p)
  BY DEF LeavesInUse, ErrorLeaf
<1>4. p \in DOMAIN stree /\ p \in Words /\ Len(p) \in Nat /\ Left(f, s, p) = {}
  BY <1>2, <1>3, TreeShape DEF Words
\* A child that p has lost is the top of the branch.
<1>5. ASSUME NEW c \in Children(DOMAIN stree, p)
      PROVE  \E k \in levels : c = Path(f, k) /\ Len(p) = k - 1
  <2>1. /\ c \in DOMAIN stree /\ c \in Words
        /\ Len(c) = Len(p) + 1
        /\ Below(p, c)
    BY TreeShape DEF Children
  <2>2. c \notin DOMAIN stree'
    BY <1>3, <2>1 DEF Children
  <2>3. PICK k \in levels : Below(Path(f, k), c)
    BY <1>1, <2>1, <2>2
  <2>4. ~ Below(Path(f, k), p)
    BY <1>1, <1>3
  <2>5. k \in 0..d
    BY <1>0
  <2>6. PICK g \in Words : g = Path(f, k) /\ Len(g) = k
    BY <1>0, <2>5, PathLevels
  <2>7. c = g
    BY <1>4, <2>1, <2>3, <2>4, <2>6, CutTop
  <2>8. QED
    BY <1>0, <1>4, <2>1, <2>5, <2>6, <2>7
<1>6. ASSUME NEW k \in 1..d, p = Path(f, k)
      PROVE  FALSE
  <2>0. k \in 0..d
    BY <1>0
  <2>1. k \notin levels
    BY <1>0, <1>1, <1>3, <1>6, <2>0, PathBelow
  <2>2. Len(p) = k
    BY <1>0, <1>6, <2>0, PathLevels
  <2>3. Children(DOMAIN stree, p) \subseteq (IF k = d THEN {} ELSE {Path(f, k + 1)})
    <3>1. SUFFICES ASSUME NEW c \in Children(DOMAIN stree, p)
                   PROVE  k # d /\ c = Path(f, k + 1)
      BY Zenon
    <3>2. PICK j \in levels : c = Path(f, j) /\ Len(p) = j - 1
      BY <1>5
    <3>3. j \in 1..d /\ j = k + 1
      BY <1>0, <2>2, <3>2
    <3>4. QED
      BY <1>0, <3>2, <3>3
  <2>4. Bare(f, s, k)
    BY <1>4, <1>6, <2>3 DEF Bare
  <2>5. CASE k = d
    <3>1. \A i \in k..d : i = k
      BY <1>0, <2>5
    <3>2. QED
      BY <1>1, <2>1, <2>4, <3>1
  <2>6. CASE k # d
    <3>0. k + 1 \in 1..d
      BY <1>0, <2>6
    <3>1. k + 1 \in levels
      <4>1. Path(f, k + 1) \in DOMAIN stree
        <5>1. Path(f, d) \in DOMAIN stree /\ Len(Path(f, d)) = d /\ d \in 0..d
          BY <1>0, <1>2, PathLevels DEF Node
        <5>2. k + 1 \in 0..d
          BY <1>0, <3>0
        <5>3. SubSeq(Path(f, d), 1, k + 1) \in DOMAIN stree
          BY <5>1, <5>2, TreeShape, AllPrefixes
        <5>4. QED
          BY <1>0, <5>1, <5>2, <5>3, PathPrefix
      <4>2. Path(f, k + 1) \in Children(DOMAIN stree, p)
        BY <1>0, <1>6, <2>0, <2>6, <4>1, PathChild
      <4>3. PICK j \in levels : Len(p) = j - 1
        BY <1>5, <4>2
      <4>4. j = k + 1
        BY <1>0, <2>2, <4>3
      <4>5. QED
        BY <4>3, <4>4
    <3>2. \A i \in (k + 1)..d : Bare(f, s, i)
      BY <1>1, <3>0, <3>1
    <3>3. \A i \in k..d : i = k \/ i \in (k + 1)..d
      BY <1>0
    <3>4. QED
      BY <1>1, <2>1, <2>4, <3>2, <3>3
  <2>7. QED
    BY <2>5, <2>6
<1>7. p # Node(f)
  <2>1. SUFFICES ASSUME p = Path(f, d)
                 PROVE  FALSE
    BY DEF Node
  <2>2. d # 0
    BY <1>0, <1>3, <2>1, RootPath
  <2>3. d \in 1..d
    BY <1>0, <2>2
  <2>4. QED
    BY <1>6, <2>1, <2>3
<1>8. Children(DOMAIN stree, p) = {}
  <2>1. SUFFICES ASSUME NEW c \in Children(DOMAIN stree, p)
                 PROVE  FALSE
    BY Zenon
  <2>2. PICK k \in levels : c = Path(f, k) /\ Len(p) = k - 1
    BY <1>5
  <2>3. k \in 0..d /\ k - 1 \in 0..k /\ k - 1 \in 0..d
    BY <1>0
  <2>4. p = SubSeq(c, 1, k - 1)
    BY <2>2 DEF Children, Below
  <2>5. p = Path(f, k - 1)
    BY <1>0, <2>2, <2>3, <2>4, PathPrefix
  <2>6. k - 1 # 0
    BY <1>0, <1>3, <2>5, RootPath
  <2>7. k - 1 \in 1..d
    BY <1>0, <2>3, <2>6
  <2>8. QED
    BY <1>6, <2>5, <2>7
<1>9. stree[p] = {}
  BY <1>4, <1>7 DEF Left
<1>10. QED
  BY <1>3, <1>4, <1>8, <1>9 DEF LeavesInUse, ErrorLeaf

\* The tree does not fill up with dead branches: a leaf without subscribers is
\* one that a failing sinsert has made.
THEOREM NoDeadBranches == Spec => []LeavesInUse
<1>1. Init => LeavesInUse
  BY DEF Init, LeavesInUse
<1>2. TypeOK /\ LeavesInUse /\ [Next]_stree => LeavesInUse'
  <2> SUFFICES ASSUME TypeOK, LeavesInUse, [Next]_stree
               PROVE  LeavesInUse'
    OBVIOUS
  <2>1. CASE UNCHANGED stree
    BY <2>1 DEF LeavesInUse
  <2>2. ASSUME NEW f \in Filters, NEW q, NEW s \in Subs, Subscribe(f, q, s)
        PROVE  LeavesInUse'
    <3>1. /\ Node(f) \in InsertPaths(f)
          /\ DOMAIN stree' = DOMAIN stree \cup InsertPaths(f)
          /\ \A p \in DOMAIN stree' :
                stree'[p] = IF p = Node(f)
                              THEN (Old(p) \ EntriesOf(Old(p), s))
                                      \cup {[sub |-> s, qos |-> q]}
                              ELSE Old(p)
      BY <2>2, Subscribed
    <3>2. \A p \in DOMAIN stree : stree'[p] = {} => stree[p] = {}
      BY <3>1 DEF Old
    <3>3. stree'[Node(f)] # {}
      BY <3>1
    <3>4. QED
      BY <3>1, <3>2, <3>3, InsertLeaves
  <2>3. ASSUME NEW f \in Filters, stree' = Grown(f), Malformed(f)
        PROVE  LeavesInUse'
    <3>1. /\ DOMAIN stree' = DOMAIN stree \cup InsertPaths(f)
          /\ \A p \in DOMAIN stree' : stree'[p] = Old(p)
      BY <2>3, GrownShape
    <3>2. \A p \in DOMAIN stree : stree'[p] = {} => stree[p] = {}
      BY <3>1 DEF Old
    <3>3. QED
      BY <2>3, <3>1, <3>2, InsertLeaves
  <2>4. ASSUME NEW f \in Filters, NEW s \in Subs, Unsubscribe(f, s)
        PROVE  LeavesInUse'
    BY <2>4, RemoveLeaves
  <2>5. QED
    BY <2>1, <2>2, <2>3, <2>4, NextCases
<1>3. QED
  BY <1>1, <1>2, TypeCorrect, PTL DEF Spec

=============================================================================
