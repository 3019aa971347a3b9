-------------------------- MODULE RetainTreeProofs --------------------------
(***************************************************************************)
(* Proofs about RetainTree: for all topics, filters and messages, whatever *)
(* order they are retained and cleared in.                                 *)
(***************************************************************************)
EXTENDS RetainTree, TopicLevelsProofs

\* The message of an rnode is the last one retained under its topic.
TreeIsLast ==
    \A p \in DOMAIN rtree : rtree[p] # NoMsg => p \in Nodes /\ last[p] = rtree[p]

\* The last message of a topic is in the tree while no topic below it has been
\* cleared.
LastIsKept ==
    \A n \in Nodes \ swept :
        last[n] # NoMsg => n \in DOMAIN rtree /\ rtree[n] = last[n]

\* The inductive invariant.
Inv == TypeOK /\ TreeIsLast /\ LastIsKept

\* A node other than the root lies on the way of some topic.
OnTheWay(p) ==
    p # <<>> => \E t \in Topics : \E k \in 1..Depth(t) : p = Path(t, k)

-----------------------------------------------------------------------------
\* The topics and filters are words, as the lemmas of TopicLevelsProofs need.
LEMMA TopicsAreWords ==
    /\ \A t \in Topics : t \in TopicWords
    /\ \A f \in Filters : f \in TopicWords
  BY RetainTreeAssumption, StringTopics DEF RetainTreeAssumption

\* The shape TypeOK gives the tree.
LEMMA TreeShape ==
    ASSUME TypeOK
    PROVE  /\ DOMAIN rtree \subseteq Words
           /\ ParentClosed(DOMAIN rtree)
           /\ \A p \in DOMAIN rtree : OnTheWay(p)
<1>1. \A p \in DOMAIN rtree : OnTheWay(p)
  BY DEF TypeOK, OnTheWay
<1>2. DOMAIN rtree \subseteq Words
  <2>0. <<>> \in Words
    BY DEF Words
  <2>1. SUFFICES ASSUME NEW p \in DOMAIN rtree, p # <<>>
                 PROVE  p \in Words
    BY <2>0
  <2>2. PICK t \in Topics : \E k \in 1..Depth(t) : p = Path(t, k)
    BY <1>1, <2>1 DEF OnTheWay
  <2>3. PICK k \in 0..Depth(t) : p = Path(t, k)
    BY <2>2, TopicsAreWords, DepthBound
  <2>4. QED
    BY <2>3, TopicsAreWords, PathLevels
<1>3. ParentClosed(DOMAIN rtree)
  BY DEF TypeOK, ParentClosed
<1>4. QED
  BY <1>1, <1>2, <1>3

\* The node of a well-formed topic is one an insertion makes.
LEMMA NodeFacts ==
    ASSUME NEW t \in Topics, ~ Malformed(t)
    PROVE  /\ Node(t) \in Nodes
           /\ Node(t) \in InsertPaths(t)
           /\ Node(t) \in Words
<1>1. t \in TopicWords
  BY TopicsAreWords
<1>2. Depth(t) \in 0..Depth(t)
  BY <1>1, DepthBound
<1>3. QED
  BY <1>1, <1>2, Insertion, PathLevels DEF Node, Nodes

\* What rinsertOrUpdate does to the shape of the tree.
LEMMA GrownShape ==
    ASSUME TypeOK, NEW t \in Topics
    PROVE  /\ DOMAIN Grown(t) = DOMAIN rtree \cup InsertPaths(t)
           /\ \A p \in DOMAIN Grown(t) :
                 /\ OnTheWay(p)
                 /\ p # <<>> => SubSeq(p, 1, Len(p) - 1) \in DOMAIN Grown(t)
                 /\ Grown(t)[p] = IF p \in DOMAIN rtree THEN rtree[p] ELSE NoMsg
<1>0. t \in TopicWords
  BY TopicsAreWords
<1>1. DOMAIN Grown(t) = DOMAIN rtree \cup InsertPaths(t)
  BY DEF Grown
<1>2. \A p \in DOMAIN Grown(t) :
          Grown(t)[p] = IF p \in DOMAIN rtree THEN rtree[p] ELSE NoMsg
  BY DEF Grown
<1>3. ASSUME NEW p \in DOMAIN rtree
      PROVE  /\ OnTheWay(p)
             /\ p # <<>> => SubSeq(p, 1, Len(p) - 1) \in DOMAIN rtree
  BY <1>3, TreeShape DEF ParentClosed
<1>4. ASSUME NEW p \in InsertPaths(t)
      PROVE  /\ OnTheWay(p)
             /\ p # <<>> => SubSeq(p, 1, Len(p) - 1) \in InsertPaths(t)
  BY <1>0, InsertParents DEF OnTheWay
<1>5. QED
  BY <1>1, <1>2, <1>3, <1>4

\* Next, action by action.
LEMMA NextCases ==
    ASSUME Next
    PROVE  \E t \in Topics :
              \/ \E m \in Msgs : Retain(t, m)
              \/ RetainFails(t)
              \/ Clear(t)
              \/ UNCHANGED vars
  BY DEF Next, ClearFails

\* The nodes rremove cuts off are those of the topic itself.
LEMMA ClearedBranch ==
    ASSUME TypeOK, NEW t \in Topics, Clear(t)
    PROVE  /\ Node(t) \in Nodes
           /\ \E gone \in SUBSET Words :
                /\ \A p \in gone : p # <<>>
                /\ DOMAIN rtree' = {q \in DOMAIN rtree : \A p \in gone : ~ Below(p, q)}
                /\ \A q \in DOMAIN rtree : q \notin DOMAIN rtree' => Below(q, Node(t))
           /\ \A q \in DOMAIN rtree' :
                 rtree'[q] = IF q = Node(t) THEN NoMsg ELSE rtree[q]
           /\ rtree' \in [DOMAIN rtree' -> Msgs \cup {NoMsg}]
<1> DEFINE d == Depth(t)
           childless(k) ==
               Children(DOMAIN rtree, Path(t, k)) \subseteq
                   (IF k = d THEN {} ELSE {Path(t, k + 1)})
           levels == {j \in 1..d : \A i \in j..d : childless(i)}
           gone == {Path(t, k) : k \in levels}
           keep == {q \in DOMAIN rtree : \A p \in gone : ~ Below(p, q)}
<1>0. t \in TopicWords /\ d \in Nat
  BY TopicsAreWords, DepthBound
<1>1. Node(t) \in Nodes /\ Node(t) \in DOMAIN rtree
  BY NodeFacts DEF Clear, HasNode
<1>2. rtree' = [q \in keep |-> [rtree EXCEPT ![Node(t)] = NoMsg][q]]
  BY DEF Clear, Pruned, Cut, Restrict, TypeOK
<1>3. \A q \in keep : [rtree EXCEPT ![Node(t)] = NoMsg][q]
                          = IF q = Node(t) THEN NoMsg ELSE rtree[q]
  BY <1>1 DEF TypeOK
<1>4. gone \in SUBSET Words /\ \A p \in gone : p # <<>>
  <2>1. SUFFICES ASSUME NEW k \in levels
                 PROVE  Path(t, k) \in Words /\ Path(t, k) # <<>>
    OBVIOUS
  <2>2. k \in 0..d /\ k # 0
    BY <1>0
  <2>3. Path(t, k) \in Words /\ Len(Path(t, k)) = k
    BY <1>0, <2>2, PathLevels
  <2>4. QED
    BY <2>2, <2>3 DEF Words
<1>5. ASSUME NEW q \in DOMAIN rtree, q \notin keep
      PROVE  Below(q, Node(t))
  <2>1. PICK k \in levels : Below(Path(t, k), q)
    BY <1>5
  <2>2. k \in 0..d /\ \A i \in k..d : childless(i)
    BY <1>0
  <2>3. Len(q) \in k..d /\ q = Path(t, Len(q))
    BY <1>0, <2>1, <2>2, TreeShape, LoneBranch
  <2>4. PICK n \in 0..d : q = Path(t, n)
    BY <1>0, <2>2, <2>3
  <2>5. Below(Path(t, n), Path(t, d))
    BY <1>0, <2>4, PathBelow
  <2>6. QED
    BY <2>4, <2>5 DEF Node
<1> HIDE DEF gone
<1>6. DOMAIN rtree' = keep
  BY <1>2
<1>7. \A q \in DOMAIN rtree' :
          rtree'[q] = IF q = Node(t) THEN NoMsg ELSE rtree[q]
  BY <1>2, <1>3
<1>8. rtree' \in [DOMAIN rtree' -> Msgs \cup {NoMsg}]
  BY <1>2, <1>3, <1>6 DEF TypeOK
<1>9. QED
  BY <1>1, <1>4, <1>5, <1>6, <1>7, <1>8

-----------------------------------------------------------------------------
\* Type correctness, agreement of the tree with what was retained: in every
\* reachable state of rinsertOrUpdate and rremove.
THEOREM TreeCorrect == Spec => []Inv
<1> USE RetainTreeAssumption DEF RetainTreeAssumption
<1>1. Init => Inv
  <2> SUFFICES ASSUME Init
               PROVE  Inv
    OBVIOUS
  <2>1. DOMAIN rtree = {<<>>} /\ rtree[<<>>] = NoMsg
    BY DEF Init
  <2>2. TypeOK
    <3>1. rtree \in [DOMAIN rtree -> Msgs \cup {NoMsg}]
      BY DEF Init
    <3>2. QED
      BY <2>1, <3>1 DEF Init, TypeOK
  <2>3. QED
    BY <2>1, <2>2 DEF Init, Inv, TreeIsLast, LastIsKept
<1>2. Inv /\ [Next]_vars => Inv'
  <2> SUFFICES ASSUME Inv, [Next]_vars
               PROVE  Inv'
    OBVIOUS
  <2>0. TypeOK /\ TreeIsLast /\ LastIsKept
    BY DEF Inv
  <2>1. CASE UNCHANGED vars
    <3>1. rtree' = rtree /\ last' = last /\ swept' = swept
      BY <2>1 DEF vars
    <3>2. QED
      BY <2>0, <3>1 DEF Inv, TypeOK, TreeIsLast, LastIsKept
  <2>2. ASSUME NEW t \in Topics, NEW m \in Msgs, Retain(t, m)
        PROVE  Inv'
    <3>1. /\ Node(t) \in Nodes
          /\ Node(t) \in InsertPaths(t)
      BY <2>2, NodeFacts DEF Retain
    <3>2. /\ rtree' = [Grown(t) EXCEPT ![Node(t)] = m]
          /\ last' = [last EXCEPT ![Node(t)] = m]
          /\ swept' = swept \ {Node(t)}
      BY <2>2 DEF Retain
    <3>3. /\ DOMAIN Grown(t) = DOMAIN rtree \cup InsertPaths(t)
          /\ \A p \in DOMAIN Grown(t) :
                /\ OnTheWay(p)
                /\ p # <<>> => SubSeq(p, 1, Len(p) - 1) \in DOMAIN Grown(t)
                /\ Grown(t)[p] = IF p \in DOMAIN rtree THEN rtree[p] ELSE NoMsg
      BY <2>0, GrownShape
    <3>4. /\ DOMAIN rtree' = DOMAIN rtree \cup InsertPaths(t)
          /\ \A p \in DOMAIN rtree' :
                rtree'[p] = IF p = Node(t) THEN m
                            ELSE IF p \in DOMAIN rtree THEN rtree[p] ELSE NoMsg
          /\ rtree' \in [DOMAIN rtree' -> Msgs \cup {NoMsg}]
      <4>1. DOMAIN rtree' = DOMAIN Grown(t) /\ rtree' = [p \in DOMAIN Grown(t) |->
                IF p = Node(t) THEN m ELSE Grown(t)[p]]
        BY <3>2 DEF Grown
      <4>2. \A p \in DOMAIN rtree : rtree[p] \in Msgs \cup {NoMsg}
        BY <2>0 DEF TypeOK
      <4>3. QED
        BY <3>3, <4>1, <4>2
    <3>5. /\ \A n \in Nodes : last'[n] = IF n = Node(t) THEN m ELSE last[n]
          /\ last' \in [Nodes -> Msgs \cup {NoMsg}]
      BY <2>0, <3>1, <3>2 DEF TypeOK
    <3>6. TypeOK'
      BY <2>0, <3>2, <3>3, <3>4, <3>5 DEF TypeOK, OnTheWay
    <3>7. TreeIsLast'
      BY <2>0, <3>1, <3>4, <3>5 DEF TreeIsLast
    <3>8. LastIsKept'
      BY <2>0, <3>1, <3>2, <3>4, <3>5 DEF LastIsKept
    <3>9. QED
      BY <3>6, <3>7, <3>8 DEF Inv
  <2>3. ASSUME NEW t \in Topics, RetainFails(t)
        PROVE  Inv'
    <3>1. rtree' = Grown(t) /\ last' = last /\ swept' = swept
      BY <2>3 DEF RetainFails
    <3>2. /\ DOMAIN rtree' = DOMAIN rtree \cup InsertPaths(t)
          /\ \A p \in DOMAIN rtree' :
                /\ OnTheWay(p)
                /\ p # <<>> => SubSeq(p, 1, Len(p) - 1) \in DOMAIN rtree'
                /\ rtree'[p] = IF p \in DOMAIN rtree THEN rtree[p] ELSE NoMsg
      BY <2>0, <3>1, GrownShape
    <3>3. rtree' \in [DOMAIN rtree' -> Msgs \cup {NoMsg}]
      <4>1. \A p \in DOMAIN rtree : rtree[p] \in Msgs \cup {NoMsg}
        BY <2>0 DEF TypeOK
      <4>2. QED
        BY <3>1, <3>2, <4>1 DEF Grown
    <3>4. TypeOK'
      BY <2>0, <3>1, <3>2, <3>3 DEF TypeOK, OnTheWay
    <3>5. QED
      BY <2>0, <3>1, <3>2, <3>4 DEF Inv, TreeIsLast, LastIsKept
  <2>4. ASSUME NEW t \in Topics, Clear(t)
        PROVE  Inv'
    <3>1. /\ Node(t) \in Nodes
          /\ \A q \in DOMAIN rtree' :
                rtree'[q] = IF q = Node(t) THEN NoMsg ELSE rtree[q]
          /\ rtree' \in [DOMAIN rtree' -> Msgs \cup {NoMsg}]
      BY <2>0, <2>4, ClearedBranch
    <3>2. PICK gone \in SUBSET Words :
              /\ \A p \in gone : p # <<>>
              /\ DOMAIN rtree' = {q \in DOMAIN rtree : \A p \in gone : ~ Below(p, q)}
              /\ \A q \in DOMAIN rtree : q \notin DOMAIN rtree' => Below(q, Node(t))
      BY <2>0, <2>4, ClearedBranch
    <3>3. /\ last' = [last EXCEPT ![Node(t)] = NoMsg]
          /\ swept' = (swept \cup {n \in Nodes : n # Node(t) /\ Below(n, Node(t))})
                          \ {Node(t)}
      BY <2>4 DEF Clear
    <3>4. /\ \A n \in Nodes : last'[n] = IF n = Node(t) THEN NoMsg ELSE last[n]
          /\ last' \in [Nodes -> Msgs \cup {NoMsg}]
          /\ swept' \subseteq Nodes
      BY <2>0, <3>1, <3>3 DEF TypeOK
    <3>5. TypeOK'
      <4>1. /\ DOMAIN rtree \subseteq Words
            /\ ParentClosed(DOMAIN rtree)
            /\ \A p \in DOMAIN rtree : OnTheWay(p)
        BY <2>0, TreeShape
      <4>2. ParentClosed(DOMAIN rtree')
        BY <3>2, <4>1, CutParents
      <4>3. <<>> \in DOMAIN rtree'
        <5>1. <<>> \in DOMAIN rtree /\ <<>> \in Words
          BY <2>0 DEF TypeOK, Words
        <5>2. ASSUME NEW p \in Words, p # <<>>
              PROVE  ~ Below(p, <<>>)
          BY <5>2 DEF Words, Below
        <5>3. QED
          BY <3>2, <5>1, <5>2
      <4>4. DOMAIN rtree' \subseteq DOMAIN rtree
        BY <3>2
      <4>5. QED
        BY <3>1, <3>4, <4>1, <4>2, <4>3, <4>4 DEF TypeOK, OnTheWay, ParentClosed
    <3>6. TreeIsLast'
      BY <2>0, <3>1, <3>2, <3>4 DEF TreeIsLast
    <3>7. LastIsKept'
      BY <2>0, <3>1, <3>2, <3>3, <3>4 DEF LastIsKept
    <3>8. QED
      BY <3>5, <3>6, <3>7 DEF Inv
  <2>5. QED
    BY <2>1, <2>2, <2>3, <2>4, NextCases
<1>3. QED
  BY <1>1, <1>2, PTL DEF Spec

-----------------------------------------------------------------------------
\* What Matches means for the filter of a SUBSCRIBE, in terms of the levels
\* that rmatch looks at.
LEMMA FilterMatches ==
    ASSUME NEW f \in TopicWords, NEW p \in Words
    PROVE  Matches(Node(f), p) <=>
              IF Depth(f) > 0 /\ f[Depth(f)] = MWC
                THEN /\ Len(p) >= Depth(f) - 1
                     /\ \A i \in 1..(Depth(f) - 1) : Level(f, i) \in {SWC, p[i]}
                ELSE /\ Len(p) = Depth(f)
                     /\ \A i \in 1..Depth(f) : Level(f, i) \in {SWC, p[i]}
<1>1. Depth(f) \in Nat
  BY DepthBound
<1>2. /\ Len(Node(f)) = Depth(f)
      /\ \A i \in 1..Depth(f) : Node(f)[i] = Level(f, i)
  <2>1. Depth(f) \in 0..Depth(f)
    BY <1>1
  <2>2. QED
    BY <2>1, PathLevels DEF Node
<1>3. Depth(f) > 0 => (Node(f)[Depth(f)] = MWC <=> f[Depth(f)] = MWC)
  <2>1. SUFFICES ASSUME Depth(f) > 0
                 PROVE  Level(f, Depth(f)) = MWC <=> f[Depth(f)] = MWC
    <3>1. Depth(f) > 0 => Depth(f) \in 1..Depth(f)
      BY <1>1
    <3>2. QED
      BY <1>2, <2>1, <3>1
  <2>2. QED
    BY Zenon DEF Level, SWC, MWC
<1>4. \A k \in 0..Depth(f) : (\A i \in 1..k : Node(f)[i] \in {SWC, p[i]})
                               <=> (\A i \in 1..k : Level(f, i) \in {SWC, p[i]})
  BY <1>1, <1>2
<1>5. CASE Depth(f) > 0 /\ f[Depth(f)] = MWC
  <2>1. Matches(Node(f), p) <=>
            /\ Len(p) >= Depth(f) - 1
            /\ \A i \in 1..(Depth(f) - 1) : Node(f)[i] \in {SWC, p[i]}
    BY <1>2, <1>3, <1>5, Zenon DEF Matches
  <2>2. Depth(f) - 1 \in 0..Depth(f)
    BY <1>1, <1>5
  <2>3. QED
    BY <1>4, <1>5, <2>1, <2>2
<1>6. CASE ~ (Depth(f) > 0 /\ f[Depth(f)] = MWC)
  <2>1. Matches(Node(f), p) <=>
            /\ Len(p) = Depth(f)
            /\ \A i \in 1..Depth(f) : Node(f)[i] \in {SWC, p[i]}
    BY <1>2, <1>3, <1>6, Zenon DEF Matches
  <2>2. Depth(f) \in 0..Depth(f)
    BY <1>1
  <2>3. QED
    BY <1>4, <1>6, <2>1, <2>2
<1>7. QED
  BY <1>5, <1>6

\* rmatch collects exactly the messages of the nodes that the filter matches:
\* descending level by level, and taking a whole branch for a final "#", is
\* the same as comparing the filter with every path.
LEMMA CollectsMatches ==
    ASSUME TypeOK, NEW f \in Filters, ~ Malformed(f)
    PROVE  Retained(f) =
              {rtree[p] : p \in {q \in DOMAIN rtree : Matches(Node(f), q)}} \ {NoMsg}
<1> DEFINE d == Depth(f)
           multi == d > 0 /\ f[d] = MWC
           match == {q \in DOMAIN rtree : Matches(Node(f), q)}
<1>0. f \in TopicWords /\ d \in Nat
  BY TopicsAreWords, DepthBound
<1>1. DOMAIN rtree \subseteq Words /\ ParentClosed(DOMAIN rtree)
  BY TreeShape
<1>2. CASE multi
  <2> DEFINE found == {q \in DOMAIN rtree : \E p \in Visited(f, d - 1) : Below(p, q)}
  <2>1. Retained(f) = {rtree[p] : p \in found} \ {NoMsg}
    BY <1>2 DEF Retained
  <2>2. ASSUME NEW q \in DOMAIN rtree
        PROVE  Matches(Node(f), q) <=>
                   \E p \in Visited(f, d - 1) : Below(p, q)
    <3>0. q \in Words /\ Len(q) \in Nat
      BY <1>1 DEF Words
    <3>1. Matches(Node(f), q) <=>
              /\ Len(q) >= d - 1
              /\ \A i \in 1..(d - 1) : Level(f, i) \in {SWC, q[i]}
      BY <1>0, <1>2, <3>0, FilterMatches
    <3>2. ASSUME NEW p \in Visited(f, d - 1), Below(p, q)
          PROVE  Matches(Node(f), q)
      <4>1. /\ p \in Words
            /\ Len(p) = d - 1
            /\ \A i \in 1..(d - 1) : Level(f, i) \in {SWC, p[i]}
        BY <1>1 DEF Visited
      <4>2. Len(p) <= Len(q) /\ \A i \in 1..Len(p) : p[i] = q[i]
        BY <3>0, <3>2, <4>1, BelowLevels
      <4>3. QED
        BY <1>0, <3>0, <3>1, <4>1, <4>2
    <3>3. ASSUME Matches(Node(f), q)
          PROVE  \E p \in Visited(f, d - 1) : Below(p, q)
      <4>1. d - 1 \in 0..Len(q)
        BY <1>0, <1>2, <3>0, <3>1, <3>3
      <4>2. PICK p \in DOMAIN rtree : p = SubSeq(q, 1, d - 1)
        BY <1>1, <4>1, AllPrefixes
      <4>3. p \in Words /\ Len(p) = d - 1 /\ \A i \in 1..(d - 1) : p[i] = q[i]
        BY <3>0, <4>1, <4>2, Prefix
      <4>4. Below(p, q)
        BY <3>0, <4>1, <4>3, BelowLevels
      <4>5. p \in Visited(f, d - 1)
        BY <3>1, <3>3, <4>3 DEF Visited
      <4>6. QED
        BY <4>4, <4>5
    <3>4. QED
      BY <3>2, <3>3
  <2>3. found = match
    BY <2>2
  <2>4. QED
    BY <2>1, <2>3
<1>3. CASE ~ multi
  <2>1. Retained(f) = {rtree[p] : p \in Visited(f, d)} \ {NoMsg}
    BY <1>3 DEF Retained
  <2>2. \A q \in DOMAIN rtree : Matches(Node(f), q) <=>
            /\ Len(q) = d
            /\ \A i \in 1..d : Level(f, i) \in {SWC, q[i]}
    BY <1>0, <1>1, <1>3, FilterMatches
  <2>3. Visited(f, d) = match
    BY <2>2 DEF Visited
  <2>4. QED
    BY <2>1, <2>3
<1>4. QED
  BY <1>2, <1>3

-----------------------------------------------------------------------------
\* Type correctness of the retained tree: every rnode hangs under its parent,
\* on the way of some topic.
THEOREM TypeCorrect == Spec => []TypeOK
<1>1. Inv => TypeOK
  BY DEF Inv
<1>2. QED
  BY <1>1, TreeCorrect, PTL

\* Retained never returns a message that was replaced or cleared, nor one of
\* a topic the filter does not match.
THEOREM Fresh == Spec => []RetainedIsFresh
<1>1. Inv => RetainedIsFresh
  <2> SUFFICES ASSUME Inv, NEW f \in Filters, ~ Malformed(f), NEW x \in Retained(f)
               PROVE  x \in {last[n] : n \in {m \in Nodes : Matches(Node(f), m)}}
    BY DEF RetainedIsFresh
  <2>0. TypeOK /\ TreeIsLast
    BY DEF Inv
  <2>1. PICK p \in DOMAIN rtree :
            x = rtree[p] /\ x # NoMsg /\ Matches(Node(f), p)
    BY <2>0, CollectsMatches
  <2>2. p \in Nodes /\ last[p] = x
    BY <2>0, <2>1 DEF TreeIsLast
  <2>3. QED
    BY <2>1, <2>2
<1>2. QED
  BY <1>1, TreeCorrect, PTL

\* Every filter that matches a topic is given its retained message, as long
\* as rremove has not cleared a topic below it since.
THEOREM Found == Spec => []RetainedIsFound
<1>1. Inv => RetainedIsFound
  <2> SUFFICES ASSUME Inv, NEW f \in Filters, NEW n \in Nodes \ swept,
                      ~ Malformed(f), Matches(Node(f), n), last[n] # NoMsg
               PROVE  last[n] \in Retained(f)
    BY DEF RetainedIsFound
  <2>0. TypeOK /\ LastIsKept
    BY DEF Inv
  <2>1. n \in DOMAIN rtree /\ rtree[n] = last[n]
    BY <2>0 DEF LastIsKept
  <2>2. QED
    BY <2>0, <2>1, CollectsMatches
<1>2. QED
  BY <1>1, TreeCorrect, PTL

=============================================================================
