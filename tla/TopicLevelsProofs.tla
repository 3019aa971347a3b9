------------------------- MODULE TopicLevelsProofs -------------------------
(***************************************************************************)
(* Facts about paths, prefixes and matching that the proofs about the two  *)
(* trees of memtopics.go share.                                            *)
(***************************************************************************)
EXTENDS TopicLevels, WellFoundedInduction, SequenceTheorems, TLAPS

\* STRING has the wildcards, but the provers do not know a literal for one of
\* its elements.
Strings == STRING \cup {SWC, MWC}

\* Paths of nodes, and the topics a tree can be given.
Words == Seq(Strings)
TopicWords == Words \ {<<>>}

\* Every node has its parent.
ParentClosed(nodes) ==
    \A q \in nodes : q # <<>> => SubSeq(q, 1, Len(q) - 1) \in nodes

-----------------------------------------------------------------------------
\* The least number principle, in the form the provers can use: every set of
\* naturals that has an element has a least one.
LEMMA LeastElement ==
    ASSUME NEW T, T \subseteq Nat, T # {}
    PROVE  \E x \in T : \A y \in T : x <= y
<1> DEFINE R == OpToRel(<, Nat)
<1>1. \A x, y \in Nat : y < x => <<y, x>> \in R
  BY DEF OpToRel
<1>2. IsWellFoundedOn(R, Nat)
  BY NatLessThanWellFounded
<1> HIDE DEF R
<1>3. PICK x \in T : \A y \in T : ~ (<<y, x>> \in R)
  BY <1>2, WFMin
<1>4. \A y \in T : ~ (y < x)
  BY <1>1, <1>3, Zenon
<1>5. \A y \in T : x <= y
  BY <1>4
<1>6. QED
  BY <1>5

\* A prefix of a path is the path of its first levels.
LEMMA Prefix ==
    ASSUME NEW q \in Words, NEW k \in 0..Len(q)
    PROVE  /\ SubSeq(q, 1, k) \in Words
           /\ Len(SubSeq(q, 1, k)) = k
           /\ \A i \in 1..k : SubSeq(q, 1, k)[i] = q[i]
  BY DEF Words

\* Two paths with the same levels are the same.
LEMMA SameLevels ==
    ASSUME NEW p \in Words, NEW q \in Words, Len(p) = Len(q),
           \A i \in 1..Len(p) : p[i] = q[i]
    PROVE  p = q
  BY SeqEqual DEF Words

\* Below compares the levels of the shorter path.
LEMMA BelowLevels ==
    ASSUME NEW p \in Words, NEW q \in Words
    PROVE  Below(p, q) <=> /\ Len(p) <= Len(q)
                           /\ \A i \in 1..Len(p) : p[i] = q[i]
<1>1. Len(p) \in Nat /\ Len(q) \in Nat
  BY DEF Words
<1>2. CASE ~ (Len(p) <= Len(q))
  BY <1>1, <1>2 DEF Below
<1>3. CASE Len(p) <= Len(q)
  <2>1. /\ SubSeq(q, 1, Len(p)) \in Words
        /\ Len(SubSeq(q, 1, Len(p))) = Len(p)
        /\ \A i \in 1..Len(p) : SubSeq(q, 1, Len(p))[i] = q[i]
    BY <1>1, <1>3, Prefix
  <2>2. SubSeq(q, 1, Len(p)) = p <=> \A i \in 1..Len(p) : p[i] = q[i]
    BY <2>1, SameLevels
  <2>3. QED
    BY <1>1, <1>3, <2>2 DEF Below
<1>4. QED
  BY <1>2, <1>3

\* The topics the trees are given are sequences of strings.
LEMMA StringTopics ==
    ASSUME NEW t \in Seq(STRING) \ {<<>>}
    PROVE  t \in TopicWords
<1>1. STRING \subseteq Strings
  BY DEF Strings
<1>2. Seq(STRING) \subseteq Seq(Strings)
  BY <1>1, SeqMonotonic
<1>3. QED
  BY <1>2 DEF TopicWords, Words

-----------------------------------------------------------------------------
\* What the recursions of memtopics.go reach: Depth never exceeds the number
\* of levels, and the path to each node holds the levels passed.
LEMMA DepthBound ==
    ASSUME NEW t \in TopicWords
    PROVE  /\ Len(t) \in Nat \ {0}
           /\ Depth(t) \in 0..Len(t)
<1>1. t \in Seq(Strings) /\ t # <<>>
  BY DEF TopicWords, Words
<1>2. Len(t) \in Nat \ {0}
  BY <1>1
<1>3. Depth(t) = Len(t) - 1 \/ Depth(t) = Len(t)
  BY Zenon DEF Depth
<1>4. QED
  BY <1>2, <1>3

\* Every level nextTopicLevel hands out while it walks a topic is a word.
LEMMA LevelIsWord ==
    ASSUME NEW t \in TopicWords, NEW i \in 1..Depth(t)
    PROVE  Level(t, i) \in Strings
<1>1. t \in Seq(Strings) /\ i \in 1..Len(t)
  BY DepthBound DEF TopicWords, Words
<1>2. t[i] \in Strings
  BY <1>1
<1>3. Level(t, i) = SWC \/ Level(t, i) = t[i]
  BY DEF Level
<1>4. SWC \in Strings
  BY DEF Strings
<1>5. QED
  BY <1>2, <1>3, <1>4

\* The path of the first k levels of a topic has length k and reads, position by
\* position, the levels nextTopicLevel hands out.
LEMMA PathLevels ==
    ASSUME NEW t \in TopicWords, NEW k \in 0..Depth(t)
    PROVE  /\ Path(t, k) \in Words
           /\ Len(Path(t, k)) = k
           /\ \A i \in 1..k : Path(t, k)[i] = Level(t, i)
<1>1. \A i \in 1..k : Level(t, i) \in Strings
  BY DepthBound, LevelIsWord
<1>2. k \in Nat
  BY DepthBound
<1>3. QED
  BY <1>1, <1>2, IsASeq DEF Path, Words

\* The path after no level is the root.
LEMMA RootPath ==
    ASSUME NEW t \in TopicWords
    PROVE  Path(t, 0) = <<>>
<1>1. Path(t, 0) \in Seq(Strings) /\ Len(Path(t, 0)) = 0
  BY DepthBound, PathLevels DEF Words
<1>2. QED
  BY <1>1

\* The parent of the node after k levels is the node after k - 1.
LEMMA PathPrefix ==
    ASSUME NEW t \in TopicWords, NEW k \in 0..Depth(t), NEW j \in 0..k
    PROVE  SubSeq(Path(t, k), 1, j) = Path(t, j)
<1>0. Depth(t) \in Nat /\ j \in 0..Depth(t)
  BY DepthBound
<1>1. /\ Path(t, k) \in Words
      /\ Len(Path(t, k)) = k
      /\ \A i \in 1..k : Path(t, k)[i] = Level(t, i)
  BY PathLevels
<1>2. /\ Path(t, j) \in Words
      /\ Len(Path(t, j)) = j
      /\ \A i \in 1..j : Path(t, j)[i] = Level(t, i)
  BY <1>0, PathLevels
<1>3. /\ SubSeq(Path(t, k), 1, j) \in Words
      /\ Len(SubSeq(Path(t, k), 1, j)) = j
      /\ \A i \in 1..j : SubSeq(Path(t, k), 1, j)[i] = Path(t, k)[i]
  BY <1>1, Prefix
<1>4. \A i \in 1..j : SubSeq(Path(t, k), 1, j)[i] = Path(t, j)[i]
  BY <1>0, <1>1, <1>2, <1>3
<1>5. QED
  BY <1>2, <1>3, <1>4, SameLevels

\* A path is Below another one of the same topic when it is longer.
LEMMA PathBelow ==
    ASSUME NEW t \in TopicWords, NEW k \in 0..Depth(t), NEW j \in 0..Depth(t)
    PROVE  Below(Path(t, j), Path(t, k)) <=> j <= k
<1>1. /\ Len(Path(t, k)) = k
      /\ Len(Path(t, j)) = j
  BY PathLevels
<1>2. Depth(t) \in Nat
  BY DepthBound
<1>3. j <= k => SubSeq(Path(t, k), 1, j) = Path(t, j)
  BY <1>2, PathPrefix
<1>4. QED
  BY <1>1, <1>2, <1>3 DEF Below

\* A malformed topic has a first bad level: an insertion stops somewhere.
LEMMA FirstErrorExists ==
    ASSUME NEW t \in TopicWords, Malformed(t)
    PROVE  \E k \in 1..Depth(t) : FirstError(t, k)
<1> DEFINE Bad == {i \in 1..Depth(t) : LevelError(t, i)}
<1>1. Depth(t) \in Nat
  BY DepthBound
<1>2. Bad \subseteq Nat /\ Bad # {}
  BY <1>1 DEF Malformed
<1>3. PICK k \in Bad : \A j \in Bad : k <= j
  BY <1>2, LeastElement
<1>4. k \in 1..Depth(t) /\ LevelError(t, k)
  OBVIOUS
<1>5. ASSUME NEW i \in 1..(k - 1)
      PROVE  ~ LevelError(t, i)
  <2>1. i \in 1..Depth(t) /\ ~ (k <= i)
    BY <1>1, <1>4
  <2>2. QED
    BY <1>3, <2>1
<1>6. QED
  BY <1>4, <1>5 DEF FirstError

\* The nodes an insertion visits: the root, and with a node its parent; for a
\* well-formed topic every node of the topic, for one whose first bad level
\* is k those of the levels before it.
LEMMA Insertion ==
    ASSUME NEW t \in TopicWords
    PROVE  /\ \A p \in InsertPaths(t) : \E k \in 0..Depth(t) : p = Path(t, k)
           /\ <<>> \in InsertPaths(t)
           /\ \A k \in 1..Depth(t) :
                 Path(t, k) \in InsertPaths(t) => Path(t, k - 1) \in InsertPaths(t)
           /\ ~ Malformed(t) => \A k \in 0..Depth(t) : Path(t, k) \in InsertPaths(t)
           /\ \A k \in 1..Depth(t) : FirstError(t, k) =>
                 \A j \in 0..Depth(t) : Path(t, j) \in InsertPaths(t) <=> j < k
<1> DEFINE Good(j) == \A i \in 1..j : ~ LevelError(t, i)
<1>0. Depth(t) \in Nat
  BY DepthBound
<1>1. InsertPaths(t) = {Path(t, k) : k \in {j \in 0..Depth(t) : Good(j)}}
  BY DEF InsertPaths
<1>2. ASSUME NEW k \in 0..Depth(t), NEW j \in 0..Depth(t), Path(t, k) = Path(t, j)
      PROVE  k = j
  BY <1>2, PathLevels
<1>3. \A k \in 0..Depth(t) : Path(t, k) \in InsertPaths(t) <=> Good(k)
  BY <1>1, <1>2
<1>4. \A p \in InsertPaths(t) : \E k \in 0..Depth(t) : p = Path(t, k)
  BY <1>1
<1>5. <<>> \in InsertPaths(t)
  <2>1. Good(0)
    OBVIOUS
  <2>2. QED
    BY <1>0, <1>3, <2>1, RootPath
<1>6. ASSUME NEW k \in 1..Depth(t), Path(t, k) \in InsertPaths(t)
      PROVE  Path(t, k - 1) \in InsertPaths(t)
  <2>1. Good(k) /\ k \in 0..Depth(t) /\ k - 1 \in 0..Depth(t)
    BY <1>0, <1>3, <1>6
  <2>2. Good(k - 1)
    BY <2>1
  <2>3. QED
    BY <1>3, <2>1, <2>2
<1>7. ASSUME ~ Malformed(t), NEW k \in 0..Depth(t)
      PROVE  Path(t, k) \in InsertPaths(t)
  <2>1. Good(k)
    BY <1>0, <1>7 DEF Malformed
  <2>2. QED
    BY <1>3, <2>1
<1>8. ASSUME NEW k \in 1..Depth(t), FirstError(t, k), NEW j \in 0..Depth(t)
      PROVE  Path(t, j) \in InsertPaths(t) <=> j < k
  <2>1. LevelError(t, k) /\ \A i \in 1..(k - 1) : ~ LevelError(t, i)
    BY <1>8 DEF FirstError
  <2>2. Good(j) <=> j < k
    BY <1>0, <2>1
  <2>3. QED
    BY <1>3, <2>2
<1> HIDE DEF Good
<1>9. QED
  BY <1>4, <1>5, <1>6, <1>7, <1>8

\* An insertion makes nodes of its topic, each with its parent.
LEMMA InsertParents ==
    ASSUME NEW t \in TopicWords, NEW p \in InsertPaths(t), p # <<>>
    PROVE  /\ \E k \in 1..Depth(t) : p = Path(t, k)
           /\ SubSeq(p, 1, Len(p) - 1) \in InsertPaths(t)
<1>1. PICK k \in 0..Depth(t) : p = Path(t, k)
  BY Insertion
<1>2. k # 0
  BY <1>1, RootPath
<1>3. k \in 1..Depth(t) /\ k - 1 \in 0..k /\ Len(p) - 1 = k - 1
  BY <1>1, <1>2, DepthBound, PathLevels
<1>4. SubSeq(p, 1, k - 1) = Path(t, k - 1)
  BY <1>1, <1>3, PathPrefix
<1>5. Path(t, k - 1) \in InsertPaths(t)
  BY <1>1, <1>3, Insertion
<1>6. QED
  BY <1>1, <1>3, <1>4, <1>5

\* In a tree in which every node has its parent, every node has every prefix.
LEMMA AllPrefixes ==
    ASSUME NEW nodes, nodes \subseteq Words, ParentClosed(nodes),
           NEW q \in nodes, NEW k \in 0..Len(q)
    PROVE  SubSeq(q, 1, k) \in nodes
<1>0. q \in Words /\ Len(q) \in Nat
  BY DEF Words
<1> DEFINE Missing == {j \in 0..Len(q) : SubSeq(q, 1, Len(q) - j) \notin nodes}
<1>1. SUFFICES Missing = {}
  <2>1. Len(q) - k \in 0..Len(q) /\ Len(q) - (Len(q) - k) = k
    BY <1>0
  <2>2. Len(q) - k \notin Missing
    BY <1>1
  <2>3. QED
    BY <2>1, <2>2
<1>2. SUFFICES ASSUME Missing # {}
               PROVE  FALSE
  OBVIOUS
<1>3. PICK j \in Missing : \A i \in Missing : j <= i
  <2>1. Missing \subseteq Nat
    BY <1>0
  <2> HIDE DEF Missing
  <2>2. QED
    BY <1>2, <2>1, LeastElement
<1>4. j \in 0..Len(q) /\ SubSeq(q, 1, Len(q) - j) \notin nodes
  OBVIOUS
<1>5. j # 0
  <2>1. /\ SubSeq(q, 1, Len(q)) \in Words
        /\ Len(SubSeq(q, 1, Len(q))) = Len(q)
        /\ \A i \in 1..Len(q) : SubSeq(q, 1, Len(q))[i] = q[i]
    BY <1>0, Prefix
  <2>2. SubSeq(q, 1, Len(q)) = q
    BY <1>0, <2>1, SameLevels
  <2>3. j = 0 => Len(q) - j = Len(q)
    BY <1>0
  <2>4. QED
    BY <1>4, <2>2, <2>3
<1> DEFINE n == Len(q) - j
           p == SubSeq(q, 1, n + 1)
<1>6. n \in 0..(Len(q) - 1) /\ j - 1 \in 0..Len(q) /\ Len(q) - (j - 1) = n + 1
  BY <1>0, <1>4, <1>5
<1>7. p \in nodes
  <2>1. j - 1 \notin Missing
    BY <1>3, <1>4
  <2>2. QED
    BY <1>6, <2>1
<1>8. /\ p \in Words
      /\ Len(p) = n + 1
      /\ \A i \in 1..(n + 1) : p[i] = q[i]
  BY <1>0, <1>6, Prefix
<1> HIDE DEF p
<1>9. SubSeq(p, 1, n) \in nodes
  <2>1. p # <<>>
    BY <1>6, <1>8 DEF Words
  <2>2. Len(p) - 1 = n
    BY <1>6, <1>8
  <2>3. QED
    BY <1>7, <2>1, <2>2 DEF ParentClosed
<1>10. SubSeq(p, 1, n) = SubSeq(q, 1, n)
  <2>1. /\ SubSeq(p, 1, n) \in Words
        /\ Len(SubSeq(p, 1, n)) = n
        /\ \A i \in 1..n : SubSeq(p, 1, n)[i] = p[i]
    <3>1. n \in 0..Len(p)
      BY <1>0, <1>4, <1>6, <1>8
    <3>2. QED
      BY <1>8, <3>1, Prefix
  <2>2. /\ SubSeq(q, 1, n) \in Words
        /\ Len(SubSeq(q, 1, n)) = n
        /\ \A i \in 1..n : SubSeq(q, 1, n)[i] = q[i]
    BY <1>0, <1>6, Prefix
  <2>3. \A i \in 1..n : SubSeq(p, 1, n)[i] = SubSeq(q, 1, n)[i]
    BY <1>6, <1>8, <2>1, <2>2
  <2>4. QED
    BY <2>1, <2>2, <2>3, SameLevels
<1>11. QED
  BY <1>4, <1>9, <1>10

\* The child of a node on the way to another one.
LEMMA NextOnTheWay ==
    ASSUME NEW q \in Words, NEW k \in Nat, k < Len(q)
    PROVE  /\ SubSeq(q, 1, k) \in Words
           /\ SubSeq(q, 1, k + 1) \in Words
           /\ Len(SubSeq(q, 1, k)) = k
           /\ Len(SubSeq(q, 1, k + 1)) = k + 1
           /\ Below(SubSeq(q, 1, k), SubSeq(q, 1, k + 1))
<1>0. Len(q) \in Nat
  BY DEF Words
<1>1. k \in 0..Len(q) /\ k + 1 \in 0..Len(q)
  BY <1>0
<1>2. /\ SubSeq(q, 1, k) \in Words
      /\ Len(SubSeq(q, 1, k)) = k
      /\ \A i \in 1..k : SubSeq(q, 1, k)[i] = q[i]
  BY <1>1, Prefix
<1>3. /\ SubSeq(q, 1, k + 1) \in Words
      /\ Len(SubSeq(q, 1, k + 1)) = k + 1
      /\ \A i \in 1..(k + 1) : SubSeq(q, 1, k + 1)[i] = q[i]
  BY <1>1, Prefix
<1>4. \A i \in 1..k : SubSeq(q, 1, k)[i] = SubSeq(q, 1, k + 1)[i]
  BY <1>2, <1>3
<1>5. Below(SubSeq(q, 1, k), SubSeq(q, 1, k + 1))
  <2>1. PICK u \in Words : u = SubSeq(q, 1, k)
    BY <1>2
  <2>2. PICK v \in Words : v = SubSeq(q, 1, k + 1)
    BY <1>3
  <2>3. Len(u) = k /\ Len(v) = k + 1 /\ \A i \in 1..Len(u) : u[i] = v[i]
    BY <1>2, <1>3, <1>4, <2>1, <2>2
  <2>4. Below(u, v)
    BY <2>3, BelowLevels
  <2>5. QED
    BY <2>1, <2>2, <2>4
<1>6. QED
  BY <1>2, <1>3, <1>5

\* The way back of sremove and rremove.  When every node of a topic from level
\* k on has at most the next node of the topic as a child, the nodes at and
\* below level k are nodes of the topic: deleting that branch can hit nothing
\* else.
LEMMA LoneBranch ==
    ASSUME NEW nodes, nodes \subseteq Words, ParentClosed(nodes),
           NEW t \in TopicWords, NEW k \in 0..Depth(t),
           \A i \in k..Depth(t) : Children(nodes, Path(t, i)) \subseteq
               (IF i = Depth(t) THEN {} ELSE {Path(t, i + 1)}),
           NEW q \in nodes, Below(Path(t, k), q)
    PROVE  Len(q) \in k..Depth(t) /\ q = Path(t, Len(q))
<1>0. Depth(t) \in Nat /\ q \in Words /\ Len(q) \in Nat
  BY DepthBound DEF Words
<1>1. k <= Len(q) /\ SubSeq(q, 1, k) = Path(t, k)
  <2>1. Len(Path(t, k)) = k
    BY PathLevels
  <2>2. QED
    BY <2>1 DEF Below
<1> DEFINE On(i) == i <= Depth(t) /\ SubSeq(q, 1, i) = Path(t, i)
           Off == {i \in k..Len(q) : ~ On(i)}
<1>2. ASSUME NEW i \in k..Len(q), On(i), i # Len(q)
      PROVE  On(i + 1)
  <2>1. i \in Nat /\ i < Len(q) /\ i + 1 \in 0..Len(q) /\ i \in k..Depth(t)
    BY <1>0, <1>2
  <2>2. SubSeq(q, 1, i + 1) \in nodes
    BY <2>1, AllPrefixes
  <2>3. SubSeq(q, 1, i + 1) \in Children(nodes, Path(t, i))
    <3>1. /\ Len(SubSeq(q, 1, i)) = i
          /\ Len(SubSeq(q, 1, i + 1)) = i + 1
          /\ Below(SubSeq(q, 1, i), SubSeq(q, 1, i + 1))
      BY <1>0, <2>1, NextOnTheWay
    <3>2. SubSeq(q, 1, i) = Path(t, i)
      BY <1>2
    <3>3. QED
      BY <2>2, <3>1, <3>2 DEF Children
  <2>4. i # Depth(t) /\ SubSeq(q, 1, i + 1) = Path(t, i + 1)
    BY <2>1, <2>3
  <2>5. QED
    BY <1>0, <1>2, <2>4
<1>3. Off = {}
  <2>1. SUFFICES ASSUME Off # {}
                 PROVE  FALSE
    OBVIOUS
  <2>2. Off \subseteq Nat
    BY <1>0
  <2>3. PICK i \in Off : \A j \in Off : i <= j
    <3> HIDE DEF Off
    <3>1. QED
      BY <2>1, <2>2, LeastElement
  <2>4. i \in k..Len(q) /\ ~ On(i)
    OBVIOUS
  <2>5. On(k)
    BY <1>0, <1>1
  <2>6. i # k
    BY <2>4, <2>5
  <2> HIDE DEF On
  <2>7. i - 1 \in k..Len(q) /\ i - 1 # Len(q) /\ (i - 1) + 1 = i /\ ~ (i <= i - 1)
    BY <1>0, <2>4, <2>6
  <2>8. i - 1 \notin Off
    BY <2>3, <2>7
  <2>9. On(i - 1)
    BY <2>7, <2>8
  <2>10. QED
    BY <1>2, <2>4, <2>7, <2>9
<1>4. On(Len(q))
  BY <1>0, <1>1, <1>3
<1>5. SubSeq(q, 1, Len(q)) = q
  BY <1>0, SubSeqFull DEF Words
<1>6. QED
  BY <1>0, <1>1, <1>4, <1>5

\* Cutting branches off leaves every remaining node its parent.
LEMMA CutParents ==
    ASSUME NEW nodes, nodes \subseteq Words, ParentClosed(nodes),
           NEW gone, gone \subseteq Words
    PROVE  ParentClosed({q \in nodes : \A p \in gone : ~ Below(p, q)})
<1> SUFFICES ASSUME NEW q \in nodes, \A p \in gone : ~ Below(p, q), q # <<>>,
                    NEW p \in gone, Below(p, SubSeq(q, 1, Len(q) - 1))
             PROVE  FALSE
  BY DEF ParentClosed
<1>1. q \in Words /\ Len(q) \in Nat \ {0}
  BY DEF Words
<1>2. /\ SubSeq(q, 1, Len(q) - 1) \in Words
      /\ Len(SubSeq(q, 1, Len(q) - 1)) = Len(q) - 1
      /\ \A i \in 1..(Len(q) - 1) : SubSeq(q, 1, Len(q) - 1)[i] = q[i]
  <2>1. Len(q) - 1 \in 0..Len(q)
    BY <1>1
  <2>2. QED
    BY <1>1, <2>1, Prefix
<1>3. PICK u \in Words : u = SubSeq(q, 1, Len(q) - 1)
  BY <1>2
<1>4. p \in Words /\ Len(p) \in Nat
  BY DEF Words
<1>5. Len(p) <= Len(u) /\ \A i \in 1..Len(p) : p[i] = u[i]
  BY <1>3, <1>4, BelowLevels
<1>6. Len(p) <= Len(q) /\ \A i \in 1..Len(p) : p[i] = q[i]
  BY <1>1, <1>2, <1>3, <1>4, <1>5
<1>7. QED
  BY <1>1, <1>4, <1>6, BelowLevels

\* A node that is cut off together with a branch while its parent stays is the
\* top of the branch.
LEMMA CutTop ==
    ASSUME NEW p \in Words, NEW c \in Words, NEW g \in Words,
           Len(c) = Len(p) + 1, Below(p, c), Below(g, c), ~ Below(g, p)
    PROVE  c = g
<1>1. Len(p) \in Nat /\ Len(c) \in Nat /\ Len(g) \in Nat
  BY DEF Words
<1>2. \A i \in 1..Len(p) : p[i] = c[i]
  BY BelowLevels
<1>3. Len(g) <= Len(c) /\ \A i \in 1..Len(g) : g[i] = c[i]
  BY BelowLevels
<1>4. Len(g) = Len(c)
  <2>1. SUFFICES ASSUME Len(g) <= Len(p)
                 PROVE  FALSE
    BY <1>1, <1>3
  <2>2. \A i \in 1..Len(g) : g[i] = p[i]
    BY <1>1, <1>2, <1>3, <2>1
  <2>3. QED
    BY <2>1, <2>2, BelowLevels
<1>5. QED
  BY <1>3, <1>4, SameLevels

=============================================================================
