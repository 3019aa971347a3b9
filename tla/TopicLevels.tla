---------------------------- MODULE TopicLevels ----------------------------
(***************************************************************************)
(* How the topic stores of persistence/topics/memtopics.go cut a topic     *)
(* into levels (nextTopicLevel).  A topic is the sequence of the strings   *)
(* between its separators, so "a/b/" is <<"a", "b", "">> and the empty     *)
(* topic is <<"">>.  A path is the sequence of map keys from the root of a *)
(* tree to one of its nodes.                                               *)
(***************************************************************************)
EXTENDS Sequences, Naturals, Functions

CONSTANT
    Ill     \* levels in which a wildcard does not stand alone, as in "a#"

MWC == "#"
SWC == "+"

ASSUME TopicLevelsAssumption == Ill \cap {"", MWC, SWC} = {}

(***************************************************************************)
(* The recursions stop when len(topic) = 0.  The rest of a topic after its *)
(* last separator is empty when the last level is, so that level is never  *)
(* looked at.                                                              *)
(***************************************************************************)
Depth(topic) ==
    IF topic[Len(topic)] = "" THEN Len(topic) - 1 ELSE Len(topic)

\* nextTopicLevel: a separator at the front makes the level a "+".
Level(topic, i) == IF topic[i] = "" THEN SWC ELSE topic[i]

\* nextTopicLevel: its errors.  "#" fails when a separator follows it.
LevelError(topic, i) ==
    \/ topic[i] \in Ill
    \/ topic[i] = MWC /\ i < Len(topic)

\* The path to the node a recursion has reached after k levels.
Path(topic, k) == [i \in 1..k |-> Level(topic, i)]

\* Every recursion fails at the first bad level it gets to.
FirstError(topic, k) ==
    /\ k \in 1..Depth(topic)
    /\ LevelError(topic, k)
    /\ \A i \in 1..(k - 1) : ~ LevelError(topic, i)

\* The nodes an insertion visits, and creates where they are missing: all of
\* the topic's, or those before the first bad level.
InsertPaths(topic) ==
    {Path(topic, k) : k \in {j \in 0..Depth(topic) :
                                \A i \in 1..j : ~ LevelError(topic, i)}}

Malformed(topic) == \E i \in 1..Depth(topic) : LevelError(topic, i)

\* The node a topic without an error leads to.
Node(topic) == Path(topic, Depth(topic))

\* q is the path p or the path of a node below it.
Below(p, q) == Len(q) >= Len(p) /\ SubSeq(q, 1, Len(p)) = p

Children(nodes, p) == {q \in nodes : Len(q) = Len(p) + 1 /\ Below(p, q)}

\* delete(m, level): nodes and everything under them leave a tree.
Cut(tree, gone) ==
    Restrict(tree, {q \in DOMAIN tree : \A p \in gone : ~ Below(p, q)})

-----------------------------------------------------------------------------
(***************************************************************************)
(* What topics and filters mean to MQTT, for the properties.               *)
(***************************************************************************)

\* "+" stands for one level, a final "#" for any number of levels.
Matches(filter, topic) ==
    LET n     == Len(filter)
        multi == n > 0 /\ filter[n] = MWC
        fixed == IF multi THEN n - 1 ELSE n
    IN  /\ IF multi THEN Len(topic) >= fixed ELSE Len(topic) = fixed
        /\ \A i \in 1..fixed : filter[i] \in {SWC, topic[i]}

\* A topic that may be published to, although a level of it may be empty.
NoWildcards(topic) == \A i \in DOMAIN topic : topic[i] \notin Ill \cup {MWC, SWC}

\* The levels of a topic that are looked at: all but an empty last one.
Names(topic) == SubSeq(topic, 1, Depth(topic))

=============================================================================
