----------------------------- MODULE RetainTree -----------------------------
(***************************************************************************)
(* The retained messages of persistence/topics/memtopics.go: rnode, and    *)
(* the methods of memTopics that take rmu.  A tree maps the path of every  *)
(* rnode to its msg.  rmu makes each method one step.                      *)
(*                                                                         *)
(* Two history variables say what publishers did: last, the last message   *)
(* retained under each topic since that topic was cleared, and swept, the  *)
(* topics with a topic below them that was cleared since then.             *)
(***************************************************************************)
EXTENDS TopicLevels

CONSTANTS
    Topics,     \* topics of PUBLISH packets with the retain flag
    Filters,    \* topics given to Retained
    Msgs,       \* packets with a payload
    NoMsg       \* rnode.msg = nil, and a packet without payload

\* A topic is a string, so it has at least one level.
ASSUME RetainTreeAssumption ==
    /\ Filters \cup Topics \subseteq Seq(STRING) \ {<<>>}
    /\ NoMsg \notin Msgs

VARIABLES rtree, last, swept

vars == <<rtree, last, swept>>

Nodes == {Node(t) : t \in {u \in Topics : ~ Malformed(u)}}

Init ==
    /\ rtree = [p \in {<<>>} |-> NoMsg]
    /\ last = [n \in Nodes |-> NoMsg]
    /\ swept = {}

\* Mutant: the nodes on the way are not added.
GrownLeafOnly(topic) ==
    [p \in DOMAIN rtree \cup {Node(topic)} |->
        IF p \in DOMAIN rtree THEN rtree[p] ELSE NoMsg]

\* rinsertOrUpdate adds the missing nodes on its way, without a message; the
\* nodes it has added before an error stay.
Grown(topic) ==
    [p \in DOMAIN rtree \cup InsertPaths(topic) |->
        IF p \in DOMAIN rtree THEN rtree[p] ELSE NoMsg]

\* Retain and rinsertOrUpdate.
Retain(topic, msg) ==
    /\ ~ Malformed(topic)
    /\ rtree' = [Grown(topic) EXCEPT ![Node(topic)] = msg]
    /\ last' = [last EXCEPT ![Node(topic)] = msg]
    /\ swept' = swept \ {Node(topic)}

\* Retain and rinsertOrUpdate: the topic has a level that is an error.
RetainFails(topic) ==
    /\ Malformed(topic)
    /\ rtree' = Grown(topic)
    /\ UNCHANGED <<last, swept>>

\* Mutant: the message of a node that keeps its children is not removed.
PrunedKeepsMsg(topic) ==
    IF Children(DOMAIN rtree, Node(topic)) = {}
      THEN Cut(rtree, {Node(topic)} \ {<<>>}) ELSE rtree

\* rremove on its way back: a node on the path that has no child nodes left
\* is deleted from its parent.  The root stays.
Pruned(topic) ==
    LET childless(k) ==
            Children(DOMAIN rtree, Path(topic, k)) \subseteq
                (IF k = Depth(topic) THEN {} ELSE {Path(topic, k + 1)})
        gone == {Path(topic, k) : k \in {j \in 1..Depth(topic) :
                                   \A i \in j..Depth(topic) : childless(i)}}
    IN  Cut([rtree EXCEPT ![Node(topic)] = NoMsg], gone)

HasNode(topic) == ~ Malformed(topic) /\ Node(topic) \in DOMAIN rtree

\* Retain of an empty payload, and rremove.
Clear(topic) ==
    /\ HasNode(topic)
    /\ rtree' = Pruned(topic)
    /\ last' = [last EXCEPT ![Node(topic)] = NoMsg]
    /\ swept' = (swept \cup {n \in Nodes : n # Node(topic) /\ Below(n, Node(topic))})
                    \ {Node(topic)}

\* Retain of an empty payload, and rremove: a bad level, or no such node.
ClearFails(topic) ==
    /\ ~ HasNode(topic)
    /\ UNCHANGED vars

(***************************************************************************)
(* rmatch.  After k levels the recursion stands at every node of depth k   *)
(* that "+", in the topic, lets through or that has the topic's own keys.  *)
(***************************************************************************)
Visited(topic, k) ==
    {p \in DOMAIN rtree :
        Len(p) = k /\ \A i \in 1..k : Level(topic, i) \in {SWC, p[i]}}

\* Mutant: "#" does not take the node it stands below.
RetainedBelow(topic) ==
    LET d     == Depth(topic)
        multi == d > 0 /\ topic[d] = MWC
        found == IF Malformed(topic) THEN {}
                 ELSE IF multi
                   THEN {q \in DOMAIN rtree :
                           \E p \in Visited(topic, d - 1) : q # p /\ Below(p, q)}
                   ELSE Visited(topic, d)
    IN  {rtree[p] : p \in found} \ {NoMsg}

\* Retained and rmatch.  A last level "#" is replaced by allRetained of the
\* nodes reached before it.  A bad level ends the recursion before anything
\* has been collected.
Retained(topic) ==
    LET d     == Depth(topic)
        multi == d > 0 /\ topic[d] = MWC
        found == IF Malformed(topic) THEN {}
                 ELSE IF multi
                   THEN {q \in DOMAIN rtree :
                           \E p \in Visited(topic, d - 1) : Below(p, q)}
                   ELSE Visited(topic, d)
    IN  {rtree[p] : p \in found} \ {NoMsg}

Next ==
    \E t \in Topics :
        \/ \E m \in Msgs : Retain(t, m)
        \/ RetainFails(t)
        \/ Clear(t)
        \/ ClearFails(t)

Spec == Init /\ [][Next]_vars

-----------------------------------------------------------------------------
(***************************************************************************)
(* Properties.                                                             *)
(***************************************************************************)

\* The rnodes are the root and nodes on the way of some topic, each with its
\* parent.
TypeOK ==
    /\ rtree \in [DOMAIN rtree -> Msgs \cup {NoMsg}]
    /\ <<>> \in DOMAIN rtree
    /\ \A p \in DOMAIN rtree \ {<<>>} :
          /\ \E t \in Topics : \E k \in 1..Depth(t) : p = Path(t, k)
          /\ SubSeq(p, 1, Len(p) - 1) \in DOMAIN rtree
    /\ last \in [Nodes -> Msgs \cup {NoMsg}]
    /\ swept \subseteq Nodes

\* A new subscriber is never sent a message that was replaced or cleared, nor
\* one of a topic its filter does not match.
RetainedIsFresh ==
    \A f \in Filters : ~ Malformed(f) =>
        Retained(f) \subseteq
            {last[n] : n \in {m \in Nodes : Matches(Node(f), m)}}

\* A message retained under a topic is found by every filter that matches the
\* topic, as long as no topic below it has been cleared.
RetainedIsFound ==
    \A f \in Filters : \A n \in Nodes \ swept :
        ~ Malformed(f) /\ Matches(Node(f), n) /\ last[n] # NoMsg
            => last[n] \in Retained(f)

\* rremove is to "remove the retained message for the supplied topic": clearing
\* one topic loses the message of no other topic.
ClearsOnlyItsTopic ==
    [][\A t \in Topics :
          Clear(t) => \A p \in DOMAIN rtree \ {Node(t)} :
                         rtree[p] # NoMsg => p \in DOMAIN rtree' /\ rtree'[p] = rtree[p]]_vars

=============================================================================
