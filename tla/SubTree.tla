------------------------------ MODULE SubTree ------------------------------
(***************************************************************************)
(* The subscription tree of persistence/topics/memtopics.go: snode, and    *)
(* the methods of memTopics that take smu.  A tree maps the path of every  *)
(* snode to the set of its entries, subscriber and QoS (the slices subs    *)
(* and qos).  smu makes each method one step.                              *)
(***************************************************************************)
EXTENDS TopicLevels

CONSTANTS
    Filters,    \* topics given to Subscribe and Unsubscribe
    Topics,     \* topics messages are published to
    Subs,       \* subscribers: pointers, so equal() is identity
    QoS         \* QoS bytes a SUBSCRIBE may carry

\* A topic is a string, so it has at least one level.
ASSUME SubTreeAssumption == Filters \cup Topics \subseteq Seq(STRING) \ {<<>>}

VARIABLE
    stree       \* memTopics.sroot

\* Mutant: off by one.
ValidQosThree(qos) == qos \in 0..3

ValidQos(qos) == qos \in 0..2

\* newSNode: the root, without subscribers.
Init == stree = [p \in {<<>>} |-> {}]

\* The entries that equal() finds for a subscriber.
EntriesOf(entries, sub) == {e \in entries : e.sub = sub}

Holds(topic, sub) ==
    /\ ~ Malformed(topic)
    /\ Node(topic) \in DOMAIN stree
    /\ EntriesOf(stree[Node(topic)], sub) # {}

\* sinsert adds the missing nodes on its way, without subscribers; the nodes
\* it has added before an error stay.
Grown(topic) ==
    [p \in DOMAIN stree \cup InsertPaths(topic) |->
        IF p \in DOMAIN stree THEN stree[p] ELSE {}]

\* Subscribe and sinsert: update the subscriber's QoS or append it.
Subscribe(topic, qos, sub) ==
    /\ ValidQos(qos)
    /\ ~ Malformed(topic)
    /\ stree' = [Grown(topic) EXCEPT ![Node(topic)] =
                    (@ \ EntriesOf(@, sub)) \cup {[sub |-> sub, qos |-> qos]}]

\* Subscribe and sinsert: the topic has a level that is an error.
SubscribeFails(topic, qos) ==
    /\ ValidQos(qos)
    /\ Malformed(topic)
    /\ stree' = Grown(topic)

\* Subscribe: an invalid QoS is refused before the tree is touched.
SubscribeBadQos(qos) ==
    /\ ~ ValidQos(qos)
    /\ UNCHANGED stree

\* Mutant: nodes are never deleted.
PrunedNever(tree, topic) == tree

\* Mutant: child nodes are not looked at.
PrunedWithChildren(tree, topic) ==
    Cut(tree, {Path(topic, k) : k \in {j \in 1..Depth(topic) :
                  \A i \in j..Depth(topic) : tree[Path(topic, i)] = {}}})

\* sremove on its way back: a node on the path that has neither subscribers
\* nor child nodes left is deleted from its parent.  The root stays.
Pruned(tree, topic) ==
    LET bare(k) ==
            /\ tree[Path(topic, k)] = {}
            /\ Children(DOMAIN tree, Path(topic, k)) \subseteq
                   (IF k = Depth(topic) THEN {} ELSE {Path(topic, k + 1)})
        gone == {Path(topic, k) : k \in {j \in 1..Depth(topic) :
                                           \A i \in j..Depth(topic) : bare(i)}}
    IN  Cut(tree, gone)

\* Unsubscribe and sremove: the subscriber is found and removed.
Unsubscribe(topic, sub) ==
    /\ Holds(topic, sub)
    /\ stree' = Pruned([stree EXCEPT ![Node(topic)] = @ \ EntriesOf(@, sub)],
                       topic)

\* Unsubscribe and sremove: a bad level, no such node or no such subscriber.
UnsubscribeFails(topic, sub) ==
    /\ ~ Holds(topic, sub)
    /\ UNCHANGED stree

(***************************************************************************)
(* smatch.  After k levels the recursion stands at every node of depth k   *)
(* whose keys are "+" or the topic's own levels.  A key "#" never is       *)
(* followed: the subscribers of that node are added on sight.              *)
(***************************************************************************)
Visited(topic, k) ==
    {p \in DOMAIN stree :
        Len(p) = k /\ \A i \in 1..k : p[i] # MWC /\ p[i] \in {SWC, Level(topic, i)}}

\* Subscribers refuses an invalid QoS.  A bad level is an error only where the
\* recursion gets to it.
MatchError(topic, qos) ==
    \/ ~ ValidQos(qos)
    \/ \E k \in 1..Depth(topic) : LevelError(topic, k) /\ Visited(topic, k - 1) # {}

\* matchQos: every subscriber of a node is added, whatever QoS it was granted;
\* the comparison is commented out.
SubsAt(p) == IF p \in DOMAIN stree THEN {e.sub : e \in stree[p]} ELSE {}

\* Mutant: at the end of the topic the child "#" is forgotten.
SubscribersShort(topic, qos) ==
    LET seen == UNION {Visited(topic, k) : k \in 0..(Depth(topic) - 1)}
    IN  (UNION {SubsAt(p) : p \in Visited(topic, Depth(topic))})
            \cup (UNION {SubsAt(Append(p, MWC)) : p \in seen})

\* Subscribers and smatch, when there is no error.
Subscribers(topic, qos) ==
    LET seen == UNION {Visited(topic, k) : k \in 0..Depth(topic)}
    IN  (UNION {SubsAt(p) : p \in Visited(topic, Depth(topic))})
            \cup (UNION {SubsAt(Append(p, MWC)) : p \in seen})

Next ==
    \E f \in Filters, s \in Subs :
        \/ \E q \in QoS : \/ Subscribe(f, q, s)
                          \/ SubscribeFails(f, q)
                          \/ SubscribeBadQos(q)
        \/ Unsubscribe(f, s)
        \/ UnsubscribeFails(f, s)

Spec == Init /\ [][Next]_stree

-----------------------------------------------------------------------------
(***************************************************************************)
(* Properties.                                                             *)
(***************************************************************************)

\* The snodes are the root and nodes on the way of some filter, each with its
\* parent; a node holds a subscriber once, with a valid QoS.
TypeOK ==
    /\ stree \in [DOMAIN stree -> SUBSET [sub : Subs, qos : 0..2]]
    /\ <<>> \in DOMAIN stree
    /\ \A p \in DOMAIN stree :
          /\ p # <<>> =>
                /\ \E f \in Filters : \E k \in 1..Depth(f) : p = Path(f, k)
                /\ SubSeq(p, 1, Len(p) - 1) \in DOMAIN stree
          /\ \A d, e \in stree[p] : d.sub = e.sub => d = e

\* What the tree stands for, whatever its shape.
Index ==
    UNION {{[filter |-> p, sub |-> e.sub, qos |-> e.qos] : e \in stree[p]} :
              p \in DOMAIN stree}

\* The traversal of smatch, which never looks at a filter as a whole, returns
\* exactly the subscribers whose stored filter matches the levels of the topic
\* that are looked at, in every tree that sinsert and sremove can leave behind
\* and whatever QoS they were granted (the comment of matchQos says otherwise,
\* see GrantedQosIsEnough).  And no filter that matches as it is spelled is lost,
\* although an empty level is stored as a "+": unless an empty last level has
\* been left out.
MatchCorrect ==
    \A t \in Topics, q \in QoS : NoWildcards(t) /\ ValidQos(q) =>
        /\ ~ MatchError(t, q)
        /\ Subscribers(t, q) =
              {e.sub : e \in {d \in Index : Matches(d.filter, Names(t))}}
        /\ \A f \in Filters :
              f[Len(f)] # "" /\ t[Len(t)] # "" /\ Matches(f, t) =>
                  SubsAt(Node(f)) \subseteq Subscribers(t, q)

\* matchQos: "if the client is granted only QoS 0, and the publish message is
\* QoS 1, then this client is not to be send the published message".
GrantedQosIsEnough ==
    \A t \in Topics, q \in QoS : NoWildcards(t) /\ ValidQos(q) =>
        \A s \in Subscribers(t, q) :
            \E e \in Index : e.sub = s /\ Matches(e.filter, Names(t)) /\ e.qos >= q

\* sremove leaves no dead branch: a leaf without subscribers is one that a
\* failing sinsert has made.
LeavesInUse ==
    \A p \in DOMAIN stree \ {<<>>} :
        Children(DOMAIN stree, p) = {} /\ stree[p] = {} =>
            \E f \in Filters : \E k \in 1..Depth(f) :
                FirstError(f, k) /\ p = Path(f, k - 1)

\* Inserting, removing and pruning nodes implements a plain set of filters:
\* an operation on one filter never adds or drops the entry of another.
SubIndex == INSTANCE SubIndex WITH index <- Index,
                                   Keys <- {Node(f) : f \in Filters}
ImplementsIndex == SubIndex!Spec

=============================================================================
