----------------------------- MODULE ClientSubs -----------------------------
(***************************************************************************)
(* What the packets of clients do to the stores they share: the handlers   *)
(* of broker/subscribe.go, broker/unsubscribe.go and the routing of        *)
(* broker/publish.go, the online notice of broker/broker.go, and Close.    *)
(*                                                                         *)
(* The handlers of one client run one after the other; those of different  *)
(* clients interleave at every call into the stores, each of which holds a *)
(* lock for that call only.  The subscription store is the set of entries  *)
(* that SubTree implements, the retained messages are a map from topics:   *)
(* packets without a payload, which clear one, are left to RetainTree.     *)
(***************************************************************************)
EXTENDS Naturals, FiniteSets

CONSTANTS
    Clients,
    Keys,       \* topics as SUBSCRIBE packets spell them
    Shared,     \* the keys of the form $share/group/filter
    BadShare,   \* keys that start with $share/ and have not that form
    Malformed,  \* keys with a filter the store refuses
    Filters,    \* filters as the store keeps them
    FilterOf,   \* the filter of each key
    Topics,
    Match,      \* the topics that match each filter
    QoS,        \* QoS bytes a SUBSCRIBE may carry
    Msgs,       \* published packets, with a payload
    QosOf,      \* their QoS
    TopicOf,    \* their topics, and the topics of the clients' online notices
    Retain,     \* those with the retain flag
    MaxSent,    \* bound: packets published in an execution
    Gens,       \* bound: subscription structs of a client and key in use at once
    None        \* nil

\* A *subscription.  Structs of one client and key differ in gen.
Subscription == [client : Clients, key : Keys, gen : Gens]

ASSUME ClientSubsAssumption ==
    /\ Shared \cup BadShare \cup Malformed \subseteq Keys
    /\ FilterOf \in [Keys -> Filters]
    /\ Match \in [Filters -> SUBSET Topics]
    /\ QosOf \in [Msgs -> 0..2]
    /\ TopicOf \in [Msgs \cup Clients -> Topics]
    /\ Retain \subseteq Msgs
    /\ Msgs \cap Clients = {}
    /\ MaxSent \in Nat
    /\ Gens \subseteq Nat
    /\ None \notin Msgs \cup Keys \cup Subscription

VARIABLES
    status,     \* client.status, and whether the socket still works
    pc,         \* what the goroutine working for each client does next
    topic,      \* the topic of its SUBSCRIBE it is looking at
    subMap,     \* client.subMap
    index,      \* memTopics.sroot, as SubIndex sees it
    retained,   \* memTopics.rroot, as a map
    rmsgs,      \* client.rmsgs
    cur,        \* the packet a client's worker is routing
    subs,       \* client.subs: those it has still to write to
    sent,       \* history: packets that have been published
    asked,      \* history: keys each client has been subscribed to
    got         \* history: published packets written to each client

vars == <<status, pc, topic, subMap, index, retained, rmsgs, cur, subs,
          sent, asked, got>>

handlerVars == <<topic, subMap, index, rmsgs, asked>>
routeVars == <<retained, cur, subs, sent>>

Store == INSTANCE SubIndex WITH Keys <- Filters, Subs <- Subscription

Goto(c, l) == pc' = [pc EXCEPT ![c] = l]

\* A write to a client that is gone is skipped or fails.
Written(d, packets) ==
    got' = [got EXCEPT ![d] = IF status[d] = "connected" THEN @ \cup packets ELSE @]

Subscribers(t) == {e.sub : e \in {d \in index : t \in Match[d.filter]}}

\* handleConnection has called getSession.
Init ==
    /\ status = [c \in Clients |-> "connected"]
    /\ pc = [c \in Clients |-> "connect"]
    /\ topic = [c \in Clients |-> None]
    /\ subMap = [c \in Clients |-> [k \in Keys |-> None]]
    /\ index = {}
    /\ retained = [t \in Topics |-> None]
    /\ rmsgs = [c \in Clients |-> {}]
    /\ cur = [c \in Clients |-> None]
    /\ subs = [c \in Clients |-> {}]
    /\ sent = {}
    /\ asked = [c \in Clients |-> {}]
    /\ got = [c \in Clients |-> {}]

-----------------------------------------------------------------------------
(***************************************************************************)
(* OnlineOfflineNotification and PublishMessage, before readLoop: every    *)
(* subscriber is written to, whether or not its subscription is shared.    *)
(* What is written, a QoS 0 packet that nobody keeps, is not recorded.     *)
(***************************************************************************)
NoticeMatch(c) ==
    /\ pc[c] = "connect"
    /\ subs' = [subs EXCEPT ![c] = Subscribers(TopicOf[c])]
    /\ Goto(c, "notice")
    /\ UNCHANGED <<status, handlerVars, retained, cur, sent, got>>

NoticeWrite(c, s) ==
    /\ pc[c] = "notice"
    /\ s \in subs[c]
    /\ subs' = [subs EXCEPT ![c] = @ \ {s}]
    /\ UNCHANGED <<status, pc, handlerVars, retained, cur, sent, got>>

NoticeDone(c) ==
    /\ pc[c] = "notice"
    /\ subs[c] = {}
    /\ Goto(c, "idle")
    /\ UNCHANGED <<status, handlerVars, routeVars, got>>

-----------------------------------------------------------------------------
(***************************************************************************)
(* processClientSubscribe.  A packet lists any number of topics; the next  *)
(* one, or the end of the list, is chosen when the loop gets to it.        *)
(***************************************************************************)

\* The client's worker takes a packet, or goes on with a SUBSCRIBE.
NextTopic(c) ==
    \/ pc[c] = "idle" /\ status[c] # "disconnected"
    \/ pc[c] = "sub"

\* groupCompile does not match: QosFailure for this topic.
SkipBadShare(c, key) ==
    /\ NextTopic(c)
    /\ key \in BadShare
    /\ Goto(c, "sub")
    /\ UNCHANGED <<status, handlerVars, routeVars, got>>

\* Unsubscribe and delete(c.subMap, t), if the client has the key.
Forget(c, key) ==
    \/ /\ subMap[c][key] # None
       /\ Store!Remove(FilterOf[key], subMap[c][key])
       /\ subMap' = [subMap EXCEPT ![c][key] = None]
    \/ /\ subMap[c][key] = None
       /\ UNCHANGED <<index, subMap>>

\* Mutant: the entry of the old subscription stays.
RemoveOldKept(c, key) ==
    /\ NextTopic(c)
    /\ key \notin BadShare
    /\ topic' = [topic EXCEPT ![c] = key]
    /\ Goto(c, "add")
    /\ UNCHANGED <<status, index, subMap, rmsgs, asked, routeVars, got>>

\* The next topic: if oldSub, exist := c.subMap[t]; exist ...
RemoveOld(c, key) ==
    /\ NextTopic(c)
    /\ key \notin BadShare
    /\ Forget(c, key)
    /\ topic' = [topic EXCEPT ![c] = key]
    /\ Goto(c, "add")
    /\ UNCHANGED <<status, rmsgs, asked, routeVars, got>>

\* Mutant: the QoS is not checked.
ValidAnyQos(key, qos) == key \notin Malformed

Valid(key, qos) == qos \in 0..2 /\ key \notin Malformed

\* A struct that nothing points to any more stands for a new one.
Unused(s) == s \notin {e.sub : e \in index} \cup UNION {subs[c] : c \in Clients}

\* Which of the unused structs is taken makes no difference.
New(s) ==
    /\ Unused(s)
    /\ \A g \in Gens : Unused([s EXCEPT !.gen = g]) => s.gen <= g

\* Subscribe succeeds: c.subMap[t] = sub, session.AddTopic.
Add(c, qos, gen) ==
    LET sub == [client |-> c, key |-> topic[c], gen |-> gen]
    IN  /\ pc[c] = "add"
        /\ Valid(topic[c], qos)
        /\ New(sub)
        /\ Store!Add(FilterOf[topic[c]], qos, sub)
        /\ subMap' = [subMap EXCEPT ![c][topic[c]] = sub]
        /\ asked' = [asked EXCEPT ![c] = @ \cup {topic[c]}]
        /\ Goto(c, "retained")
        /\ UNCHANGED <<status, topic, rmsgs, routeVars, got>>

\* Subscribe fails: QosFailure for this topic.
AddFails(c, qos) ==
    /\ pc[c] = "add"
    /\ ~ Valid(topic[c], qos)
    /\ topic' = [topic EXCEPT ![c] = None]
    /\ Goto(c, "sub")
    /\ UNCHANGED <<status, subMap, index, rmsgs, asked, routeVars, got>>

\* Mutant: all retained messages match.
RetainedAll(filter) == {retained[t] : t \in Topics} \ {None}

Retained(filter) == {retained[t] : t \in Match[filter]} \ {None}

\* Mutant: Retained is not called.
CollectRetainedSkipped(c) ==
    /\ pc[c] = "retained"
    /\ topic' = [topic EXCEPT ![c] = None]
    /\ Goto(c, "sub")
    /\ UNCHANGED <<status, subMap, index, rmsgs, asked, routeVars, got>>

\* c.topicsMgr.Retained([]byte(topic), &c.rmsgs)
CollectRetained(c) ==
    /\ pc[c] = "retained"
    /\ rmsgs' = [rmsgs EXCEPT ![c] = @ \cup Retained(FilterOf[topic[c]])]
    /\ topic' = [topic EXCEPT ![c] = None]
    /\ Goto(c, "sub")
    /\ UNCHANGED <<status, subMap, index, asked, routeVars, got>>

\* No topic is left: the SUBACK, and all of c.rmsgs, which is never emptied.
WriteSuback(c) ==
    /\ pc[c] = "sub"
    /\ Written(c, rmsgs[c])
    /\ Goto(c, "idle")
    /\ UNCHANGED <<status, handlerVars, routeVars>>

-----------------------------------------------------------------------------
(***************************************************************************)
(* processClientUnsubscribe, for one topic: a packet with several does the *)
(* same for each in turn.  There are no routes to broadcast to.            *)
(***************************************************************************)
ProcessUnsubscribe(c, key) ==
    /\ pc[c] = "idle"
    /\ status[c] # "disconnected"
    /\ Forget(c, key)
    /\ UNCHANGED <<status, pc, topic, rmsgs, asked, routeVars, got>>

-----------------------------------------------------------------------------
(***************************************************************************)
(* ProcessPublishMessage: first Retain, then Subscribers, then publish.    *)
(***************************************************************************)
ProcessPublish(c, m) ==
    /\ pc[c] = "idle"
    /\ status[c] # "disconnected"
    /\ m \notin sent
    /\ Cardinality(sent) < MaxSent
    /\ sent' = sent \cup {m}
    /\ cur' = [cur EXCEPT ![c] = m]
    /\ retained' = IF m \in Retain THEN [retained EXCEPT ![TopicOf[m]] = m]
                                   ELSE retained
    /\ Goto(c, "match")
    /\ UNCHANGED <<status, handlerVars, subs, got>>

MatchSubscribers(c) ==
    /\ pc[c] = "match"
    /\ subs' = [subs EXCEPT ![c] = Subscribers(TopicOf[cur[c]])]
    /\ Goto(c, "deliver")
    /\ UNCHANGED <<status, handlerVars, retained, cur, sent, got>>

\* publish: a packet with QoS 2 is logged and dropped.  What is kept of one with
\* QoS 1 is the subject of RetryDelivery.
Publish(s, m) == Written(s.client, IF QosOf[m] = 2 THEN {} ELSE {m})

\* Mutant: shared subscriptions are written to like the others.
DeliverAll(c, s) ==
    /\ pc[c] = "deliver"
    /\ s \in subs[c]
    /\ Publish(s, cur[c])
    /\ subs' = [subs EXCEPT ![c] = @ \ {s}]
    /\ UNCHANGED <<status, pc, handlerVars, retained, cur, sent>>

Deliver(c, s) ==
    /\ pc[c] = "deliver"
    /\ s \in subs[c] /\ s.key \notin Shared
    /\ Publish(s, cur[c])
    /\ subs' = [subs EXCEPT ![c] = @ \ {s}]
    /\ UNCHANGED <<status, pc, handlerVars, retained, cur, sent>>

\* One of all the shared subscriptions, whatever their groups.
DeliverShared(c, s) ==
    /\ pc[c] = "deliver"
    /\ s \in subs[c] /\ \A t \in subs[c] : t.key \in Shared
    /\ Publish(s, cur[c])
    /\ subs' = [subs EXCEPT ![c] = {}]
    /\ UNCHANGED <<status, pc, handlerVars, retained, cur, sent>>

PublishDone(c) ==
    /\ pc[c] = "deliver"
    /\ subs[c] = {}
    /\ cur' = [cur EXCEPT ![c] = None]
    /\ Goto(c, "idle")
    /\ UNCHANGED <<status, handlerVars, retained, subs, sent, got>>

-----------------------------------------------------------------------------
\* The connection fails; the broker has not noticed yet.
PeerLeaves(c) ==
    /\ status[c] = "connected"
    /\ status' = [status EXCEPT ![c] = "broken"]
    /\ UNCHANGED <<pc, handlerVars, routeVars, got>>

\* DISCONNECT: the entries of the client stay in the store and in c.subMap.
Close(c) ==
    /\ pc[c] = "idle"
    /\ status[c] # "disconnected"
    /\ status' = [status EXCEPT ![c] = "disconnected"]
    /\ UNCHANGED <<pc, handlerVars, routeVars, got>>

Handlers(c) ==
    \/ NoticeMatch(c) \/ NoticeDone(c)
    \/ \E k \in Keys : SkipBadShare(c, k) \/ RemoveOld(c, k) \/ ProcessUnsubscribe(c, k)
    \/ \E q \in QoS : AddFails(c, q) \/ \E g \in Gens : Add(c, q, g)
    \/ CollectRetained(c) \/ WriteSuback(c)
    \/ \E m \in Msgs : ProcessPublish(c, m)
    \/ MatchSubscribers(c) \/ PublishDone(c)
    \/ \E s \in subs[c] : NoticeWrite(c, s) \/ Deliver(c, s) \/ DeliverShared(c, s)
    \/ Close(c)

Next == \E c \in Clients : Handlers(c) \/ PeerLeaves(c)

Spec == Init /\ [][Next]_vars

-----------------------------------------------------------------------------
(***************************************************************************)
(* Properties.                                                             *)
(***************************************************************************)

\* The values the clients and the stores hold; packets are routed only while
\* the worker routes.
TypeOK ==
    /\ status \in [Clients -> {"connected", "broken", "disconnected"}]
    /\ pc \in [Clients -> {"connect", "notice", "idle", "sub", "add", "retained",
                           "match", "deliver"}]
    /\ \A c \in Clients :
          /\ topic[c] # None <=> pc[c] \in {"add", "retained"}
          /\ cur[c] # None <=> pc[c] \in {"match", "deliver"}
    /\ topic \in [Clients -> Keys \cup {None}]
    /\ subMap \in [Clients -> [Keys -> Subscription \cup {None}]]
    /\ index \subseteq [filter : Filters, sub : Subscription, qos : 0..2]
    /\ retained \in [Topics -> Retain \cup {None}]
    /\ rmsgs \in [Clients -> SUBSET Retain]
    /\ cur \in [Clients -> Msgs \cup {None}]
    /\ subs \in [Clients -> SUBSET Subscription]
    /\ sent \subseteq Msgs
    /\ asked \in [Clients -> SUBSET Keys]
    /\ got \in [Clients -> SUBSET Msgs]

\* What subMap says and what the store holds never drift apart, whatever
\* sequence of repeated, failing and overlapping SUBSCRIBEs and UNSUBSCRIBEs,
\* and whether or not the client is still there: no entry that UNSUBSCRIBE
\* could not find, no key without an entry, never two entries for a key.
IndexAgrees ==
    /\ \A e \in index :
          /\ e.filter = FilterOf[e.sub.key]
          /\ subMap[e.sub.client][e.sub.key] = e.sub
          /\ \A d \in index : d.sub = e.sub => d = e
    /\ \A c \in Clients, k \in Keys :
          subMap[c][k] # None => \E e \in index : e.sub = subMap[c][k]

\* The latest retained message of a topic is on its way to a subscription: the
\* client's handler has still to collect or to write it, or a worker is still
\* routing it.
OnItsWay(m, c, k) ==
    \/ pc[c] = "retained" /\ topic[c] = k
    \/ pc[c] \in {"sub", "add", "retained"} /\ m \in rmsgs[c]
    \/ \E p \in Clients :
          /\ cur[p] = m
          /\ pc[p] = "match" \/ subMap[c][k] \in subs[p]

\* A SUBSCRIBE that overlaps the PUBLISH of a retained message does not miss
\* it: Retain comes before Subscribers in one handler, Subscribe before
\* Retained in the other.  This includes a SUBSCRIBE that is repeated, although
\* the client has no entry for a while.  Two kinds are excepted: a shared
\* subscription, and a message with QoS 2, which publish drops, so that only
\* those who subscribe after it has been retained are sent it.
NoRetainedMissed ==
    \A c \in Clients, k \in Keys \ Shared :
        status[c] = "connected" /\ subMap[c][k] # None =>
            \A t \in Match[FilterOf[k]] :
                retained[t] # None /\ QosOf[retained[t]] # 2 =>
                    retained[t] \in got[c] \/ OnItsWay(retained[t], c, k)

\* Nobody is sent a packet of a topic it never subscribed to, in spite of
\* snapshots of the store and of c.rmsgs that outlive a subscription.
OnlyWhatWasAsked ==
    \A c \in Clients : \A m \in got[c] :
        \E k \in asked[c] : TopicOf[m] \in Match[FilterOf[k]]

\* Of the clients with nothing but shared subscriptions at most one is sent a
\* packet.  (A retained packet goes to every new subscriber.)
OneOfTheShared ==
    \A c, d \in Clients :
        asked[c] \cup asked[d] \subseteq Shared /\ c # d
            => got[c] \cap got[d] \cap (Msgs \ Retain) = {}

=============================================================================
