-------------------------- MODULE ClientSubsProofs --------------------------
(***************************************************************************)
(* Proofs about ClientSubs, for any number of clients, topics, filters,    *)
(* packets and whatever filters match.                                     *)
(***************************************************************************)
EXTENDS ClientSubs, TLAPS

\* Every case of a proof about Next.
LEMMA NextCases ==
    ASSUME [Next]_vars
    PROVE  \/ \E c \in Clients :
                 \/ NoticeMatch(c) \/ NoticeDone(c) \/ CollectRetained(c)
                 \/ WriteSuback(c) \/ MatchSubscribers(c) \/ PublishDone(c)
                 \/ Close(c) \/ PeerLeaves(c)
           \/ \E c \in Clients, k \in Keys :
                 SkipBadShare(c, k) \/ RemoveOld(c, k) \/ ProcessUnsubscribe(c, k)
           \/ \E c \in Clients, q \in QoS : AddFails(c, q)
           \/ \E c \in Clients, q \in QoS, g \in Gens : Add(c, q, g)
           \/ \E c \in Clients, m \in Msgs : ProcessPublish(c, m)
           \/ \E c \in Clients : \E s \in subs[c] :
                 NoticeWrite(c, s) \/ Deliver(c, s) \/ DeliverShared(c, s)
           \/ UNCHANGED vars
  BY DEF Next, Handlers

\* A write adds packets to what its client got, and nothing else.
LEMMA WrittenGrows ==
    ASSUME NEW d \in Clients, NEW P \in SUBSET Msgs, Written(d, P),
           got \in [Clients -> SUBSET Msgs]
    PROVE  /\ got' \in [Clients -> SUBSET Msgs]
           /\ \A c \in Clients : got[c] \subseteq got'[c]
           /\ \A c \in Clients : got'[c] \subseteq got[c] \cup P
           /\ \A c \in Clients \ {d} : got'[c] = got[c]
           /\ status[d] = "connected" => P \subseteq got'[d]
  BY DEF Written

\* Type correctness of the stores and of the handlers' state.
THEOREM TypeCorrect == Spec => []TypeOK
<1> USE ClientSubsAssumption DEF ClientSubsAssumption
<1>1. Init => TypeOK
  BY DEF Init, TypeOK
<1>2. TypeOK /\ [Next]_vars => TypeOK'
  <2> SUFFICES ASSUME TypeOK, [Next]_vars PROVE TypeOK'
    OBVIOUS
  <2> USE DEF TypeOK, Goto, handlerVars, routeVars
  <2>0. \A t \in Topics : Subscribers(t) \subseteq Subscription
    BY DEF Subscribers
  <2>1. ASSUME NEW c \in Clients, NoticeMatch(c) PROVE TypeOK'
    BY <2>0, <2>1 DEF NoticeMatch
  <2>2. ASSUME NEW c \in Clients, NEW s \in subs[c], NoticeWrite(c, s) PROVE TypeOK'
    BY <2>2 DEF NoticeWrite
  <2>3. ASSUME NEW c \in Clients, NoticeDone(c) PROVE TypeOK'
    BY <2>3 DEF NoticeDone
  <2>4. ASSUME NEW c \in Clients, NEW k \in Keys, SkipBadShare(c, k) PROVE TypeOK'
    BY <2>4 DEF SkipBadShare, NextTopic
  <2>5. ASSUME NEW c \in Clients, NEW k \in Keys, Forget(c, k)
        PROVE  /\ index' \subseteq [filter : Filters, sub : Subscription, qos : 0..2]
               /\ subMap' \in [Clients -> [Keys -> Subscription \cup {None}]]
    <3>1. index' \subseteq index
      BY <2>5 DEF Forget, Store!Remove
    <3>2. subMap' = [subMap EXCEPT ![c][k] = None] \/ subMap' = subMap
      BY <2>5 DEF Forget
    <3>3. subMap' \in [Clients -> [Keys -> Subscription \cup {None}]]
      <4>1. CASE subMap' = subMap
        BY <4>1
      <4>2. CASE subMap' = [subMap EXCEPT ![c][k] = None]
        <5>1. \A d \in Clients, j \in Keys : subMap'[d][j] \in Subscription \cup {None}
          BY <4>2
        <5>2. \A d \in Clients : subMap'[d] = [j \in Keys |-> subMap'[d][j]]
          BY <4>2
        <5>3. subMap' = [d \in Clients |-> subMap'[d]]
          BY <4>2
        <5>4. QED
          BY <5>1, <5>2, <5>3
      <4>3. QED
        BY <3>2, <4>1, <4>2
    <3>4. QED
      BY <3>1, <3>3
  <2>6. ASSUME NEW c \in Clients, NEW k \in Keys, RemoveOld(c, k) PROVE TypeOK'
    BY <2>5, <2>6 DEF RemoveOld, NextTopic
  <2>7. ASSUME NEW c \in Clients, NEW k \in Keys, ProcessUnsubscribe(c, k) PROVE TypeOK'
    BY <2>5, <2>7 DEF ProcessUnsubscribe
  <2>8. ASSUME NEW c \in Clients, NEW q \in QoS, NEW g \in Gens, Add(c, q, g)
        PROVE  TypeOK'
    <3> DEFINE s == [client |-> c, key |-> topic[c], gen |-> g]
    <3>1. topic[c] \in Keys /\ FilterOf[topic[c]] \in Filters /\ q \in 0..2
      BY <2>8 DEF Add, Valid
    <3>2. s \in Subscription
      BY <3>1 DEF Subscription
    <3>3. index' \subseteq [filter : Filters, sub : Subscription, qos : 0..2]
      BY <2>8, <3>1, <3>2 DEF Add, Store!Add, Store!Entries
    <3>4. subMap' \in [Clients -> [Keys -> Subscription \cup {None}]]
      BY <2>8, <3>1, <3>2 DEF Add
    <3>5. asked' \in [Clients -> SUBSET Keys]
      BY <2>8, <3>1 DEF Add
    <3>6. QED
      BY <2>8, <3>3, <3>4, <3>5 DEF Add
  <2>9. ASSUME NEW c \in Clients, NEW q \in QoS, AddFails(c, q) PROVE TypeOK'
    BY <2>9 DEF AddFails
  <2>10. ASSUME NEW c \in Clients, CollectRetained(c) PROVE TypeOK'
    <3>1. Retained(FilterOf[topic[c]]) \subseteq Retain
      BY <2>10 DEF CollectRetained, Retained
    <3>2. rmsgs' \in [Clients -> SUBSET Retain]
      BY <2>10, <3>1 DEF CollectRetained
    <3>3. QED
      BY <2>10, <3>2 DEF CollectRetained
  <2>11. ASSUME NEW c \in Clients, WriteSuback(c) PROVE TypeOK'
    <3>1. got' \in [Clients -> SUBSET Msgs]
      BY <2>11, WrittenGrows DEF WriteSuback
    <3>2. QED
      BY <2>11, <3>1 DEF WriteSuback
  <2>12. ASSUME NEW c \in Clients, NEW m \in Msgs, ProcessPublish(c, m) PROVE TypeOK'
    BY <2>12 DEF ProcessPublish
  <2>13. ASSUME NEW c \in Clients, MatchSubscribers(c) PROVE TypeOK'
    <3>1. TopicOf[cur[c]] \in Topics
      BY <2>13 DEF MatchSubscribers
    <3>2. QED
      BY <2>0, <2>13, <3>1 DEF MatchSubscribers
  <2>14. ASSUME NEW c \in Clients, NEW s \in subs[c],
                Deliver(c, s) \/ DeliverShared(c, s)
         PROVE  TypeOK'
    <3>1. s.client \in Clients
      BY DEF Subscription
    <3>2. cur[c] \in Msgs
      BY <2>14 DEF Deliver, DeliverShared
    <3>3. PICK P \in SUBSET Msgs : Written(s.client, P)
      <4>1. {} \in SUBSET Msgs /\ {cur[c]} \in SUBSET Msgs
        BY <3>2
      <4>2. Written(s.client, {}) \/ Written(s.client, {cur[c]})
        BY <2>14 DEF Deliver, DeliverShared, Publish
      <4>3. QED
        BY <4>1, <4>2, Zenon
    <3>4. got' \in [Clients -> SUBSET Msgs]
      <4>1. got \in [Clients -> SUBSET Msgs]
        OBVIOUS
      <4>2. QED
        BY <3>1, <3>3, <4>1, WrittenGrows, Zenon
    <3>5. subs' \in [Clients -> SUBSET Subscription]
      <4>1. PICK X \in SUBSET subs[c] : subs' = [subs EXCEPT ![c] = X]
        BY <2>14 DEF Deliver, DeliverShared
      <4>2. QED
        BY <4>1
    <3>6. UNCHANGED <<status, pc, topic, subMap, index, rmsgs, asked, retained, cur, sent>>
      BY <2>14 DEF Deliver, DeliverShared
    <3>7. QED
      BY <3>4, <3>5, <3>6
  <2>15. ASSUME NEW c \in Clients, PublishDone(c) PROVE TypeOK'
    BY <2>15 DEF PublishDone
  <2>16. ASSUME NEW c \in Clients, PeerLeaves(c) \/ Close(c) PROVE TypeOK'
    BY <2>16 DEF PeerLeaves, Close
  <2>17. CASE UNCHANGED vars
    BY <2>17 DEF vars
  <2>18. QED
    BY <2>1, <2>2, <2>3, <2>4, <2>6, <2>7, <2>8, <2>9, <2>10, <2>11, <2>12,
       <2>13, <2>14, <2>15, <2>16, <2>17, NextCases
<1>3. QED
  BY <1>1, <1>2, PTL DEF Spec

-----------------------------------------------------------------------------
(***************************************************************************)
(* What the safety invariants rest on.                                     *)
(***************************************************************************)

\* A subscription of subMap is the client's own, for the key it is found at;
\* a client about to subscribe has no subscription for the key.
OwnSubscriptions ==
    /\ \A c \in Clients, k \in Keys :
          subMap[c][k] # None => subMap[c][k].client = c /\ subMap[c][k].key = k
    /\ \A c \in Clients : pc[c] = "add" => subMap[c][topic[c]] = None

\* A retained message is found at its topic, and client.subs is empty but
\* while its client's worker goes through it.
Snapshots ==
    /\ \A t \in Topics : retained[t] # None => TopicOf[retained[t]] = t
    /\ \A c \in Clients : pc[c] \notin {"notice", "deliver"} => subs[c] = {}

\* Subscriptions in the store, in a snapshot of it and in hand, and retained
\* messages waiting to be written, come from keys that were asked for.
AskedFor ==
    /\ \A e \in index : e.sub.key \in asked[e.sub.client]
    /\ \A c \in Clients : pc[c] = "retained" => topic[c] \in asked[c]
    /\ \A p \in Clients : cur[p] # None =>
          \A s \in subs[p] :
              s.key \in asked[s.client] /\ TopicOf[cur[p]] \in Match[FilterOf[s.key]]
    /\ \A c \in Clients : \A m \in rmsgs[c] :
          \E k \in asked[c] : TopicOf[m] \in Match[FilterOf[k]]

\* A packet is published once, by one worker, and nobody holds it before.
PublishedOnce ==
    /\ \A p \in Clients : cur[p] # None => cur[p] \in sent
    /\ \A p, q \in Clients : cur[p] # None /\ cur[p] = cur[q] => p = q
    /\ \A t \in Topics : retained[t] # None => retained[t] \in sent
    /\ \A c \in Clients : rmsgs[c] \cup got[c] \subseteq sent

\* Once a client with nothing but shared subscriptions has a packet, whoever
\* routes it is done with it.
SharedIsLast ==
    \A c, p \in Clients :
        asked[c] \subseteq Shared /\ cur[p] # None /\ cur[p] \in got[c] \ Retain
            => pc[p] # "match" /\ subs[p] = {}

-----------------------------------------------------------------------------

\* The only steps that change the store or subMap, or make a client add.
LEMMA StoreCases ==
    ASSUME TypeOK, [Next]_vars
    PROVE  \/ \E c \in Clients, k \in Keys : RemoveOld(c, k) \/ ProcessUnsubscribe(c, k)
           \/ \E c \in Clients, q \in QoS, g \in Gens : Add(c, q, g)
           \/ /\ UNCHANGED <<index, subMap>>
              /\ \A d \in Clients : pc'[d] = "add" => pc[d] = "add" /\ topic'[d] = topic[d]
<1> USE DEF TypeOK, Goto, handlerVars, routeVars
<1>1. ASSUME NEW c \in Clients, NoticeMatch(c) \/ NoticeDone(c) \/ WriteSuback(c)
             \/ MatchSubscribers(c) \/ PublishDone(c) \/ Close(c) \/ PeerLeaves(c)
      PROVE  /\ UNCHANGED <<index, subMap>>
             /\ \A d \in Clients : pc'[d] = "add" => pc[d] = "add" /\ topic'[d] = topic[d]
  BY <1>1 DEF NoticeMatch, NoticeDone, WriteSuback, MatchSubscribers, PublishDone,
     Close, PeerLeaves
<1>2. ASSUME NEW c \in Clients, CollectRetained(c)
      PROVE  /\ UNCHANGED <<index, subMap>>
             /\ \A d \in Clients : pc'[d] = "add" => pc[d] = "add" /\ topic'[d] = topic[d]
  BY <1>2 DEF CollectRetained
<1>3. ASSUME NEW c \in Clients, NEW q \in QoS, AddFails(c, q)
      PROVE  /\ UNCHANGED <<index, subMap>>
             /\ \A d \in Clients : pc'[d] = "add" => pc[d] = "add" /\ topic'[d] = topic[d]
  BY <1>3 DEF AddFails
<1>4. ASSUME NEW c \in Clients, NEW k \in Keys, SkipBadShare(c, k)
      PROVE  /\ UNCHANGED <<index, subMap>>
             /\ \A d \in Clients : pc'[d] = "add" => pc[d] = "add" /\ topic'[d] = topic[d]
  BY <1>4 DEF SkipBadShare
<1>5. ASSUME NEW c \in Clients, NEW m \in Msgs, ProcessPublish(c, m)
      PROVE  /\ UNCHANGED <<index, subMap>>
             /\ \A d \in Clients : pc'[d] = "add" => pc[d] = "add" /\ topic'[d] = topic[d]
  BY <1>5 DEF ProcessPublish
<1>6. ASSUME NEW c \in Clients, NEW s \in subs[c],
             NoticeWrite(c, s) \/ Deliver(c, s) \/ DeliverShared(c, s)
      PROVE  /\ UNCHANGED <<index, subMap>>
             /\ \A d \in Clients : pc'[d] = "add" => pc[d] = "add" /\ topic'[d] = topic[d]
  BY <1>6 DEF NoticeWrite, Deliver, DeliverShared
<1>7. CASE UNCHANGED vars
  BY <1>7 DEF vars
<1>8. QED
  BY <1>1, <1>2, <1>3, <1>4, <1>5, <1>6, <1>7, NextCases, Zenon

\* subMap and the store go together: what subMap forgets is exactly what
\* leaves the store.
THEOREM StoreCorrect == Spec => [](IndexAgrees /\ OwnSubscriptions)
<1> USE ClientSubsAssumption DEF ClientSubsAssumption
<1>1. Init => IndexAgrees /\ OwnSubscriptions
  BY DEF Init, IndexAgrees, OwnSubscriptions
<1>2. TypeOK /\ IndexAgrees /\ OwnSubscriptions /\ [Next]_vars
          => IndexAgrees' /\ OwnSubscriptions'
  <2> SUFFICES ASSUME TypeOK, IndexAgrees, OwnSubscriptions, [Next]_vars
               PROVE  IndexAgrees' /\ OwnSubscriptions'
    OBVIOUS
  <2> USE DEF TypeOK, Goto, handlerVars, routeVars
  <2>1. ASSUME NEW c \in Clients, NEW k \in Keys,
               RemoveOld(c, k) \/ ProcessUnsubscribe(c, k)
        PROVE  IndexAgrees' /\ OwnSubscriptions'
    <3>1. Forget(c, k)
      BY <2>1 DEF RemoveOld, ProcessUnsubscribe
    <3>2. subMap'[c][k] = None
      BY <3>1 DEF Forget
    <3>3. \A d \in Clients, j \in Keys : ~ (d = c /\ j = k) => subMap'[d][j] = subMap[d][j]
      BY <3>1 DEF Forget
    <3>4. \A e : e \in index' <=> e \in index /\ e.sub # subMap[c][k]
      BY <3>1 DEF Forget, Store!Remove, Store!Entries, IndexAgrees, OwnSubscriptions
    <3>5. IndexAgrees'
      <4>1. \A e \in index : /\ e.sub.client \in Clients /\ e.sub.key \in Keys
                              /\ subMap[e.sub.client][e.sub.key] = e.sub
        BY DEF IndexAgrees, Subscription
      <4>2. \A e \in index' : ~ (e.sub.client = c /\ e.sub.key = k)
        BY <3>4, <4>1
      <4>3. \A e \in index' : /\ e.filter = FilterOf[e.sub.key]
                               /\ subMap'[e.sub.client][e.sub.key] = e.sub
        <5> SUFFICES ASSUME NEW e \in index'
                     PROVE  /\ e.filter = FilterOf[e.sub.key]
                            /\ subMap'[e.sub.client][e.sub.key] = e.sub
          OBVIOUS
        <5>1. e \in index
          BY <3>4
        <5>2. e.filter = FilterOf[e.sub.key]
          BY <5>1 DEF IndexAgrees
        <5>3. subMap'[e.sub.client][e.sub.key] = subMap[e.sub.client][e.sub.key]
          BY <3>3, <4>1, <4>2, <5>1
        <5>4. QED
          BY <4>1, <5>1, <5>2, <5>3
      <4>4. \A e \in index', d \in index' : d.sub = e.sub => d = e
        BY <3>4 DEF IndexAgrees
      <4>5. ASSUME NEW d \in Clients, NEW j \in Keys, subMap'[d][j] # None
            PROVE  \E e \in index' : e.sub = subMap'[d][j]
        <5>1. ~ (d = c /\ j = k) /\ subMap'[d][j] = subMap[d][j]
          BY <3>2, <3>3, <4>5
        <5>2. subMap[d][j].client = d /\ subMap[d][j].key = j
          BY <4>5, <5>1 DEF OwnSubscriptions
        <5>3. subMap[d][j] # subMap[c][k]
          BY <4>5, <5>1, <5>2 DEF OwnSubscriptions
        <5>4. PICK e \in index : e.sub = subMap[d][j]
          BY <4>5, <5>1 DEF IndexAgrees
        <5>5. QED
          BY <3>4, <5>1, <5>3, <5>4
      <4>6. QED
        BY <4>3, <4>4, <4>5 DEF IndexAgrees
    <3>6. \A d \in Clients : pc'[d] = "add" =>
              \/ pc[d] = "add" /\ topic'[d] = topic[d] /\ d # c
              \/ d = c /\ topic'[d] = k
      BY <2>1 DEF RemoveOld, ProcessUnsubscribe, NextTopic
    <3>7. OwnSubscriptions'
      <4>1. \A d \in Clients, j \in Keys :
                subMap'[d][j] # None => subMap'[d][j].client = d /\ subMap'[d][j].key = j
        <5> SUFFICES ASSUME NEW d \in Clients, NEW j \in Keys, subMap'[d][j] # None
                     PROVE  subMap'[d][j].client = d /\ subMap'[d][j].key = j
          OBVIOUS
        <5>1. subMap'[d][j] = subMap[d][j]
          BY <3>2, <3>3
        <5>2. QED
          BY <5>1 DEF OwnSubscriptions
      <4>2. ASSUME NEW d \in Clients, pc'[d] = "add" PROVE subMap'[d][topic'[d]] = None
        <5>1. CASE d = c /\ topic'[d] = k
          BY <3>2, <5>1
        <5>2. CASE pc[d] = "add" /\ topic'[d] = topic[d] /\ d # c
          <6>1. topic[d] \in Keys /\ subMap[d][topic[d]] = None
            BY <5>2 DEF OwnSubscriptions
          <6>2. QED
            BY <3>3, <5>2, <6>1
        <5>3. QED
          BY <3>6, <4>2, <5>1, <5>2
      <4>3. QED
        BY <4>1, <4>2 DEF OwnSubscriptions
    <3>8. QED
      BY <3>5, <3>7
  <2>2. ASSUME NEW c \in Clients, NEW q \in QoS, NEW g \in Gens, Add(c, q, g)
        PROVE  IndexAgrees' /\ OwnSubscriptions'
    <3> DEFINE k == topic[c]
               s == [client |-> c, key |-> k, gen |-> g]
               n == [filter |-> FilterOf[k], sub |-> s, qos |-> q]
    <3>1. pc[c] = "add" /\ k \in Keys /\ subMap[c][k] = None
      BY <2>2 DEF Add, OwnSubscriptions
    <3>2. s \in Subscription /\ s # None /\ s.client = c /\ s.key = k
      BY <3>1 DEF Subscription
    <3>3. subMap' = [subMap EXCEPT ![c][k] = s]
      BY <2>2 DEF Add
    <3>4. \A e \in index : e.sub # s
      BY <2>2 DEF Add, New, Unused
    <3>5. index' = index \cup {n}
      BY <2>2, <3>4 DEF Add, Store!Add, Store!Entries
    <3>6. n.filter = FilterOf[k] /\ n.sub = s
      OBVIOUS
    <3> HIDE DEF n, s, k
    <3>7. subMap'[c][k] = s
      BY <3>1, <3>3
    <3>8. \A d \in Clients, j \in Keys : ~ (d = c /\ j = k) => subMap'[d][j] = subMap[d][j]
      BY <3>3
    <3>9. \A e \in index : /\ e.sub.client \in Clients /\ e.sub.key \in Keys
                            /\ subMap[e.sub.client][e.sub.key] = e.sub
                            /\ e.sub # None
      BY DEF IndexAgrees, Subscription
    <3>10. \A e \in index : ~ (e.sub.client = c /\ e.sub.key = k)
      BY <3>1, <3>9
    <3>11. \A e \in index' : /\ e.filter = FilterOf[e.sub.key]
                              /\ subMap'[e.sub.client][e.sub.key] = e.sub
      BY <3>2, <3>5, <3>6, <3>7, <3>8, <3>9, <3>10 DEF IndexAgrees
    <3>12. \A e \in index', d \in index' : d.sub = e.sub => d = e
      BY <3>4, <3>5, <3>6 DEF IndexAgrees
    <3>13. \A d \in Clients, j \in Keys :
              subMap'[d][j] # None => \E e \in index' : e.sub = subMap'[d][j]
      <4> SUFFICES ASSUME NEW d \in Clients, NEW j \in Keys, subMap'[d][j] # None
                   PROVE  \E e \in index' : e.sub = subMap'[d][j]
        OBVIOUS
      <4>1. CASE d = c /\ j = k
        BY <3>5, <3>6, <3>7, <4>1
      <4>2. CASE ~ (d = c /\ j = k)
        <5>1. subMap'[d][j] = subMap[d][j]
          BY <3>8, <4>2
        <5>2. PICK e \in index : e.sub = subMap[d][j]
          BY <5>1 DEF IndexAgrees
        <5>3. QED
          BY <3>5, <5>1, <5>2
      <4>3. QED
        BY <4>1, <4>2
    <3>14. IndexAgrees'
      BY <3>11, <3>12, <3>13 DEF IndexAgrees
    <3>15. \A d \in Clients : pc'[d] = "add" => pc[d] = "add" /\ topic'[d] = topic[d] /\ d # c
      BY <2>2 DEF Add
    <3>16. OwnSubscriptions'
      <4>1. ASSUME NEW d \in Clients, NEW j \in Keys, subMap'[d][j] # None
            PROVE  subMap'[d][j].client = d /\ subMap'[d][j].key = j
        <5>1. CASE d = c /\ j = k
          BY <3>2, <3>7, <5>1
        <5>2. CASE ~(d = c /\ j = k)
          BY <3>8, <4>1, <5>2 DEF OwnSubscriptions
        <5>3. QED
          BY <5>1, <5>2
      <4>2. ASSUME NEW d \in Clients, pc'[d] = "add" PROVE subMap'[d][topic'[d]] = None
        <5>1. pc[d] = "add" /\ topic'[d] = topic[d] /\ d # c
          BY <3>15, <4>2
        <5>2. topic[d] \in Keys /\ subMap[d][topic[d]] = None
          BY <5>1 DEF OwnSubscriptions
        <5>3. QED
          BY <3>8, <5>1, <5>2
      <4>3. QED
        BY <4>1, <4>2 DEF OwnSubscriptions
    <3>17. QED
      BY <3>14, <3>16
  <2>3. ASSUME UNCHANGED <<index, subMap>>,
               \A d \in Clients : pc'[d] = "add" => pc[d] = "add" /\ topic'[d] = topic[d]
        PROVE  IndexAgrees' /\ OwnSubscriptions'
    BY <2>3 DEF IndexAgrees, OwnSubscriptions
  <2>4. QED
    BY <2>1, <2>2, <2>3, StoreCases, Zenon
<1>3. QED
  BY <1>1, <1>2, TypeCorrect, PTL DEF Spec

-----------------------------------------------------------------------------

\* Retained messages sit at their topics, snapshots are emptied.
THEOREM SnapshotsCorrect == Spec => []Snapshots
<1> USE ClientSubsAssumption DEF ClientSubsAssumption
<1>1. Init => Snapshots
  BY DEF Init, Snapshots
<1>2. TypeOK /\ Snapshots /\ [Next]_vars => Snapshots'
  <2> SUFFICES ASSUME TypeOK, Snapshots, [Next]_vars PROVE Snapshots'
    OBVIOUS
  <2> USE DEF TypeOK, Snapshots, Goto, handlerVars, routeVars
  <2>1. ASSUME NEW c \in Clients, NoticeMatch(c) \/ NoticeDone(c) \/ WriteSuback(c)
               \/ MatchSubscribers(c) \/ PublishDone(c) \/ Close(c) \/ PeerLeaves(c)
        PROVE  Snapshots'
    BY <2>1 DEF NoticeMatch, NoticeDone, WriteSuback, MatchSubscribers, PublishDone,
       Close, PeerLeaves
  <2>2. ASSUME NEW c \in Clients, CollectRetained(c) PROVE Snapshots'
    BY <2>2 DEF CollectRetained
  <2>3. ASSUME NEW c \in Clients, NEW q \in QoS,
               AddFails(c, q) \/ \E g \in Gens : Add(c, q, g)
        PROVE  Snapshots'
    BY <2>3 DEF AddFails, Add
  <2>4. ASSUME NEW c \in Clients, NEW k \in Keys,
               SkipBadShare(c, k) \/ RemoveOld(c, k) \/ ProcessUnsubscribe(c, k)
        PROVE  Snapshots'
    BY <2>4 DEF SkipBadShare, RemoveOld, ProcessUnsubscribe, NextTopic
  <2>5. ASSUME NEW c \in Clients, NEW m \in Msgs, ProcessPublish(c, m) PROVE Snapshots'
    BY <2>5 DEF ProcessPublish
  <2>6. ASSUME NEW c \in Clients, NEW s \in subs[c],
               NoticeWrite(c, s) \/ Deliver(c, s) \/ DeliverShared(c, s)
        PROVE  Snapshots'
    BY <2>6 DEF NoticeWrite, Deliver, DeliverShared
  <2>7. CASE UNCHANGED vars
    BY <2>7 DEF vars
  <2>8. QED
    BY <2>1, <2>2, <2>3, <2>4, <2>5, <2>6, <2>7, NextCases, Zenon
<1>3. QED
  BY <1>1, <1>2, TypeCorrect, PTL DEF Spec

\* A write by publish gives the packet to a connected client.
LEMMA PublishWrites ==
    ASSUME TypeOK, NEW p \in Clients, NEW s \in subs[p],
           Deliver(p, s) \/ DeliverShared(p, s)
    PROVE  /\ s \in Subscription /\ s.client \in Clients /\ s.key \in Keys
           /\ pc[p] = "deliver" /\ cur[p] \in Msgs
           /\ \A c \in Clients : got[c] \subseteq got'[c]
           /\ \A c \in Clients : got'[c] \subseteq got[c] \cup {cur[p]}
           /\ \A c \in Clients \ {s.client} : got'[c] = got[c]
           /\ status[s.client] = "connected" /\ QosOf[cur[p]] # 2
                  => cur[p] \in got'[s.client]
<1> USE ClientSubsAssumption DEF ClientSubsAssumption
<1>1. s \in Subscription /\ s.client \in Clients /\ s.key \in Keys
  BY DEF TypeOK, Subscription
<1>2. pc[p] = "deliver" /\ cur[p] \in Msgs
  BY DEF TypeOK, Deliver, DeliverShared
<1>3. PICK P \in {{}, {cur[p]}} :
          Written(s.client, P) /\ (QosOf[cur[p]] # 2 => P = {cur[p]})
  <2>1. CASE QosOf[cur[p]] = 2
    BY <2>1 DEF Deliver, DeliverShared, Publish
  <2>2. CASE QosOf[cur[p]] # 2
    BY <2>2 DEF Deliver, DeliverShared, Publish
  <2>3. QED
    BY <2>1, <2>2
<1>4. {cur[p]} \in SUBSET Msgs /\ got \in [Clients -> SUBSET Msgs]
  BY <1>2 DEF TypeOK
<1>5. /\ \A c \in Clients : got[c] \subseteq got'[c]
      /\ \A c \in Clients : got'[c] \subseteq got[c] \cup {cur[p]}
      /\ \A c \in Clients \ {s.client} : got'[c] = got[c]
      /\ status[s.client] = "connected" => P \subseteq got'[s.client]
  <2>1. PICK d \in Clients : d = s.client
    BY <1>1
  <2>2. P \in SUBSET Msgs /\ P \subseteq {cur[p]}
    BY <1>3, <1>4
  <2>3. Written(d, P)
    BY <1>3, <2>1, <2>2
  <2>4. /\ \A c \in Clients : got[c] \subseteq got'[c]
        /\ \A c \in Clients : got'[c] \subseteq got[c] \cup P
        /\ \A c \in Clients \ {d} : got'[c] = got[c]
        /\ status[d] = "connected" => P \subseteq got'[d]
    BY <1>4, <2>3, WrittenGrows
  <2>5. QED
    BY <2>1, <2>2, <2>4
<1>6. status[s.client] = "connected" /\ QosOf[cur[p]] # 2 => cur[p] \in got'[s.client]
  BY <1>3, <1>5
<1>7. QED
  BY <1>1, <1>2, <1>5, <1>6, Zenon

-----------------------------------------------------------------------------

\* A handler that subscribes and one that publishes cannot miss each other:
\* NoRetainedMissed is inductive once subMap and the store agree.
THEOREM NothingMissed == Spec => []NoRetainedMissed
<1> USE ClientSubsAssumption DEF ClientSubsAssumption
<1> DEFINE Base == TypeOK /\ IndexAgrees /\ OwnSubscriptions /\ Snapshots
<1>1. Init => NoRetainedMissed
  BY DEF Init, NoRetainedMissed
<1>2. Base /\ Base' /\ NoRetainedMissed /\ [Next]_vars => NoRetainedMissed'
  <2> SUFFICES ASSUME Base, Base', NoRetainedMissed, [Next]_vars,
                      NEW c \in Clients, NEW k \in Keys \ Shared,
                      status'[c] = "connected", subMap'[c][k] # None,
                      NEW t \in Match[FilterOf[k]], retained'[t] # None,
                      QosOf[retained'[t]] # 2
               PROVE  retained'[t] \in got'[c] \/ OnItsWay(retained[t], c, k)'
    BY DEF NoRetainedMissed
  <2>0. t \in Topics /\ k \in Keys
    OBVIOUS
  <2> DEFINE Old == /\ retained'[t] = retained[t]
                    /\ retained[t] \in got[c] \/ OnItsWay(retained[t], c, k)
  <2>1. ASSUME retained'[t] = retained[t], subMap'[c][k] = subMap[c][k],
               status[c] = "connected"
        PROVE  Old
    BY <2>0, <2>1 DEF NoRetainedMissed
  <2> DEFINE Routed(p) == cur[p] = retained[t] /\ (pc[p] = "match" \/ subMap[c][k] \in subs[p])
             Kept == /\ got[c] \subseteq got'[c] /\ rmsgs[c] \subseteq rmsgs'[c]
                     /\ pc[c] = "retained" => pc'[c] = "retained" /\ topic'[c] = topic[c]
                     /\ pc[c] \in {"sub", "add"} => pc'[c] \in {"sub", "add", "retained"}
                     /\ \A p \in Clients : Routed(p) =>
                            cur'[p] = cur[p] /\ (pc'[p] = "match" \/ subMap'[c][k] \in subs'[p])
  <2>k. ASSUME Old, Kept
        PROVE  retained'[t] \in got'[c] \/ OnItsWay(retained[t], c, k)'
    BY <2>k DEF OnItsWay
  <2> HIDE DEF Old
  <2> USE DEF TypeOK, Goto, handlerVars, routeVars
  <2>2. ASSUME NEW a \in Clients, NoticeMatch(a)
        PROVE  retained'[t] \in got'[c] \/ OnItsWay(retained[t], c, k)'
    <3>1. Old
      BY <2>1, <2>2 DEF NoticeMatch
    <3>2. QED
      BY <2>2, <3>1 DEF NoticeMatch, OnItsWay, Old
  <2>3. ASSUME NEW a \in Clients, NEW s \in subs[a], NoticeWrite(a, s)
        PROVE  retained'[t] \in got'[c] \/ OnItsWay(retained[t], c, k)'
    <3>1. Old
      BY <2>1, <2>3 DEF NoticeWrite
    <3>2. QED
      BY <2>3, <3>1 DEF NoticeWrite, OnItsWay, Old
  <2>4. ASSUME NEW a \in Clients, NoticeDone(a)
        PROVE  retained'[t] \in got'[c] \/ OnItsWay(retained[t], c, k)'
    <3>1. Old
      BY <2>1, <2>4 DEF NoticeDone
    <3>2. Kept
      BY <2>4 DEF NoticeDone
    <3>3. QED
      BY <2>k, <3>1, <3>2
  <2>5. ASSUME NEW a \in Clients, NEW j \in Keys, SkipBadShare(a, j)
        PROVE  retained'[t] \in got'[c] \/ OnItsWay(retained[t], c, k)'
    <3>1. Old
      BY <2>1, <2>5 DEF SkipBadShare
    <3>2. Kept
      BY <2>5 DEF SkipBadShare, NextTopic
    <3>3. QED
      BY <2>k, <3>1, <3>2
  <2>6. ASSUME NEW a \in Clients, NEW j \in Keys,
               RemoveOld(a, j) \/ ProcessUnsubscribe(a, j)
        PROVE  retained'[t] \in got'[c] \/ OnItsWay(retained[t], c, k)'
    <3>1. Forget(a, j) /\ UNCHANGED <<status, retained, rmsgs, cur, subs, got>>
      BY <2>6 DEF RemoveOld, ProcessUnsubscribe
    <3>2. subMap'[c][k] = subMap[c][k]
      <4>1. subMap' = [subMap EXCEPT ![a][j] = None] \/ subMap' = subMap
        BY <3>1 DEF Forget
      <4>2. CASE subMap' = [subMap EXCEPT ![a][j] = None]
        <5>1. a = c /\ j = k => subMap'[c][k] = None
          BY <2>0, <4>2
        <5>2. ~ (a = c /\ j = k) => subMap'[c][k] = subMap[c][k]
          BY <2>0, <4>2
        <5>3. QED
          BY <5>1, <5>2
      <4>3. QED
        BY <4>1, <4>2
    <3>3. Old
      BY <2>1, <3>1, <3>2
    <3>4. \A d \in Clients :
              \/ pc'[d] = pc[d] /\ topic'[d] = topic[d]
              \/ pc'[d] = "add" /\ pc[d] \in {"idle", "sub"}
      BY <2>6 DEF RemoveOld, ProcessUnsubscribe, NextTopic
    <3>5. QED
      BY <3>1, <3>2, <3>3, <3>4 DEF OnItsWay, Old
  <2>7. ASSUME NEW a \in Clients, NEW q \in QoS, NEW g \in Gens, Add(a, q, g)
        PROVE  retained'[t] \in got'[c] \/ OnItsWay(retained[t], c, k)'
    <3>1. /\ pc[a] = "add" /\ pc' = [pc EXCEPT ![a] = "retained"]
          /\ UNCHANGED <<status, topic, retained, rmsgs, cur, subs, got>>
      BY <2>7 DEF Add
    <3>2. CASE a = c /\ k = topic[c]
      BY <3>1, <3>2 DEF OnItsWay, Old
    <3>3. CASE ~ (a = c /\ k = topic[c])
      <4>1. subMap'[c][k] = subMap[c][k]
        BY <2>0, <2>7, <3>3 DEF Add
      <4>2. Old
        BY <2>1, <3>1, <4>1
      <4>3. QED
        BY <3>1, <4>1, <4>2 DEF OnItsWay, Old
    <3>4. QED
      BY <3>2, <3>3
  <2>8. ASSUME NEW a \in Clients, NEW q \in QoS, AddFails(a, q)
        PROVE  retained'[t] \in got'[c] \/ OnItsWay(retained[t], c, k)'
    <3>1. Old
      BY <2>1, <2>8 DEF AddFails
    <3>2. Kept
      BY <2>8 DEF AddFails
    <3>3. QED
      BY <2>k, <3>1, <3>2
  <2>9. ASSUME NEW a \in Clients, CollectRetained(a)
        PROVE  retained'[t] \in got'[c] \/ OnItsWay(retained[t], c, k)'
    <3>1. Old
      BY <2>1, <2>9 DEF CollectRetained
    <3>2. CASE a = c /\ topic[c] = k
      <4>1. retained[t] \in rmsgs'[c] /\ pc'[c] = "sub"
        BY <2>9, <3>1, <3>2 DEF CollectRetained, Retained
      <4>2. QED
        BY <3>1, <4>1 DEF OnItsWay, Old
    <3>3. CASE ~ (a = c /\ topic[c] = k)
      <4>1. /\ pc[a] = "retained" /\ pc' = [pc EXCEPT ![a] = "sub"]
            /\ topic' = [topic EXCEPT ![a] = None]
            /\ UNCHANGED <<subMap, cur, subs, got>>
            /\ \A d \in Clients : rmsgs[d] \subseteq rmsgs'[d]
        BY <2>9 DEF CollectRetained
      <4>2. CASE a = c
        <5>1. pc'[c] = "sub" /\ \A p \in Clients : cur[p] = retained[t] => pc'[p] = pc[p]
          <6>1. cur[c] = None /\ retained[t] # None
            BY <3>1, <4>1, <4>2 DEF Old
          <6>2. \A p \in Clients \ {c} : pc'[p] = pc[p]
            BY <4>1, <4>2
          <6>3. QED
            BY <4>1, <4>2, <6>1, <6>2
        <5>2. ~ (pc[c] = "retained" /\ topic[c] = k)
          BY <3>3, <4>2
        <5>3. CASE retained[t] \in got[c]
          BY <3>1, <4>1, <5>3 DEF Old
        <5>4. CASE retained[t] \in rmsgs[c]
          BY <3>1, <4>1, <5>1, <5>4 DEF OnItsWay, Old
        <5>5. CASE \E p \in Clients : Routed(p)
          BY <3>1, <4>1, <5>1, <5>5 DEF OnItsWay, Old
        <5>6. QED
          BY <3>1, <5>2, <5>3, <5>4, <5>5 DEF OnItsWay, Old
      <4>3. CASE a # c
        <5>1. Kept
          BY <4>1, <4>3
        <5>2. QED
          BY <2>k, <3>1, <5>1
      <4>4. QED
        BY <4>2, <4>3
    <3>4. QED
      BY <3>2, <3>3
  <2>10. ASSUME NEW a \in Clients, WriteSuback(a)
        PROVE  retained'[t] \in got'[c] \/ OnItsWay(retained[t], c, k)'
    <3>1. Old
      BY <2>1, <2>10 DEF WriteSuback
    <3>2. /\ \A d \in Clients : got[d] \subseteq got'[d]
          /\ status[a] = "connected" => rmsgs[a] \subseteq got'[a]
      <4>1. PICK P \in SUBSET Msgs : P = rmsgs[a]
        OBVIOUS
      <4>2. Written(a, P)
        BY <2>10, <4>1 DEF WriteSuback
      <4>3. got \in [Clients -> SUBSET Msgs]
        OBVIOUS
      <4>4. /\ \A d \in Clients : got[d] \subseteq got'[d]
            /\ status[a] = "connected" => P \subseteq got'[a]
        BY <4>2, <4>3, WrittenGrows, Zenon
      <4>5. QED
        BY <4>1, <4>4
    <3>3. /\ pc[a] = "sub" /\ pc' = [pc EXCEPT ![a] = "idle"]
          /\ UNCHANGED <<status, topic, subMap, rmsgs, cur, subs>>
      BY <2>10 DEF WriteSuback
    <3>4. QED
      BY <3>1, <3>2, <3>3 DEF OnItsWay, Old
  <2>11. ASSUME NEW a \in Clients, NEW m \in Msgs, ProcessPublish(a, m)
        PROVE  retained'[t] \in got'[c] \/ OnItsWay(retained[t], c, k)'
    <3>1. /\ pc[a] = "idle" /\ cur[a] = None
          /\ pc' = [pc EXCEPT ![a] = "match"] /\ cur' = [cur EXCEPT ![a] = m]
          /\ UNCHANGED <<status, topic, subMap, rmsgs, subs, got>>
      BY <2>11 DEF ProcessPublish
    <3>2. CASE retained'[t] = m
      BY <3>1, <3>2 DEF OnItsWay, Old
    <3>3. CASE retained'[t] # m
      <4>1. retained'[t] = retained[t]
        BY <2>0, <2>11, <3>3 DEF ProcessPublish
      <4>2. Old
        BY <2>1, <3>1, <4>1
      <4>3. QED
        BY <3>1, <4>1, <4>2 DEF OnItsWay, Old
    <3>4. QED
      BY <3>2, <3>3
  <2>12. ASSUME NEW a \in Clients, MatchSubscribers(a)
        PROVE  retained'[t] \in got'[c] \/ OnItsWay(retained[t], c, k)'
    <3>1. Old
      BY <2>1, <2>12 DEF MatchSubscribers
    <3>2. /\ pc[a] = "match" /\ pc' = [pc EXCEPT ![a] = "deliver"]
          /\ subs' = [subs EXCEPT ![a] = Subscribers(TopicOf[cur[a]])]
          /\ UNCHANGED <<status, topic, subMap, rmsgs, cur, got, retained>>
      BY <2>12 DEF MatchSubscribers
    <3>3. CASE cur[a] = retained[t]
      <4>1. TopicOf[cur[a]] = t
        BY <2>0, <3>1, <3>3 DEF Snapshots, Old
      <4>2. PICK e \in index : e.sub = subMap[c][k]
        BY <2>0, <3>2 DEF IndexAgrees
      <4>3. e.sub.key = k /\ e.filter = FilterOf[k]
        BY <2>0, <3>2, <4>2 DEF IndexAgrees, OwnSubscriptions
      <4>4. subMap[c][k] \in Subscribers(t)
        BY <4>2, <4>3 DEF Subscribers
      <4>5. subMap'[c][k] \in subs'[a] /\ cur'[a] = retained'[t]
        BY <3>2, <3>3, <4>1, <4>4
      <4>6. QED
        BY <3>2, <4>5 DEF OnItsWay, Old
    <3>4. CASE cur[a] # retained[t]
      BY <3>1, <3>2, <3>4 DEF OnItsWay, Old
    <3>5. QED
      BY <3>3, <3>4
  <2>13. ASSUME NEW a \in Clients, NEW s \in subs[a],
                Deliver(a, s) \/ DeliverShared(a, s)
        PROVE  retained'[t] \in got'[c] \/ OnItsWay(retained[t], c, k)'
    <3>1. UNCHANGED <<status, pc, topic, subMap, rmsgs, cur, retained>>
      BY <2>13 DEF Deliver, DeliverShared
    <3>2. Old
      BY <2>1, <3>1
    <3>3. /\ \A d \in Clients : got[d] \subseteq got'[d]
          /\ status[s.client] = "connected" /\ QosOf[cur[a]] # 2
                 => cur[a] \in got'[s.client]
      BY <2>13, PublishWrites, Zenon
    <3>4. \A d \in Clients \ {a} : subs'[d] = subs[d]
      BY <2>13 DEF Deliver, DeliverShared
    <3>5. subMap[c][k].client = c /\ subMap[c][k].key = k
      BY <2>0, <3>1 DEF OwnSubscriptions
    <3>6. subMap[c][k] \in subs[a] => subMap[c][k] \in subs'[a] \/ s = subMap[c][k]
      BY <2>13, <3>5 DEF Deliver, DeliverShared
    <3>7. CASE s = subMap[c][k] /\ cur[a] = retained[t]
      BY <3>1, <3>3, <3>5, <3>7
    <3>8. CASE ~ (s = subMap[c][k] /\ cur[a] = retained[t])
      BY <3>1, <3>2, <3>3, <3>4, <3>6, <3>8 DEF OnItsWay, Old
    <3>9. QED
      BY <3>7, <3>8
  <2>14. ASSUME NEW a \in Clients, PublishDone(a)
        PROVE  retained'[t] \in got'[c] \/ OnItsWay(retained[t], c, k)'
    <3>1. Old
      BY <2>1, <2>14 DEF PublishDone
    <3>2. Kept
      BY <2>14 DEF PublishDone
    <3>3. QED
      BY <2>k, <3>1, <3>2
  <2>15. ASSUME NEW a \in Clients, PeerLeaves(a) \/ Close(a)
        PROVE  retained'[t] \in got'[c] \/ OnItsWay(retained[t], c, k)'
    <3>1. UNCHANGED <<pc, topic, subMap, rmsgs, cur, subs, retained, got>>
      BY <2>15 DEF PeerLeaves, Close
    <3>2. status[c] = "connected"
      BY <2>15 DEF PeerLeaves, Close
    <3>3. QED
      BY <2>1, <3>1, <3>2 DEF OnItsWay, Old
  <2>16. CASE UNCHANGED vars
    BY <2>1, <2>16 DEF vars, OnItsWay, Old
  <2>17. QED
    BY <2>2, <2>3, <2>4, <2>5, <2>6, <2>7, <2>8, <2>9, <2>10, <2>11, <2>12,
       <2>13, <2>14, <2>15, <2>16, NextCases, Zenon
<1>3. QED
  BY <1>1, <1>2, TypeCorrect, StoreCorrect, SnapshotsCorrect, PTL DEF Spec

-----------------------------------------------------------------------------

\* A SUBACK gives its client packets of rmsgs only.
LEMMA SubackWrites ==
    ASSUME TypeOK, NEW a \in Clients, WriteSuback(a)
    PROVE  /\ \A d \in Clients : got'[d] \subseteq got[d] \cup rmsgs[d]
           /\ \A d \in Clients \ {a} : got'[d] = got[d]
<1> USE ClientSubsAssumption DEF ClientSubsAssumption, TypeOK
<1>1. PICK P \in SUBSET Msgs : P = rmsgs[a]
  OBVIOUS
<1>2. Written(a, P)
  BY <1>1 DEF WriteSuback
<1>3. /\ \A d \in Clients : got'[d] \subseteq got[d] \cup P
      /\ \A d \in Clients \ {a} : got'[d] = got[d]
  BY <1>2, WrittenGrows
<1>4. QED
  BY <1>1, <1>3

\* Whatever was asked for covers what is on its way and what was written.
THEOREM OnlyAsked == Spec => [](AskedFor /\ OnlyWhatWasAsked)
<1> USE ClientSubsAssumption DEF ClientSubsAssumption
<1> DEFINE Base == TypeOK /\ IndexAgrees /\ OwnSubscriptions /\ Snapshots
<1>1. Init => AskedFor /\ OnlyWhatWasAsked
  BY DEF Init, AskedFor, OnlyWhatWasAsked
<1>2. Base /\ Base' /\ AskedFor /\ OnlyWhatWasAsked /\ [Next]_vars
          => AskedFor' /\ OnlyWhatWasAsked'
  <2> SUFFICES ASSUME Base, Base', AskedFor, OnlyWhatWasAsked, [Next]_vars
               PROVE  AskedFor' /\ OnlyWhatWasAsked'
    OBVIOUS
  <2> DEFINE Covered(c, m) == \E k \in asked[c] : TopicOf[m] \in Match[FilterOf[k]]
             Goal == AskedFor' /\ OnlyWhatWasAsked'
  <2> USE DEF TypeOK, Goto, handlerVars, routeVars
  <2>1. \A e \in index : e.sub.key \in asked[e.sub.client]
    BY DEF AskedFor
  <2>2. \A c \in Clients : \A m \in got[c] \cup rmsgs[c] : Covered(c, m)
    BY DEF AskedFor, OnlyWhatWasAsked
  <2>3. ASSUME UNCHANGED asked, index' \subseteq index,
               \A c \in Clients : pc'[c] = "retained" =>
                    pc[c] = "retained" /\ topic'[c] = topic[c],
               \A c \in Clients : cur'[c] # None =>
                    cur'[c] = cur[c] /\ subs'[c] \subseteq subs[c],
               \A c \in Clients : \A m \in got'[c] \cup rmsgs'[c] : Covered(c, m)
        PROVE  Goal
    <3> HIDE DEF Covered
    <3>1. \A c \in Clients : \A m \in got'[c] \cup rmsgs'[c] : Covered(c, m)'
      BY <2>3 DEF Covered
    <3>2. \A e \in index' : e.sub.key \in asked'[e.sub.client]
      BY <2>1, <2>3
    <3>3. \A c \in Clients : pc'[c] = "retained" => topic'[c] \in asked'[c]
      BY <2>3 DEF AskedFor
    <3>4. \A p \in Clients : cur'[p] # None =>
              \A s \in subs'[p] :
                  s.key \in asked'[s.client] /\ TopicOf[cur'[p]] \in Match[FilterOf[s.key]]
      BY <2>3 DEF AskedFor
    <3>5. QED
      BY <3>1, <3>2, <3>3, <3>4 DEF AskedFor, OnlyWhatWasAsked, Covered
  <2>4. ASSUME NEW a \in Clients, NoticeMatch(a) \/ NoticeDone(a) \/ PublishDone(a)
               \/ Close(a) \/ PeerLeaves(a)
        PROVE  Goal
    <3>1. UNCHANGED <<asked, index, got, rmsgs>>
      BY <2>4 DEF NoticeMatch, NoticeDone, PublishDone, Close, PeerLeaves
    <3>2. \A c \in Clients : pc'[c] = "retained" =>
                    pc[c] = "retained" /\ topic'[c] = topic[c]
      BY <2>4 DEF NoticeMatch, NoticeDone, PublishDone, Close, PeerLeaves
    <3>3. \A c \in Clients : cur'[c] # None => cur'[c] = cur[c] /\ subs'[c] \subseteq subs[c]
      BY <2>4 DEF NoticeMatch, NoticeDone, PublishDone, Close, PeerLeaves
    <3>4. QED
      BY <2>2, <2>3, <3>1, <3>2, <3>3
  <2>5. ASSUME NEW a \in Clients, NEW k \in Keys,
               SkipBadShare(a, k) \/ RemoveOld(a, k) \/ ProcessUnsubscribe(a, k)
        PROVE  Goal
    <3>1. UNCHANGED <<asked, got, rmsgs, cur, subs>>
      BY <2>5 DEF SkipBadShare, RemoveOld, ProcessUnsubscribe
    <3>2. index' \subseteq index
      BY <2>5 DEF SkipBadShare, RemoveOld, ProcessUnsubscribe, Forget, Store!Remove
    <3>3. \A c \in Clients : pc'[c] = "retained" =>
                    pc[c] = "retained" /\ topic'[c] = topic[c]
      BY <2>5 DEF SkipBadShare, RemoveOld, ProcessUnsubscribe, NextTopic
    <3>4. QED
      BY <2>2, <2>3, <3>1, <3>2, <3>3
  <2>6. ASSUME NEW a \in Clients, NEW q \in QoS, AddFails(a, q) PROVE Goal
    <3>1. UNCHANGED <<asked, index, got, rmsgs, cur, subs>>
      BY <2>6 DEF AddFails
    <3>2. \A c \in Clients : pc'[c] = "retained" =>
                    pc[c] = "retained" /\ topic'[c] = topic[c]
      BY <2>6 DEF AddFails
    <3>3. QED
      BY <2>2, <2>3, <3>1, <3>2
  <2>7. ASSUME NEW a \in Clients, NEW q \in QoS, NEW g \in Gens, Add(a, q, g) PROVE Goal
    <3> DEFINE k == topic[a]
               s == [client |-> a, key |-> k, gen |-> g]
               n == [filter |-> FilterOf[k], sub |-> s, qos |-> q]
    <3>1. /\ pc[a] = "add" /\ k \in Keys /\ pc' = [pc EXCEPT ![a] = "retained"]
          /\ asked' = [asked EXCEPT ![a] = @ \cup {k}]
          /\ UNCHANGED <<topic, got, rmsgs, cur, subs>>
      BY <2>7 DEF Add
    <3>2. index' \subseteq index \cup {n}
      BY <2>7 DEF Add, Store!Add
    <3>3. n.sub.client = a /\ n.sub.key = k
      OBVIOUS
    <3> HIDE DEF n, s
    <3>4. \A c \in Clients : asked[c] \subseteq asked'[c]
      BY <3>1
    <3>5. k \in asked'[a]
      BY <3>1
    <3>6. \A e \in index' : e.sub.key \in asked'[e.sub.client]
      <4> SUFFICES ASSUME NEW e \in index' PROVE e.sub.key \in asked'[e.sub.client]
        OBVIOUS
      <4>1. CASE e = n
        BY <3>3, <3>5, <4>1
      <4>2. CASE e \in index
        <5>1. e.sub.client \in Clients
          BY <4>2 DEF Subscription
        <5>2. QED
          BY <2>1, <3>4, <4>2, <5>1
      <4>3. QED
        BY <3>2, <4>1, <4>2
    <3>7. \A c \in Clients : pc'[c] = "retained" => topic'[c] \in asked'[c]
      BY <3>1, <3>4, <3>5 DEF AskedFor
    <3>8. \A p \in Clients : cur'[p] # None =>
              \A r \in subs'[p] :
                  r.key \in asked'[r.client] /\ TopicOf[cur'[p]] \in Match[FilterOf[r.key]]
      <4> SUFFICES ASSUME NEW p \in Clients, cur'[p] # None, NEW r \in subs'[p]
                   PROVE  r.key \in asked'[r.client] /\ TopicOf[cur'[p]] \in Match[FilterOf[r.key]]
        OBVIOUS
      <4>1. cur'[p] = cur[p] /\ r \in subs[p]
        BY <3>1
      <4>2. r.client \in Clients
        BY <4>1 DEF Subscription
      <4>3. r.key \in asked[r.client] /\ TopicOf[cur[p]] \in Match[FilterOf[r.key]]
        BY <4>1 DEF AskedFor
      <4>4. QED
        BY <3>4, <4>1, <4>2, <4>3
    <3>9. \A c \in Clients : \A m \in got'[c] \cup rmsgs'[c] : Covered(c, m)'
      BY <2>2, <3>1, <3>4
    <3>10. QED
      BY <3>6, <3>7, <3>8, <3>9 DEF AskedFor, OnlyWhatWasAsked
  <2>8. ASSUME NEW a \in Clients, CollectRetained(a) PROVE Goal
    <3> DEFINE f == FilterOf[topic[a]]
    <3>1. /\ pc[a] = "retained" /\ topic[a] \in Keys
          /\ rmsgs' = [rmsgs EXCEPT ![a] = @ \cup Retained(f)]
          /\ UNCHANGED <<asked, index, got, cur, subs>>
      BY <2>8 DEF CollectRetained
    <3>2. \A c \in Clients : pc'[c] = "retained" =>
                    pc[c] = "retained" /\ topic'[c] = topic[c]
      BY <2>8 DEF CollectRetained
    <3>3. \A m \in Retained(f) : Covered(a, m)
      <4> SUFFICES ASSUME NEW m \in Retained(f) PROVE Covered(a, m)
        OBVIOUS
      <4>1. PICK t \in Match[f] : m = retained[t] /\ m # None
        BY DEF Retained
      <4>2. t \in Topics
        BY <3>1
      <4>3. TopicOf[m] = t
        BY <4>1, <4>2 DEF Snapshots
      <4>4. topic[a] \in asked[a]
        BY <3>1 DEF AskedFor
      <4>5. QED
        BY <4>3, <4>4
    <3> HIDE DEF Covered
    <3>4. \A c \in Clients : \A m \in got'[c] \cup rmsgs'[c] : Covered(c, m)
      BY <2>2, <3>1, <3>3
    <3>5. QED
      BY <2>3, <3>1, <3>2, <3>4
  <2>9. ASSUME NEW a \in Clients, WriteSuback(a) PROVE Goal
    <3>1. UNCHANGED <<asked, index, rmsgs, cur, subs>>
      BY <2>9 DEF WriteSuback
    <3>2. \A c \in Clients : pc'[c] = "retained" =>
                    pc[c] = "retained" /\ topic'[c] = topic[c]
      BY <2>9 DEF WriteSuback
    <3>3. \A c \in Clients : got'[c] \subseteq got[c] \cup rmsgs[c]
      BY <2>9, SubackWrites
    <3> HIDE DEF Covered
    <3>4. \A c \in Clients : \A m \in got'[c] \cup rmsgs'[c] : Covered(c, m)
      BY <2>2, <3>1, <3>3
    <3>5. QED
      BY <2>3, <3>1, <3>2, <3>4
  <2>10. ASSUME NEW a \in Clients, NEW m \in Msgs, ProcessPublish(a, m) PROVE Goal
    <3>1. /\ pc[a] = "idle" /\ pc' = [pc EXCEPT ![a] = "match"]
          /\ cur' = [cur EXCEPT ![a] = m]
          /\ UNCHANGED <<topic, asked, index, got, rmsgs, subs>>
      BY <2>10 DEF ProcessPublish
    <3>2. subs[a] = {}
      BY <3>1 DEF Snapshots
    <3>3. \A p \in Clients : cur'[p] # None =>
              \A r \in subs'[p] :
                  r.key \in asked'[r.client] /\ TopicOf[cur'[p]] \in Match[FilterOf[r.key]]
      BY <3>1, <3>2 DEF AskedFor
    <3>4. \A c \in Clients : pc'[c] = "retained" => topic'[c] \in asked'[c]
      BY <3>1 DEF AskedFor
    <3>5. QED
      BY <2>1, <2>2, <3>1, <3>3, <3>4 DEF AskedFor, OnlyWhatWasAsked
  <2>11. ASSUME NEW a \in Clients, MatchSubscribers(a) PROVE Goal
    <3>1. /\ pc[a] = "match" /\ pc' = [pc EXCEPT ![a] = "deliver"]
          /\ subs' = [subs EXCEPT ![a] = Subscribers(TopicOf[cur[a]])]
          /\ UNCHANGED <<topic, asked, index, got, rmsgs, cur>>
      BY <2>11 DEF MatchSubscribers
    <3>2. \A r \in Subscribers(TopicOf[cur[a]]) :
              r.key \in asked[r.client] /\ TopicOf[cur[a]] \in Match[FilterOf[r.key]]
      <4> SUFFICES ASSUME NEW r \in Subscribers(TopicOf[cur[a]])
                   PROVE  r.key \in asked[r.client] /\ TopicOf[cur[a]] \in Match[FilterOf[r.key]]
        OBVIOUS
      <4>1. PICK e \in index : e.sub = r /\ TopicOf[cur[a]] \in Match[e.filter]
        BY DEF Subscribers
      <4>2. QED
        BY <2>1, <4>1 DEF IndexAgrees
    <3>3. \A p \in Clients : cur'[p] # None =>
              \A r \in subs'[p] :
                  r.key \in asked'[r.client] /\ TopicOf[cur'[p]] \in Match[FilterOf[r.key]]
      BY <3>1, <3>2 DEF AskedFor
    <3>4. \A c \in Clients : pc'[c] = "retained" => topic'[c] \in asked'[c]
      BY <3>1 DEF AskedFor
    <3>5. QED
      BY <2>1, <2>2, <3>1, <3>3, <3>4 DEF AskedFor, OnlyWhatWasAsked
  <2>12. ASSUME NEW a \in Clients, NEW s \in subs[a], NoticeWrite(a, s) PROVE Goal
    <3>1. UNCHANGED <<pc, topic, asked, index, got, rmsgs, cur>>
      BY <2>12 DEF NoticeWrite
    <3>2. \A c \in Clients : subs'[c] \subseteq subs[c]
      BY <2>12 DEF NoticeWrite
    <3>3. QED
      BY <2>2, <2>3, <3>1, <3>2
  <2>13. ASSUME NEW a \in Clients, NEW s \in subs[a],
                Deliver(a, s) \/ DeliverShared(a, s)
         PROVE  Goal
    <3>1. UNCHANGED <<pc, topic, asked, index, rmsgs, cur>>
      BY <2>13 DEF Deliver, DeliverShared
    <3>2. \A c \in Clients : subs'[c] \subseteq subs[c]
      <4>1. PICK X \in SUBSET subs[a] : subs' = [subs EXCEPT ![a] = X]
        BY <2>13 DEF Deliver, DeliverShared
      <4>2. QED
        BY <4>1
    <3>3. /\ s.client \in Clients /\ s.key \in Keys /\ cur[a] \in Msgs
          /\ \A c \in Clients : got'[c] \subseteq got[c] \cup {cur[a]}
          /\ \A c \in Clients \ {s.client} : got'[c] = got[c]
      BY <2>13, PublishWrites, Zenon
    <3>4. Covered(s.client, cur[a])
      <4>1. cur[a] # None
        BY <3>3
      <4>2. s.key \in asked[s.client] /\ TopicOf[cur[a]] \in Match[FilterOf[s.key]]
        BY <4>1 DEF AskedFor
      <4>3. QED
        BY <4>2
    <3> HIDE DEF Covered
    <3>5. \A c \in Clients : \A m \in got'[c] \cup rmsgs'[c] : Covered(c, m)
      <4> SUFFICES ASSUME NEW c \in Clients, NEW m \in got'[c] \cup rmsgs'[c]
                   PROVE  Covered(c, m)
        OBVIOUS
      <4>1. CASE c = s.client
        BY <2>2, <3>1, <3>3, <3>4, <4>1
      <4>2. CASE c # s.client
        BY <2>2, <3>1, <3>3, <4>2
      <4>3. QED
        BY <4>1, <4>2
    <3>6. QED
      BY <2>3, <3>1, <3>2, <3>5
  <2>14. CASE UNCHANGED vars
    BY <2>2, <2>3, <2>14 DEF vars
  <2>15. QED
    BY <2>4, <2>5, <2>6, <2>7, <2>8, <2>9, <2>10, <2>11, <2>12, <2>13, <2>14,
       NextCases, Zenon
<1>3. QED
  BY <1>1, <1>2, TypeCorrect, StoreCorrect, SnapshotsCorrect, PTL DEF Spec

-----------------------------------------------------------------------------

\* A packet has one publisher, and nobody holds it before it is published.
THEOREM PublishedOnceCorrect == Spec => []PublishedOnce
<1> USE ClientSubsAssumption DEF ClientSubsAssumption
<1>1. Init => PublishedOnce
  BY DEF Init, PublishedOnce
<1>2. TypeOK /\ PublishedOnce /\ [Next]_vars => PublishedOnce'
  <2> SUFFICES ASSUME TypeOK, PublishedOnce, [Next]_vars PROVE PublishedOnce'
    OBVIOUS
  <2> USE DEF TypeOK, Goto, handlerVars, routeVars
  <2>1. ASSUME UNCHANGED <<sent, retained>>,
               \A p \in Clients : cur'[p] = cur[p] \/ cur'[p] = None,
               \A c \in Clients : rmsgs'[c] \cup got'[c] \subseteq sent
        PROVE  PublishedOnce'
    BY <2>1 DEF PublishedOnce
  <2>2. \A c \in Clients : rmsgs[c] \cup got[c] \subseteq sent
    BY DEF PublishedOnce
  <2>3. ASSUME NEW a \in Clients, NoticeMatch(a) \/ NoticeDone(a) \/ PublishDone(a)
               \/ MatchSubscribers(a) \/ Close(a) \/ PeerLeaves(a)
        PROVE  PublishedOnce'
    <3>1. UNCHANGED <<sent, retained, rmsgs, got>>
      BY <2>3 DEF NoticeMatch, NoticeDone, PublishDone, MatchSubscribers, Close, PeerLeaves
    <3>2. \A p \in Clients : cur'[p] = cur[p] \/ cur'[p] = None
      BY <2>3 DEF NoticeMatch, NoticeDone, PublishDone, MatchSubscribers, Close, PeerLeaves
    <3>3. QED
      BY <2>1, <2>2, <3>1, <3>2
  <2>4. ASSUME NEW a \in Clients, NEW k \in Keys,
               SkipBadShare(a, k) \/ RemoveOld(a, k) \/ ProcessUnsubscribe(a, k)
        PROVE  PublishedOnce'
    <3>1. UNCHANGED <<sent, retained, rmsgs, got, cur>>
      BY <2>4 DEF SkipBadShare, RemoveOld, ProcessUnsubscribe
    <3>2. QED
      BY <2>1, <2>2, <3>1
  <2>5. ASSUME NEW a \in Clients, NEW q \in QoS,
               AddFails(a, q) \/ \E g \in Gens : Add(a, q, g)
        PROVE  PublishedOnce'
    <3>1. UNCHANGED <<sent, retained, rmsgs, got, cur>>
      BY <2>5 DEF AddFails, Add
    <3>2. QED
      BY <2>1, <2>2, <3>1
  <2>6. ASSUME NEW a \in Clients, CollectRetained(a) PROVE PublishedOnce'
    <3>1. /\ topic[a] \in Keys /\ UNCHANGED <<sent, retained, got, cur>>
          /\ rmsgs' = [rmsgs EXCEPT ![a] = @ \cup Retained(FilterOf[topic[a]])]
      BY <2>6 DEF CollectRetained
    <3>2. Retained(FilterOf[topic[a]]) \subseteq sent
      BY <3>1 DEF Retained, PublishedOnce
    <3>3. QED
      BY <2>1, <2>2, <3>1, <3>2
  <2>7. ASSUME NEW a \in Clients, WriteSuback(a) PROVE PublishedOnce'
    <3>1. UNCHANGED <<sent, retained, rmsgs, cur>>
      BY <2>7 DEF WriteSuback
    <3>2. \A d \in Clients : got'[d] \subseteq got[d] \cup rmsgs[d]
      BY <2>7, SubackWrites
    <3>3. QED
      BY <2>1, <2>2, <3>1, <3>2
  <2>8. ASSUME NEW a \in Clients, NEW m \in Msgs, ProcessPublish(a, m)
        PROVE  PublishedOnce'
    <3>1. /\ m \notin sent /\ sent' = sent \cup {m} /\ cur' = [cur EXCEPT ![a] = m]
          /\ UNCHANGED <<rmsgs, got>>
      BY <2>8 DEF ProcessPublish
    <3>2. \A t \in Topics : retained'[t] # None => retained'[t] \in sent'
      BY <2>8 DEF ProcessPublish, PublishedOnce
    <3>3. QED
      BY <3>1, <3>2 DEF PublishedOnce
  <2>9. ASSUME NEW a \in Clients, NEW s \in subs[a], NoticeWrite(a, s) PROVE PublishedOnce'
    <3>1. UNCHANGED <<sent, retained, rmsgs, got, cur>>
      BY <2>9 DEF NoticeWrite
    <3>2. QED
      BY <2>1, <2>2, <3>1
  <2>10. ASSUME NEW a \in Clients, NEW s \in subs[a],
                Deliver(a, s) \/ DeliverShared(a, s)
         PROVE  PublishedOnce'
    <3>1. UNCHANGED <<sent, retained, rmsgs, cur>>
      BY <2>10 DEF Deliver, DeliverShared
    <3>2. /\ cur[a] \in Msgs
          /\ \A c \in Clients : got'[c] \subseteq got[c] \cup {cur[a]}
      BY <2>10, PublishWrites, Zenon
    <3>3. cur[a] \in sent
      BY <3>2 DEF PublishedOnce
    <3>4. QED
      BY <2>1, <2>2, <3>1, <3>2, <3>3
  <2>11. CASE UNCHANGED vars
    BY <2>1, <2>2, <2>11 DEF vars
  <2>12. QED
    BY <2>3, <2>4, <2>5, <2>6, <2>7, <2>8, <2>9, <2>10, <2>11, NextCases, Zenon
<1>3. QED
  BY <1>1, <1>2, TypeCorrect, PTL DEF Spec

\* At most one of the clients with only shared subscriptions gets a packet.
THEOREM OneShared == Spec => [](SharedIsLast /\ OneOfTheShared)
<1> USE ClientSubsAssumption DEF ClientSubsAssumption
<1> DEFINE Base == TypeOK /\ Snapshots /\ AskedFor /\ PublishedOnce
<1>1. Init => SharedIsLast /\ OneOfTheShared
  BY DEF Init, SharedIsLast, OneOfTheShared
<1>2. Base /\ Base' /\ SharedIsLast /\ OneOfTheShared /\ [Next]_vars
          => SharedIsLast' /\ OneOfTheShared'
  <2> SUFFICES ASSUME Base, Base', SharedIsLast, OneOfTheShared, [Next]_vars
               PROVE  SharedIsLast' /\ OneOfTheShared'
    OBVIOUS
  <2> DEFINE Goal == SharedIsLast' /\ OneOfTheShared'
  <2> USE DEF TypeOK, Goto, handlerVars, routeVars
  <2>1. ASSUME \A c \in Clients : asked[c] \subseteq asked'[c],
               \A c \in Clients : got'[c] \ Retain \subseteq got[c],
               \A p \in Clients : cur'[p] # None =>
                   /\ cur'[p] = cur[p] /\ subs'[p] \subseteq subs[p]
                   /\ pc'[p] = "match" => pc[p] = "match"
        PROVE  Goal
    <3>1. SharedIsLast'
      <4> SUFFICES ASSUME NEW c \in Clients, NEW p \in Clients, asked'[c] \subseteq Shared,
                          cur'[p] # None, cur'[p] \in got'[c] \ Retain
                   PROVE  pc'[p] # "match" /\ subs'[p] = {}
        BY DEF SharedIsLast
      <4>1. asked[c] \subseteq Shared /\ cur[p] # None /\ cur[p] \in got[c] \ Retain
        BY <2>1
      <4>2. pc[p] # "match" /\ subs[p] = {}
        BY <4>1 DEF SharedIsLast
      <4>3. QED
        BY <2>1, <4>2
    <3>2. OneOfTheShared'
      <4> SUFFICES ASSUME NEW c \in Clients, NEW d \in Clients, c # d,
                          asked'[c] \cup asked'[d] \subseteq Shared,
                          NEW m \in Msgs \ Retain, m \in got'[c], m \in got'[d]
                   PROVE  FALSE
        BY DEF OneOfTheShared
      <4>1. asked[c] \cup asked[d] \subseteq Shared /\ m \in got[c] /\ m \in got[d]
        BY <2>1
      <4>2. QED
        BY <4>1 DEF OneOfTheShared
    <3>3. QED
      BY <3>1, <3>2
  <2>2. ASSUME NEW a \in Clients, NoticeMatch(a) \/ NoticeDone(a) \/ PublishDone(a)
               \/ Close(a) \/ PeerLeaves(a)
        PROVE  Goal
    <3>1. UNCHANGED <<asked, got>>
      BY <2>2 DEF NoticeMatch, NoticeDone, PublishDone, Close, PeerLeaves
    <3>2. \A p \in Clients : cur'[p] # None =>
                   /\ cur'[p] = cur[p] /\ subs'[p] \subseteq subs[p]
                   /\ pc'[p] = "match" => pc[p] = "match"
      BY <2>2 DEF NoticeMatch, NoticeDone, PublishDone, Close, PeerLeaves
    <3>3. QED
      BY <2>1, <3>1, <3>2
  <2>3. ASSUME NEW a \in Clients, NEW k \in Keys,
               SkipBadShare(a, k) \/ RemoveOld(a, k) \/ ProcessUnsubscribe(a, k)
        PROVE  Goal
    <3>1. UNCHANGED <<asked, got, cur, subs>>
      BY <2>3 DEF SkipBadShare, RemoveOld, ProcessUnsubscribe
    <3>2. \A p \in Clients : pc'[p] = "match" => pc[p] = "match"
      BY <2>3 DEF SkipBadShare, RemoveOld, ProcessUnsubscribe
    <3>3. QED
      BY <2>1, <3>1, <3>2
  <2>4. ASSUME NEW a \in Clients, NEW q \in QoS,
               AddFails(a, q) \/ \E g \in Gens : Add(a, q, g)
        PROVE  Goal
    <3>1. UNCHANGED <<got, cur, subs>>
      BY <2>4 DEF AddFails, Add
    <3>2. \A p \in Clients : pc'[p] = "match" => pc[p] = "match"
      BY <2>4 DEF AddFails, Add
    <3>3. \A c \in Clients : asked[c] \subseteq asked'[c]
      <4>1. ASSUME AddFails(a, q) PROVE asked' = asked
        BY <4>1 DEF AddFails
      <4>2. ASSUME NEW g \in Gens, Add(a, q, g)
            PROVE  asked' = [asked EXCEPT ![a] = @ \cup {topic[a]}]
        BY <4>2 DEF Add
      <4>3. asked' = asked \/ asked' = [asked EXCEPT ![a] = @ \cup {topic[a]}]
        BY <2>4, <4>1, <4>2, Zenon
      <4>4. CASE asked' = asked
        BY <4>4
      <4>5. CASE asked' = [asked EXCEPT ![a] = @ \cup {topic[a]}]
        <5>1. asked \in [Clients -> SUBSET Keys]
          OBVIOUS
        <5> HIDE DEF TypeOK
        <5>2. QED
          BY <4>5, <5>1
      <4>6. QED
        BY <4>3, <4>4, <4>5
    <3>4. QED
      BY <2>1, <3>1, <3>2, <3>3
  <2>5. ASSUME NEW a \in Clients, CollectRetained(a) PROVE Goal
    <3>1. UNCHANGED <<asked, got, cur, subs>>
      BY <2>5 DEF CollectRetained
    <3>2. \A p \in Clients : pc'[p] = "match" => pc[p] = "match"
      BY <2>5 DEF CollectRetained
    <3>3. QED
      BY <2>1, <3>1, <3>2
  <2>6. ASSUME NEW a \in Clients, WriteSuback(a) PROVE Goal
    <3>1. UNCHANGED <<asked, cur, subs>>
      BY <2>6 DEF WriteSuback
    <3>2. \A p \in Clients : pc'[p] = "match" => pc[p] = "match"
      BY <2>6 DEF WriteSuback
    <3>3. \A c \in Clients : got'[c] \subseteq got[c] \cup rmsgs[c]
      BY <2>6, SubackWrites
    <3>4. \A c \in Clients : got'[c] \ Retain \subseteq got[c]
      BY <3>3
    <3>5. QED
      BY <2>1, <3>1, <3>2, <3>4
  <2>7. ASSUME NEW a \in Clients, NEW m \in Msgs, ProcessPublish(a, m) PROVE Goal
    <3>1. /\ m \notin sent /\ cur' = [cur EXCEPT ![a] = m]
          /\ pc' = [pc EXCEPT ![a] = "match"]
          /\ UNCHANGED <<asked, got, subs>>
      BY <2>7 DEF ProcessPublish
    <3>2. \A c \in Clients : m \notin got[c]
      BY <3>1 DEF PublishedOnce
    <3>3. SharedIsLast'
      BY <3>1, <3>2 DEF SharedIsLast
    <3>4. OneOfTheShared'
      BY <3>1 DEF OneOfTheShared
    <3>5. QED
      BY <3>3, <3>4
  <2>8. ASSUME NEW a \in Clients, MatchSubscribers(a) PROVE Goal
    <3>1. /\ pc[a] = "match" /\ pc' = [pc EXCEPT ![a] = "deliver"]
          /\ subs' = [subs EXCEPT ![a] = Subscribers(TopicOf[cur[a]])]
          /\ UNCHANGED <<asked, got, cur>>
      BY <2>8 DEF MatchSubscribers
    <3>2. SharedIsLast'
      BY <3>1 DEF SharedIsLast
    <3>3. OneOfTheShared'
      BY <3>1 DEF OneOfTheShared
    <3>4. QED
      BY <3>2, <3>3
  <2>9. ASSUME NEW a \in Clients, NEW s \in subs[a], NoticeWrite(a, s) PROVE Goal
    <3>1. UNCHANGED <<asked, got, cur, pc>>
      BY <2>9 DEF NoticeWrite
    <3>2. \A c \in Clients : subs'[c] \subseteq subs[c]
      BY <2>9 DEF NoticeWrite
    <3>3. QED
      BY <2>1, <3>1, <3>2
  <2>10. ASSUME NEW a \in Clients, NEW s \in subs[a],
                Deliver(a, s) \/ DeliverShared(a, s)
         PROVE  Goal
    <3>1. UNCHANGED <<asked, cur, pc>>
      BY <2>10 DEF Deliver, DeliverShared
    <3>2. \A c \in Clients : subs'[c] \subseteq subs[c]
      <4>1. PICK X \in SUBSET subs[a] : subs' = [subs EXCEPT ![a] = X]
        BY <2>10 DEF Deliver, DeliverShared
      <4>2. QED
        BY <4>1
    <3>3. /\ s.client \in Clients /\ s.key \in Keys
          /\ pc[a] = "deliver" /\ cur[a] \in Msgs
          /\ \A c \in Clients : got'[c] \subseteq got[c] \cup {cur[a]}
          /\ \A c \in Clients \ {s.client} : got'[c] = got[c]
      BY <2>10, PublishWrites, Zenon
    <3>4. cur[a] # None
      BY <3>3
    \* A client without other subscriptions gets it as the last of a snapshot.
    <3>5. CASE ~ (asked[s.client] \subseteq Shared)
      <4>1. SharedIsLast'
        <5> SUFFICES ASSUME NEW c \in Clients, NEW p \in Clients, asked'[c] \subseteq Shared,
                            cur'[p] # None, cur'[p] \in got'[c] \ Retain
                     PROVE  pc'[p] # "match" /\ subs'[p] = {}
          BY DEF SharedIsLast
        <5>1. c # s.client /\ cur[p] \in got[c] \ Retain
          BY <3>1, <3>3, <3>5
        <5>2. pc[p] # "match" /\ subs[p] = {}
          BY <3>1, <5>1 DEF SharedIsLast
        <5>3. QED
          BY <3>1, <3>2, <5>2
      <4>2. OneOfTheShared'
        <5> SUFFICES ASSUME NEW c \in Clients, NEW d \in Clients, c # d,
                            asked'[c] \cup asked'[d] \subseteq Shared,
                            NEW m \in Msgs \ Retain, m \in got'[c], m \in got'[d]
                     PROVE  FALSE
          BY DEF OneOfTheShared
        <5>1. c # s.client /\ d # s.client
          BY <3>1, <3>5
        <5>2. QED
          BY <3>1, <3>3, <5>1 DEF OneOfTheShared
      <4>3. QED
        BY <4>1, <4>2
    <3>6. CASE asked[s.client] \subseteq Shared
      <4>1. s.key \in Shared
        BY <3>4, <3>6 DEF AskedFor
      <4>2. subs'[a] = {}
        BY <2>10, <4>1 DEF Deliver, DeliverShared
      <4>3. \A c \in Clients : asked[c] \subseteq Shared => cur[a] \notin got[c] \ Retain
        BY <3>4 DEF SharedIsLast
      <4>4. SharedIsLast'
        <5> SUFFICES ASSUME NEW c \in Clients, NEW p \in Clients, asked'[c] \subseteq Shared,
                            cur'[p] # None, cur'[p] \in got'[c] \ Retain
                     PROVE  pc'[p] # "match" /\ subs'[p] = {}
          BY DEF SharedIsLast
        <5>1. CASE p = a
          BY <3>1, <3>3, <4>2, <5>1
        <5>2. CASE p # a
          <6>1. cur[p] # cur[a] /\ cur[p] # None
            BY <3>1, <5>2 DEF PublishedOnce
          <6>2. cur[p] \in got[c] \ Retain
            BY <3>1, <3>3, <6>1
          <6>3. pc[p] # "match" /\ subs[p] = {}
            BY <3>1, <6>1, <6>2 DEF SharedIsLast
          <6>4. QED
            BY <3>1, <3>2, <6>3
        <5>3. QED
          BY <5>1, <5>2
      <4>5. OneOfTheShared'
        <5> SUFFICES ASSUME NEW c \in Clients, NEW d \in Clients, c # d,
                            asked'[c] \cup asked'[d] \subseteq Shared,
                            NEW m \in Msgs \ Retain, m \in got'[c], m \in got'[d]
                     PROVE  FALSE
          BY DEF OneOfTheShared
        <5>1. ~ (m \in got[c] /\ m \in got[d])
          BY <3>1 DEF OneOfTheShared
        <5>2. m = cur[a]
          BY <3>3, <5>1
        <5>3. m \notin got[c] /\ m \notin got[d]
          BY <3>1, <4>3, <5>2
        <5>4. c = s.client /\ d = s.client
          BY <3>3, <5>3
        <5>5. QED
          BY <5>4
      <4>6. QED
        BY <4>4, <4>5
    <3>7. QED
      BY <3>5, <3>6
  <2>11. CASE UNCHANGED vars
    BY <2>1, <2>11 DEF vars
  <2>12. QED
    BY <2>2, <2>3, <2>4, <2>5, <2>6, <2>7, <2>8, <2>9, <2>10, <2>11, NextCases, Zenon
<1>3. QED
  BY <1>1, <1>2, TypeCorrect, SnapshotsCorrect, OnlyAsked, PublishedOnceCorrect,
     PTL DEF Spec

=============================================================================
