----------------------------- MODULE PublishPath -----------------------------
(***************************************************************************)
(* The way of a PUBLISH through the broker: processClientPublish of        *)
(* broker/publish.go, the QoS 2 receiver of broker/client.go (awaitingRel  *)
(* and its timers) and the bridge of rabbitmq/rabbitmq.go.                 *)
(*                                                                         *)
(* There is one publisher.  All its connections have the same client       *)
(* identifier, hence the same worker, but each has a *client of its own.   *)
(* The publisher is external: it repeats a QoS 2 packet whenever it likes  *)
(* and a QoS 1 packet only on a new connection, as MQTT asks.  An answer   *)
(* reaches it when it is written to the connection it uses.                *)
(*                                                                         *)
(* Entries of awaitingRel carry their age instead of a timestamp, and      *)
(* timers the ticks they have left.  Timers may be late.                   *)
(***************************************************************************)
EXTENDS Naturals, Sequences, FiniteSets

CONSTANTS
    Msgs,            \* messages of the publisher
    Ids,             \* MQTT packet identifiers
    IdOf,            \* the identifier the publisher gives to each message
    QosOf,           \* its two bits; 3 is no quality of service
    Bridged,         \* messages for the bridge: it is enabled, and the topic
                     \* contains neither "config" nor "command"
    Capacity,        \* of pchan
    AwaitRelTimeout, \* awaitRelTimeout, in clock ticks
    MaxAwaitingRel,  \* client.maxAwaitingRel: 0, no limit
    MaxConns,        \* bound: connections of the publisher
    MaxSends,        \* bound: messages the publisher sends in an execution
    MaxQueue,        \* bound: packets sent and not yet taken by the worker
    None

\* An entry of awaitingRel.
Entry == [age : 0..AwaitRelTimeout, msg : Msgs]

ASSUME PublishAssumption ==
    /\ IdOf \in [Msgs -> Ids]
    /\ QosOf \in [Msgs -> 0..3]
    /\ Bridged \subseteq Msgs
    /\ Capacity \in Nat \ {0}
    /\ AwaitRelTimeout \in Nat \ {0}
    /\ MaxAwaitingRel = 0
    /\ MaxConns \in Nat \ {0}
    /\ MaxSends \in Nat
    /\ MaxQueue \in Nat \ {0}
    /\ None \notin Msgs \cup Ids \cup Entry

Conns == 1..MaxConns

\* The messages that are acknowledged.
Acked == {m \in Msgs : QosOf[m] \in {1, 2}}

VARIABLES
    up,          \* the process: up, or why it has ended
    on,          \* the connection the publisher uses
    st,          \* how far the publisher is with each message
    inq,         \* packets on each connection
    pc,          \* what the worker does next
    cur,         \* the packet it processes
    awaitingRel, \* client.awaitingRel: the age and the message of each entry
    timers,      \* timers of expireAwaitingRel: who started them, ticks left
    exp,         \* running expireAwaitingRel: entries they have still to visit
    dropping,    \* the entry each of them has found too old and will delete
    pchan,       \* rabbitmq.pchan: how many messages it holds
    producer,    \* InitProducer: dial, loop
    routed,      \* history: how often ProcessPublishMessage got each message
    excused      \* history: messages whose entry expireAwaitingRel deleted, or
                 \* whose connection was lost before the PUBREC came

vars == <<up, on, st, inq, pc, cur, awaitingRel, timers, exp, dropping, pchan,
          producer, routed, excused>>

publisherVars == <<on, st, inq>>
workerVars == <<pc, cur, routed>>
relVars == <<awaitingRel, timers, exp, dropping, excused>>
bridgeVars == <<pchan, producer>>

Packets == [type : {"PUBLISH", "PUBREL"}, msg : Msgs]
NoPacket == [conn |-> 1, type |-> "none", msg |-> None]

Init ==
    /\ up = "up"
    /\ on = 1
    /\ st = [m \in Msgs |-> "new"]
    /\ inq = [k \in Conns |-> <<>>]
    /\ pc = "idle"
    /\ cur = NoPacket
    /\ awaitingRel = [k \in Conns |-> [i \in Ids |-> None]]
    /\ timers = [k \in Conns |-> {}]
    /\ exp = [k \in Conns |-> [i \in Ids |-> {}]]
    /\ dropping = [k \in Conns |-> [i \in Ids |-> None]]
    /\ pchan = 0
    /\ producer = "dial"
    /\ routed = [m \in Msgs |-> 0]
    /\ excused = {}

-----------------------------------------------------------------------------
(***************************************************************************)
(* The publisher.                                                          *)
(***************************************************************************)
Transmit(type, m) ==
    /\ Len(inq[on]) < MaxQueue
    /\ inq' = [inq EXCEPT ![on] = Append(@, [type |-> type, msg |-> m])]

\* A new message.  Its identifier must not be in use.
Send(m) ==
    /\ up = "up"
    /\ st[m] = "new"
    /\ \A n \in Msgs : IdOf[n] = IdOf[m] => st[n] \in {"new", "done"}
    /\ Cardinality({n \in Msgs : st[n] # "new"}) < MaxSends
    /\ Transmit("PUBLISH", m)
    /\ st' = [st EXCEPT ![m] = IF QosOf[m] \in {1, 2} THEN "sent" ELSE "done"]
    /\ UNCHANGED <<up, on, workerVars, relVars, bridgeVars>>

\* The PUBLISH again, as the message has not been acknowledged.
Resend(m) ==
    /\ up = "up"
    /\ \/ st[m] = "lost"
       \/ st[m] = "sent" /\ QosOf[m] = 2
    /\ Transmit("PUBLISH", m)
    /\ st' = [st EXCEPT ![m] = "sent"]
    /\ UNCHANGED <<up, on, workerVars, relVars, bridgeVars>>

\* PUBREL, the answer to a PUBREC, once or several times.
Release(m) ==
    /\ up = "up"
    /\ st[m] = "received"
    /\ Transmit("PUBREL", m)
    /\ UNCHANGED <<up, on, st, workerVars, relVars, bridgeVars>>

\* The connection breaks and the publisher makes a new one.  The broker has
\* read some of what was sent on the old one.
Reconnect ==
    /\ up = "up"
    /\ on < MaxConns
    /\ on' = on + 1
    /\ \E n \in 0..Len(inq[on]) : inq' = [inq EXCEPT ![on] = SubSeq(@, 1, n)]
    /\ st' = [m \in Msgs |-> IF st[m] = "sent" THEN "lost" ELSE st[m]]
    /\ excused' = excused \cup {m \in Msgs : st[m] = "sent"}
    /\ UNCHANGED <<up, workerVars, awaitingRel, timers, exp, dropping,
                   bridgeVars>>

-----------------------------------------------------------------------------
(***************************************************************************)
(* processClientPublish and the PUBREL case of ProcessMessage.             *)
(***************************************************************************)

\* The worker gets the next packet of connection k.
Take(k) ==
    /\ up = "up"
    /\ pc = "idle"
    /\ inq[k] # <<>>
    /\ cur' = [conn |-> k, type |-> Head(inq[k]).type, msg |-> Head(inq[k]).msg]
    /\ inq' = [inq EXCEPT ![k] = Tail(@)]
    /\ pc' = IF Head(inq[k]).type = "PUBREL" THEN "pubrel"
             ELSE IF Head(inq[k]).msg \in Bridged THEN "bridge" ELSE "qos"
    /\ UNCHANGED <<up, on, st, routed, relVars, bridgeVars>>

\* Mutant: the channel has no limit.
PublishUnbounded ==
    /\ up = "up"
    /\ pc = "bridge"
    /\ pchan' = pchan + 1
    /\ pc' = "qos"
    /\ UNCHANGED <<up, publisherVars, cur, routed, relVars, producer>>

\* PublishToStream: wait for room in the channel.
PublishToStream ==
    /\ up = "up"
    /\ pc = "bridge"
    /\ pchan < Capacity
    /\ pchan' = pchan + 1
    /\ pc' = "qos"
    /\ UNCHANGED <<up, publisherVars, cur, routed, relVars, producer>>

\* The worker goes on, or is done with the packet.
Goto(l) ==
    /\ pc' = l
    /\ cur' = IF l = "idle" THEN NoPacket ELSE cur

\* WritePacket of an answer.  On a connection that is broken it may fail, and
\* even if it does not nobody gets it.
Answer(from, to, next) ==
    \/ /\ cur.conn = on
       /\ st' = [st EXCEPT ![cur.msg] = IF @ = from THEN to ELSE @]
       /\ Goto(next)
    \/ /\ cur.conn # on
       /\ Goto("idle") \/ Goto(next)
       /\ UNCHANGED st

\* QoS 0: on to ProcessPublishMessage.
PublishQos0 ==
    /\ up = "up"
    /\ pc = "qos"
    /\ QosOf[cur.msg] = 0
    /\ Goto("route")
    /\ UNCHANGED <<up, publisherVars, routed, relVars, bridgeVars>>

\* Any other quality of service: the packet goes no further than the bridge.
PublishUnknownQos ==
    /\ up = "up"
    /\ pc = "qos"
    /\ QosOf[cur.msg] \notin 0..2
    /\ Goto("idle")
    /\ UNCHANGED <<up, publisherVars, routed, relVars, bridgeVars>>

\* Mutant: the message is not processed after the PUBACK.
WritePubackOnly ==
    /\ up = "up"
    /\ pc = "qos"
    /\ QosOf[cur.msg] = 1
    /\ Answer("sent", "done", "idle")
    /\ UNCHANGED <<up, on, inq, routed, relVars, bridgeVars>>

\* QoS 1: the PUBACK comes first.
WritePuback ==
    /\ up = "up"
    /\ pc = "qos"
    /\ QosOf[cur.msg] = 1
    /\ Answer("sent", "done", "route")
    /\ UNCHANGED <<up, on, inq, routed, relVars, bridgeVars>>

Held(k) == {i \in Ids : awaitingRel[k][i] # None}

\* Mutant: an identifier that is in use is registered again.
RegisterAgain ==
    LET k == cur.conn
        i == IdOf[cur.msg]
    IN  /\ up = "up"
        /\ pc = "qos"
        /\ QosOf[cur.msg] = 2
        /\ Goto("pubrec")
        /\ awaitingRel' = [awaitingRel EXCEPT ![k][i] = [age |-> 0, msg |-> cur.msg]]
        /\ timers' = [timers EXCEPT ![k] = @ \cup {[id |-> i, left |-> AwaitRelTimeout]}]
        /\ UNCHANGED <<up, publisherVars, routed, exp, dropping, excused, bridgeVars>>

\* registerPublishPacketId.  A packet whose identifier is in use is dropped
\* without an answer.  isAwaitingFull is false: maxAwaitingRel is never set.
Register ==
    LET k == cur.conn
        i == IdOf[cur.msg]
    IN  /\ up = "up"
        /\ pc = "qos"
        /\ QosOf[cur.msg] = 2
        /\ \/ /\ i \in Held(k)
              /\ Goto("idle")
              /\ UNCHANGED <<awaitingRel, timers>>
           \/ /\ i \notin Held(k)
              /\ Goto("pubrec")
              /\ awaitingRel' =
                    [awaitingRel EXCEPT ![k][i] = [age |-> 0, msg |-> cur.msg]]
              /\ timers' =
                    [timers EXCEPT ![k] = @ \cup {[id |-> i, left |-> AwaitRelTimeout]}]
        /\ UNCHANGED <<up, publisherVars, routed, exp, dropping, excused, bridgeVars>>

WritePubrec ==
    /\ up = "up"
    /\ pc = "pubrec"
    /\ Answer("sent", "received", "route")
    /\ UNCHANGED <<up, on, inq, routed, relVars, bridgeVars>>

\* ProcessPublishMessage.
Route ==
    /\ up = "up"
    /\ pc = "route"
    /\ routed' = [routed EXCEPT ![cur.msg] = IF @ < 2 THEN @ + 1 ELSE @]
    /\ Goto("idle")
    /\ UNCHANGED <<up, publisherVars, relVars, bridgeVars>>

\* Mutant: no PUBCOMP when pubRel returns an error.
PubRelSilent ==
    /\ up = "up"
    /\ pc = "pubrel"
    /\ awaitingRel' = [awaitingRel EXCEPT ![cur.conn][IdOf[cur.msg]] = None]
    /\ IF IdOf[cur.msg] \in Held(cur.conn)
         THEN Answer("received", "done", "idle")
         ELSE Goto("idle") /\ UNCHANGED st
    /\ UNCHANGED <<up, on, inq, routed, timers, exp, dropping, excused,
                   bridgeVars>>

\* pubRel and the PUBCOMP, which is sent whether or not there is an entry.
PubRel ==
    /\ up = "up"
    /\ pc = "pubrel"
    /\ awaitingRel' = [awaitingRel EXCEPT ![cur.conn][IdOf[cur.msg]] = None]
    /\ Answer("received", "done", "idle")
    /\ UNCHANGED <<up, on, inq, routed, timers, exp, dropping, excused,
                   bridgeVars>>

-----------------------------------------------------------------------------
(***************************************************************************)
(* expireAwaitingRel, on the goroutines of expired timers.                 *)
(***************************************************************************)
Fire(k, i) ==
    /\ up = "up"
    /\ [id |-> i, left |-> 0] \in timers[k]
    /\ exp[k][i] = {} /\ dropping[k][i] = None
    /\ timers' = [timers EXCEPT ![k] = @ \ {[id |-> i, left |-> 0]}]
    /\ exp' = [exp EXCEPT ![k][i] = Held(k)]
    /\ UNCHANGED <<up, publisherVars, workerVars, awaitingRel, dropping, excused,
                   bridgeVars>>

\* Mutant: off by one.
ExpiredLate(k, j) == j \in Held(k) /\ awaitingRel[k][j].age > AwaitRelTimeout

Expired(k, j) == j \in Held(k) /\ awaitingRel[k][j].age >= AwaitRelTimeout

\* One iteration of the loop over the map: read an entry and test its age.
Visit(k, i, j) ==
    /\ up = "up"
    /\ j \in exp[k][i] /\ dropping[k][i] = None
    /\ exp' = [exp EXCEPT ![k][i] = @ \ {j}]
    /\ dropping' = [dropping EXCEPT ![k][i] = IF Expired(k, j) THEN j ELSE None]
    /\ UNCHANGED <<up, publisherVars, workerVars, awaitingRel, timers, excused,
                   bridgeVars>>

\* Once the line is logged, delete what the identifier stands for by now.
Drop(k, i) ==
    LET j == dropping[k][i]
    IN  /\ up = "up"
        /\ j # None
        /\ dropping' = [dropping EXCEPT ![k][i] = None]
        /\ awaitingRel' = [awaitingRel EXCEPT ![k][j] = None]
        /\ excused' = excused \cup {m \in Msgs : j \in Held(k)
                                                 /\ awaitingRel[k][j].msg = m}
        /\ UNCHANGED <<up, publisherVars, workerVars, timers, exp, bridgeVars>>

\* Goroutines that are at awaitingRel of connection k, and those that are about
\* to change it.
Accessing(k) ==
    {i \in Ids : exp[k][i] # {} \/ dropping[k][i] # None}
        \cup (IF cur.conn = k /\ (pc = "pubrel" \/ (pc = "qos" /\ QosOf[cur.msg] = 2))
                THEN {"worker"} ELSE {})

Changing(k) ==
    {x \in Accessing(k) :
        IF x = "worker" THEN (pc = "pubrel") <=> (IdOf[cur.msg] \in Held(k))
                        ELSE dropping[k][x] # None}

\* The map has no lock: Go may notice an access during a change, which is a
\* fatal error, or the accesses may come one after the other.
MapRace(k) ==
    /\ up = "up"
    /\ \E x \in Changing(k), y \in Accessing(k) : x # y
    /\ up' = "race"
    /\ UNCHANGED <<publisherVars, workerVars, relVars, bridgeVars>>

\* The clock.  The loop of expireAwaitingRel takes no time, up to its last
\* delete; an age above the timeout is as good as the timeout.
Tick ==
    /\ up = "up"
    /\ \A k \in Conns, i \in Ids : exp[k][i] = {}
    /\ awaitingRel' = [k \in Conns |-> [i \in Ids |->
          IF i \in Held(k) /\ awaitingRel[k][i].age < AwaitRelTimeout
            THEN [awaitingRel[k][i] EXCEPT !.age = @ + 1] ELSE awaitingRel[k][i]]]
    /\ timers' = [k \in Conns |->
          {[t EXCEPT !.left = IF @ = 0 THEN 0 ELSE @ - 1] : t \in timers[k]}]
    /\ UNCHANGED <<up, publisherVars, workerVars, exp, dropping, excused, bridgeVars>>

-----------------------------------------------------------------------------
(***************************************************************************)
(* InitProducer, and the other clients that use the bridge.                *)
(***************************************************************************)

\* Dial and Channel; log.Fatal when either fails.
Dial ==
    /\ up = "up"
    /\ producer = "dial"
    /\ \/ producer' = "loop" /\ UNCHANGED up
       \/ up' = "dial" /\ UNCHANGED producer
    /\ UNCHANGED <<publisherVars, workerVars, relVars, pchan>>

\* A message is taken from the channel and published.  When that fails it is
\* dropped and the loop goes on.
Produce ==
    /\ up = "up"
    /\ producer = "loop"
    /\ pchan > 0
    /\ pchan' = pchan - 1
    /\ UNCHANGED <<up, publisherVars, workerVars, relVars, producer>>

OtherPublishes ==
    /\ up = "up"
    /\ pchan < Capacity
    /\ pchan' = pchan + 1
    /\ UNCHANGED <<up, publisherVars, workerVars, relVars, producer>>

-----------------------------------------------------------------------------
Publisher(m) == Send(m) \/ Resend(m) \/ Release(m)

Worker ==
    \/ \E k \in Conns : Take(k)
    \/ PublishToStream \/ PublishQos0 \/ PublishUnknownQos \/ WritePuback
    \/ Register \/ WritePubrec \/ Route \/ PubRel

Expire(k, i) == Fire(k, i) \/ Drop(k, i) \/ \E j \in Ids : Visit(k, i, j)

Next ==
    \/ \E m \in Msgs : Publisher(m)
    \/ Reconnect
    \/ Worker
    \/ \E k \in Conns : MapRace(k) \/ \E i \in Ids : Expire(k, i)
    \/ Tick
    \/ Dial \/ Produce \/ OtherPublishes

Spec == Init /\ [][Next]_vars

\* Goroutines that can run do so in the end; strongly for the send on the
\* channel to the bridge, which serves the senders that wait on it in turn
\* although other clients use it too.  The publisher goes on with what it has
\* begun whenever the connection takes another packet.
Fairness ==
    /\ WF_vars((\E k \in Conns : Take(k)) \/ PublishQos0 \/ PublishUnknownQos \/ Register)
    /\ SF_vars(PublishToStream)
    /\ WF_vars(Dial \/ Produce)
    /\ \A m \in Acked : SF_vars(Resend(m) \/ Release(m))

\* An assumption about the peers, not about the code: the publisher and the
\* subscribers go on reading, so that every WritePacket returns, the ones of
\* ProcessPublishMessage included.  WritePacket sets no write deadline.
WritesReturn == WF_vars(WritePuback \/ WritePubrec \/ Route \/ PubRel)

DrainSpec == Spec /\ Fairness /\ WritesReturn

-----------------------------------------------------------------------------
(***************************************************************************)
(* Properties.                                                             *)
(***************************************************************************)

\* The values the publisher, the worker, the timers and the bridge hold.
TypeOK ==
    /\ up \in {"up", "race", "dial"}
    /\ on \in Conns
    /\ st \in [Msgs -> {"new", "sent", "lost", "received", "done"}]
    /\ inq \in [Conns -> Seq(Packets)]
    /\ \A k \in Conns : Len(inq[k]) <= MaxQueue
    /\ pc \in {"idle", "bridge", "qos", "pubrec", "route", "pubrel"}
    /\ cur \in [conn : Conns, type : {"PUBLISH", "PUBREL"}, msg : Msgs] \cup {NoPacket}
    /\ pc = "idle" <=> cur = NoPacket
    /\ awaitingRel \in [Conns -> [Ids -> Entry \cup {None}]]
    /\ timers \in [Conns -> SUBSET [id : Ids, left : 0..AwaitRelTimeout]]
    /\ exp \in [Conns -> [Ids -> SUBSET Ids]]
    /\ dropping \in [Conns -> [Ids -> Ids \cup {None}]]
    /\ pchan \in 0..Capacity
    /\ producer \in {"dial", "loop"}
    /\ routed \in [Msgs -> 0..2]
    /\ excused \subseteq Msgs

\* A QoS 2 message is processed once, however often its PUBLISH is repeated,
\* unless an expireAwaitingRel has deleted its entry or the connection was
\* lost: a new *client knows nothing of the old awaitingRel.  The first excuse
\* covers an entry made between the test and the delete of a goroutine that
\* found an older entry of the same identifier (see Drop).
RoutedOnce ==
    \A m \in Msgs \ excused : QosOf[m] = 2 => routed[m] <= 1

\* An acknowledged message has been processed, or the worker is about to.
AckedIsRouted ==
    \A m \in Msgs :
        QosOf[m] \in {1, 2} /\ st[m] \in {"received", "done"} =>
            routed[m] > 0 \/ (pc = "route" /\ cur.msg = m)

\* No identifier stays refused for ever: the timer that was started with an
\* entry is pending until the entry is old enough, or its goroutine has still
\* to visit or to delete the entry.  Timers of earlier entries, the PUBREL and
\* the entries of other identifiers make no difference.
HeldIsWatched ==
    \A k \in Conns : \A i \in Held(k) :
        \/ [id |-> i, left |-> AwaitRelTimeout - awaitingRel[k][i].age] \in timers[k]
        \/ Expired(k, i) /\ i \in exp[k][i]
        \/ dropping[k][i] = i

\* The publisher gets every acknowledged delivery done: neither a full channel
\* to the bridge, nor packets dropped as duplicates, nor lost connections keep
\* it waiting for ever.  Of DrainSpec: all peers read what is written to them.
HandshakeEnds ==
    \A m \in Acked : (st[m] = "sent") ~> (st[m] = "done" \/ up # "up")

=============================================================================
