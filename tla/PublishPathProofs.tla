-------------------------- MODULE PublishPathProofs --------------------------
(***************************************************************************)
(* Proofs about PublishPath, for any messages, identifiers, number of      *)
(* connections, queue and channel sizes and timeout.                       *)
(***************************************************************************)
EXTENDS PublishPath, TLAPS

\* Packets, and what a queue of them holds and in which order.
IsPub(p, m) == p.type = "PUBLISH" /\ p.msg = m
IsRel(p, i) == p.type = "PUBREL" /\ IdOf[p.msg] = i

Pub(q, m) == \E j \in 1..Len(q) : IsPub(q[j], m)
Rel(q, i) == \E j \in 1..Len(q) : IsRel(q[j], i)

RelThenPub(q, m) ==
    \E a, b \in 1..Len(q) : a < b /\ IsRel(q[a], IdOf[m]) /\ IsPub(q[b], m)
PubThenRel(q, m) ==
    \E a, b \in 1..Len(q) : a < b /\ IsPub(q[a], m) /\ IsRel(q[b], IdOf[m])

\* The packet the worker has in hand, before it changes awaitingRel.
Taken(m, k) == pc \in {"bridge", "qos"} /\ cur.conn = k /\ cur.msg = m
Releasing(i, k) == pc = "pubrel" /\ cur.conn = k /\ IdOf[cur.msg] = i

HeldFor(m, k) ==
    awaitingRel[k][IdOf[m]] # None /\ awaitingRel[k][IdOf[m]].msg = m

\* The worker has registered the message, and processed it or is about to.
Started(m) ==
    routed[m] > 0 \/ (pc \in {"pubrec", "route"} /\ cur.msg = m)

\* Before that: its PUBLISHes are on the connection in use, and PUBRELs of its
\* identifier, left over from earlier messages, come before all of them.
Fresh(m) ==
    /\ st[m] \in {"new", "sent"}
    /\ \A k \in Conns : Pub(inq[k], m) \/ Taken(m, k) => k = on /\ st[m] = "sent"
    /\ \A k \in Conns : ~ PubThenRel(inq[k], m)
    /\ \A k \in Conns : Taken(m, k) => ~ Rel(inq[k], IdOf[m])

\* After it: wherever another PUBLISH of the message is waiting there is the
\* entry that refuses it, and no PUBREL that would remove the entry before.
Shielded(m) ==
    /\ st[m] # "new"
    /\ \A k \in Conns : Pub(inq[k], m) \/ Taken(m, k) => HeldFor(m, k)
    /\ \A k \in Conns : ~ RelThenPub(inq[k], m)
    /\ \A k \in Conns : Releasing(IdOf[m], k) => ~ Pub(inq[k], m)
    /\ st[m] = "sent" => /\ HeldFor(m, on)
                         /\ ~ Rel(inq[on], IdOf[m])
                         /\ ~ Releasing(IdOf[m], on)
    /\ pc \in {"pubrec", "route"} /\ cur.msg = m => routed[m] = 0
    /\ pc = "pubrec" /\ cur.msg = m => cur.conn = on /\ st[m] = "sent"
    /\ routed[m] <= 1

\* An identifier is in use by one message at a time.
OneInUse ==
    \A m, n \in Msgs :
        m # n /\ IdOf[m] = IdOf[n] => st[m] \in {"new", "done"} \/ st[n] \in {"new", "done"}

LostIsExcused == \A m \in Msgs : st[m] = "lost" => m \in excused

OnceInv ==
    \A m \in Msgs \ excused :
        QosOf[m] = 2 => IF Started(m) THEN Shielded(m) ELSE Fresh(m)

-----------------------------------------------------------------------------

\* Every case of a proof about Next.
LEMMA NextCases ==
    ASSUME [Next]_vars
    PROVE  \/ \E m \in Msgs : Send(m) \/ Resend(m) \/ Release(m)
           \/ Reconnect
           \/ \E k \in Conns : Take(k) \/ MapRace(k)
           \/ PublishToStream \/ PublishQos0 \/ PublishUnknownQos \/ WritePuback
           \/ Register \/ WritePubrec \/ Route \/ PubRel
           \/ \E k \in Conns, i \in Ids : Fire(k, i) \/ Drop(k, i)
           \/ \E k \in Conns, i \in Ids, j \in Ids : Visit(k, i, j)
           \/ Tick \/ Dial \/ Produce \/ OtherPublishes
           \/ UNCHANGED vars
  BY DEF Next, Publisher, Worker, Expire

\* What the worker has in hand when it is not idle.
LEMMA InHand ==
    ASSUME TypeOK, pc # "idle"
    PROVE  /\ cur \in [conn : Conns, type : {"PUBLISH", "PUBREL"}, msg : Msgs]
           /\ cur.conn \in Conns /\ cur.msg \in Msgs /\ IdOf[cur.msg] \in Ids
  BY PublishAssumption DEF PublishAssumption, TypeOK

\* Writing to a connection changes what the publisher knows about the packet
\* in hand only, and the worker goes on or drops it.
LEMMA AnswerSteps ==
    ASSUME TypeOK, pc # "idle", NEW from, NEW to \in {"received", "done"},
           NEW next \in {"route", "idle"}, Answer(from, to, next)
    PROVE  /\ st' \in [Msgs -> {"new", "sent", "lost", "received", "done"}]
           /\ \A n \in Msgs : n # cur.msg => st'[n] = st[n]
           /\ st'[cur.msg] = st[cur.msg] \/ (st[cur.msg] = from /\ st'[cur.msg] = to)
           /\ st'[cur.msg] # st[cur.msg] => pc' = next
           /\ cur.conn = on => pc' = next
           /\ cur.conn # on => st' = st
           /\ \/ pc' = next /\ next = "route" /\ cur' = cur
              \/ pc' = "idle" /\ cur' = NoPacket
<1>1. cur.msg \in Msgs
  BY InHand
<1>2. CASE cur.conn = on
  BY <1>1, <1>2 DEF Answer, Goto, TypeOK
<1>3. CASE cur.conn # on
  BY <1>1, <1>3 DEF Answer, Goto, TypeOK
<1>4. QED
  BY <1>2, <1>3

\* A step that sets one entry of awaitingRel.
LEMMA SetEntry ==
    ASSUME TypeOK, NEW k \in Conns, NEW i \in Ids, NEW e \in Entry \cup {None},
           awaitingRel' = [awaitingRel EXCEPT ![k][i] = e]
    PROVE  /\ awaitingRel' \in [Conns -> [Ids -> Entry \cup {None}]]
           /\ awaitingRel'[k][i] = e
           /\ \A h \in Conns, j \in Ids :
                 ~ (h = k /\ j = i) => awaitingRel'[h][j] = awaitingRel[h][j]
<1>1. awaitingRel \in [Conns -> [Ids -> Entry \cup {None}]]
  BY DEF TypeOK
<1>2. \A h \in Conns, j \in Ids :
          awaitingRel'[h][j] = IF h = k /\ j = i THEN e ELSE awaitingRel[h][j]
  BY <1>1
<1>3. \A h \in Conns : awaitingRel'[h] \in [Ids -> Entry \cup {None}]
  <2> SUFFICES ASSUME NEW h \in Conns PROVE awaitingRel'[h] \in [Ids -> Entry \cup {None}]
    OBVIOUS
  <2>1. CASE h = k
    <3>1. awaitingRel'[h] = [awaitingRel[k] EXCEPT ![i] = e]
      BY <1>1, <2>1
    <3>2. QED
      BY <1>1, <3>1
  <2>2. CASE h # k
    BY <1>1, <2>2
  <2>3. QED
    BY <2>1, <2>2
<1>4. awaitingRel' \in [Conns -> [Ids -> Entry \cup {None}]]
  <2>1. awaitingRel' = [h \in Conns |-> awaitingRel'[h]]
    BY <1>1
  <2>2. QED
    BY <1>3, <2>1
<1>5. QED
  BY <1>2, <1>4

\* Type correctness of the publisher's, the worker's and the bridge's state.
THEOREM TypeCorrect == Spec => []TypeOK
<1> USE PublishAssumption DEF PublishAssumption, Conns
<1>1. Init => TypeOK
  BY DEF Init, TypeOK, NoPacket
<1>2. TypeOK /\ [Next]_vars => TypeOK'
  <2> SUFFICES ASSUME TypeOK, [Next]_vars PROVE TypeOK'
    OBVIOUS
  <2> USE DEF publisherVars, workerVars, relVars, bridgeVars
  <2>1. ASSUME NEW m \in Msgs, NEW type \in {"PUBLISH", "PUBREL"}, Transmit(type, m)
        PROVE  /\ inq' \in [Conns -> Seq(Packets)]
               /\ \A k \in Conns : Len(inq'[k]) <= MaxQueue
    <3> DEFINE p == [type |-> type, msg |-> m]
    <3>1. p \in Packets
      BY DEF Packets
    <3>2. inq' = [inq EXCEPT ![on] = Append(@, p)] /\ Len(inq[on]) < MaxQueue
      BY <2>1 DEF Transmit
    <3> HIDE DEF p
    <3>3. QED
      BY <3>1, <3>2 DEF TypeOK
  <2>2. ASSUME NEW m \in Msgs, Send(m) PROVE TypeOK'
    <3>1. st' \in [Msgs -> {"new", "sent", "lost", "received", "done"}]
      BY <2>2 DEF Send, TypeOK
    <3>2. QED
      BY <2>1, <2>2, <3>1 DEF Send, TypeOK
  <2>3. ASSUME NEW m \in Msgs, Resend(m) PROVE TypeOK'
    BY <2>1, <2>3 DEF Resend, TypeOK
  <2>4. ASSUME NEW m \in Msgs, Release(m) PROVE TypeOK'
    BY <2>1, <2>4 DEF Release, TypeOK
  <2>5. CASE Reconnect
    <3>1. PICK n \in 0..Len(inq[on]) : inq' = [inq EXCEPT ![on] = SubSeq(@, 1, n)]
      BY <2>5 DEF Reconnect
    <3>2. inq' \in [Conns -> Seq(Packets)] /\ \A k \in Conns : Len(inq'[k]) <= MaxQueue
      <4>1. inq[on] \in Seq(Packets) /\ Len(inq[on]) \in Nat /\ Len(inq[on]) <= MaxQueue
        BY DEF TypeOK
      <4>2. /\ SubSeq(inq[on], 1, n) \in Seq(Packets)
            /\ Len(SubSeq(inq[on], 1, n)) <= MaxQueue
        BY <4>1
      <4>3. QED
        BY <3>1, <4>2 DEF TypeOK
    <3>3. st' \in [Msgs -> {"new", "sent", "lost", "received", "done"}]
      BY <2>5 DEF Reconnect, TypeOK
    <3>4. QED
      BY <2>5, <3>2, <3>3 DEF Reconnect, TypeOK
  <2>6. ASSUME NEW k \in Conns, Take(k) PROVE TypeOK'
    <3>1. Head(inq[k]) \in Packets
      <4>1. inq[k] \in Seq(Packets) /\ inq[k] # <<>>
        BY <2>6 DEF Take, TypeOK
      <4>2. QED
        BY <4>1
    <3>2. cur' \in [conn : Conns, type : {"PUBLISH", "PUBREL"}, msg : Msgs]
      BY <2>6, <3>1 DEF Take, Packets
    <3>3. cur' # NoPacket
      BY <3>2 DEF NoPacket
    <3>4. inq' \in [Conns -> Seq(Packets)] /\ \A j \in Conns : Len(inq'[j]) <= MaxQueue
      BY <2>6 DEF Take, TypeOK
    <3>5. pc' \in {"bridge", "qos", "pubrel"}
      BY <2>6 DEF Take
    <3>6. QED
      BY <2>6, <3>2, <3>3, <3>4, <3>5 DEF Take, TypeOK
  <2>7. CASE PublishToStream \/ PublishQos0 \/ PublishUnknownQos
    <3>1. CASE PublishToStream
      BY <3>1 DEF PublishToStream, TypeOK
    <3>2. CASE PublishQos0
      BY <3>2 DEF PublishQos0, Goto, TypeOK
    <3>3. CASE PublishUnknownQos
      BY <3>3 DEF PublishUnknownQos, Goto, TypeOK
    <3>4. QED
      BY <2>7, <3>1, <3>2, <3>3
  <2>8. CASE WritePuback \/ WritePubrec
    <3>1. Answer("sent", "done", "route") \/ Answer("sent", "received", "route")
      BY <2>8 DEF WritePuback, WritePubrec
    <3>2. pc # "idle" /\ UNCHANGED <<up, on, inq, routed, relVars, bridgeVars>>
      BY <2>8 DEF WritePuback, WritePubrec
    <3>3. /\ st' \in [Msgs -> {"new", "sent", "lost", "received", "done"}]
          /\ (pc' = "route" /\ cur' = cur) \/ (pc' = "idle" /\ cur' = NoPacket)
      BY <3>1, <3>2, AnswerSteps
    <3>4. QED
      BY <3>2, <3>3 DEF TypeOK
  <2>9. CASE Register
    <3>1. pc = "qos" /\ cur.conn \in Conns /\ cur.msg \in Msgs /\ IdOf[cur.msg] \in Ids
      BY <2>9, InHand DEF Register
    <3>2. UNCHANGED <<up, on, st, inq, routed, exp, dropping, excused, bridgeVars>>
      BY <2>9 DEF Register
    <3>3. (pc' = "pubrec" /\ cur' = cur) \/ (pc' = "idle" /\ cur' = NoPacket)
      BY <2>9 DEF Register, Goto
    <3>4. awaitingRel' \in [Conns -> [Ids -> Entry \cup {None}]]
      <4>1. [age |-> 0, msg |-> cur.msg] \in Entry
        BY <3>1 DEF Entry
      <4>2. QED
        <5>1. CASE UNCHANGED awaitingRel
          BY <5>1 DEF TypeOK
        <5>2. CASE awaitingRel' = [awaitingRel EXCEPT ![cur.conn][IdOf[cur.msg]] =
                                      [age |-> 0, msg |-> cur.msg]]
          BY <3>1, <4>1, <5>2, SetEntry
        <5>3. QED
          BY <2>9, <5>1, <5>2 DEF Register
    <3>5. timers' \in [Conns -> SUBSET [id : Ids, left : 0..AwaitRelTimeout]]
      <4> DEFINE t == [id |-> IdOf[cur.msg], left |-> AwaitRelTimeout]
      <4>1. t \in [id : Ids, left : 0..AwaitRelTimeout]
        BY <3>1
      <4>2. timers' = timers \/ timers' = [timers EXCEPT ![cur.conn] = @ \cup {t}]
        BY <2>9 DEF Register
      <4> HIDE DEF t
      <4>3. CASE timers' = timers
        BY <4>3 DEF TypeOK
      <4>4. CASE timers' = [timers EXCEPT ![cur.conn] = @ \cup {t}]
        BY <3>1, <4>1, <4>4 DEF TypeOK
      <4>5. QED
        BY <4>2, <4>3, <4>4
    <3>6. QED
      BY <3>1, <3>2, <3>3, <3>4, <3>5 DEF TypeOK
  <2>10. CASE Route
    <3>1. routed' \in [Msgs -> 0..2]
      BY <2>10 DEF Route, TypeOK
    <3>2. QED
      BY <2>10, <3>1 DEF Route, Goto, TypeOK
  <2>11. CASE PubRel
    <3>1. pc = "pubrel" /\ cur.conn \in Conns /\ cur.msg \in Msgs /\ IdOf[cur.msg] \in Ids
      BY <2>11, InHand DEF PubRel
    <3>2. UNCHANGED <<up, on, inq, routed, timers, exp, dropping, excused,
                      bridgeVars>>
      BY <2>11 DEF PubRel
    <3>3. /\ st' \in [Msgs -> {"new", "sent", "lost", "received", "done"}]
          /\ pc' = "idle" /\ cur' = NoPacket
      BY <2>11, <3>1, AnswerSteps DEF PubRel
    <3>4. awaitingRel' \in [Conns -> [Ids -> Entry \cup {None}]]
      BY <2>11, <3>1 DEF PubRel, TypeOK
    <3>5. QED
      BY <3>2, <3>3, <3>4 DEF TypeOK
  <2>12. ASSUME NEW k \in Conns, NEW i \in Ids, Fire(k, i) PROVE TypeOK'
    <3>1. exp' \in [Conns -> [Ids -> SUBSET Ids]]
      BY <2>12 DEF Fire, Held, TypeOK
    <3>2. timers' \in [Conns -> SUBSET [id : Ids, left : 0..AwaitRelTimeout]]
      BY <2>12 DEF Fire, TypeOK
    <3>3. QED
      BY <2>12, <3>1, <3>2 DEF Fire, TypeOK
  <2>13. ASSUME NEW k \in Conns, NEW i \in Ids, NEW j \in Ids, Visit(k, i, j)
         PROVE  TypeOK'
    <3>1. exp' \in [Conns -> [Ids -> SUBSET Ids]]
      BY <2>13 DEF Visit, TypeOK
    <3>2. dropping' \in [Conns -> [Ids -> Ids \cup {None}]]
      BY <2>13 DEF Visit, TypeOK
    <3>3. QED
      BY <2>13, <3>1, <3>2 DEF Visit, TypeOK
  <2>19. ASSUME NEW k \in Conns, NEW i \in Ids, Drop(k, i)
         PROVE  TypeOK'
    <3>1. dropping[k][i] \in Ids
      BY <2>19 DEF Drop, TypeOK
    <3>2. awaitingRel' \in [Conns -> [Ids -> Entry \cup {None}]]
      BY <2>19, <3>1, SetEntry DEF Drop
    <3>3. dropping' \in [Conns -> [Ids -> Ids \cup {None}]]
      BY <2>19 DEF Drop, TypeOK
    <3>4. QED
      BY <2>19, <3>2, <3>3 DEF Drop, TypeOK
  <2>14. CASE Tick
    <3>1. \A k \in Conns, i \in Ids :
              (IF i \in Held(k) /\ awaitingRel[k][i].age < AwaitRelTimeout
                 THEN [awaitingRel[k][i] EXCEPT !.age = @ + 1] ELSE awaitingRel[k][i])
                   \in Entry \cup {None}
      <4> SUFFICES ASSUME NEW k \in Conns, NEW i \in Ids, i \in Held(k),
                          awaitingRel[k][i].age < AwaitRelTimeout
                   PROVE  [awaitingRel[k][i] EXCEPT !.age = @ + 1] \in Entry
        BY DEF TypeOK
      <4>1. awaitingRel[k][i] \in Entry
        BY DEF Held, TypeOK
      <4>2. QED
        BY <4>1 DEF Entry
    <3>2. awaitingRel' \in [Conns -> [Ids -> Entry \cup {None}]]
      BY <2>14, <3>1 DEF Tick
    <3>3. timers' \in [Conns -> SUBSET [id : Ids, left : 0..AwaitRelTimeout]]
      <4> DEFINE Aged(t) == [t EXCEPT !.left = IF @ = 0 THEN 0 ELSE @ - 1]
      <4>1. \A t \in [id : Ids, left : 0..AwaitRelTimeout] :
                Aged(t) \in [id : Ids, left : 0..AwaitRelTimeout]
        OBVIOUS
      <4>2. timers' = [k \in Conns |-> {Aged(t) : t \in timers[k]}]
        BY <2>14 DEF Tick
      <4> HIDE DEF Aged
      <4>3. QED
        BY <4>1, <4>2 DEF TypeOK
    <3>4. QED
      BY <2>14, <3>2, <3>3 DEF Tick, TypeOK
  <2>15. CASE Dial \/ Produce \/ OtherPublishes
    <3>1. CASE Dial
      BY <3>1 DEF Dial, TypeOK
    <3>2. CASE Produce
      BY <3>2 DEF Produce, TypeOK
    <3>3. CASE OtherPublishes
      BY <3>3 DEF OtherPublishes, TypeOK
    <3>4. QED
      BY <2>15, <3>1, <3>2, <3>3
  <2>16. ASSUME NEW k \in Conns, MapRace(k) PROVE TypeOK'
    BY <2>16 DEF MapRace, TypeOK
  <2>17. CASE UNCHANGED vars
    BY <2>17 DEF vars, TypeOK
  <2>18. QED
    BY <2>2, <2>3, <2>4, <2>5, <2>6, <2>7, <2>8, <2>9, <2>10, <2>11, <2>12, <2>13,
       <2>14, <2>15, <2>16, <2>17, <2>19, NextCases
<1>3. QED
  BY <1>1, <1>2, PTL DEF Spec

-----------------------------------------------------------------------------

\* What the publisher is told is true: AckedIsRouted is inductive.
THEOREM AckedRouted == Spec => []AckedIsRouted
<1> USE PublishAssumption DEF PublishAssumption
<1>1. Init => AckedIsRouted
  BY DEF Init, AckedIsRouted
<1>2. TypeOK /\ TypeOK' /\ AckedIsRouted /\ [Next]_vars => AckedIsRouted'
  <2> SUFFICES ASSUME TypeOK, TypeOK', AckedIsRouted, [Next]_vars,
                      NEW m \in Msgs, QosOf[m] \in {1, 2}, st'[m] \in {"received", "done"}
               PROVE  routed'[m] > 0 \/ (pc' = "route" /\ cur'.msg = m)
    BY DEF AckedIsRouted
  <2> USE DEF publisherVars, workerVars, relVars, bridgeVars
  <2>0. ASSUME st[m] \in {"received", "done"}, pc # "route"
        PROVE  routed[m] > 0
    BY <2>0 DEF AckedIsRouted
  <2>1. ASSUME st[m] \in {"received", "done"}, UNCHANGED <<routed, pc, cur>>
        PROVE  routed'[m] > 0 \/ (pc' = "route" /\ cur'.msg = m)
    BY <2>1 DEF AckedIsRouted
  <2>2. ASSUME NEW n \in Msgs, Send(n) \/ Resend(n) \/ Release(n)
        PROVE  routed'[m] > 0 \/ (pc' = "route" /\ cur'.msg = m)
    <3>1. UNCHANGED <<routed, pc, cur>>
      BY <2>2 DEF Send, Resend, Release
    <3>2. st[m] \in {"received", "done"}
      BY <2>2 DEF Send, Resend, Release, TypeOK
    <3>3. QED
      BY <2>1, <3>1, <3>2
  <2>3. CASE Reconnect
    <3>1. st[m] \in {"received", "done"}
      BY <2>3 DEF Reconnect, TypeOK
    <3>2. QED
      BY <2>1, <2>3, <3>1 DEF Reconnect
  <2>4. ASSUME NEW k \in Conns, Take(k)
        PROVE  routed'[m] > 0 \/ (pc' = "route" /\ cur'.msg = m)
    BY <2>0, <2>4 DEF Take
  <2>5. CASE PublishToStream \/ PublishQos0 \/ PublishUnknownQos \/ Register
    BY <2>0, <2>5 DEF PublishToStream, PublishQos0, PublishUnknownQos, Register
  <2>6. CASE WritePuback \/ WritePubrec
    <3>1. pc # "idle" /\ pc # "route" /\ UNCHANGED routed
      BY <2>6 DEF WritePuback, WritePubrec
    <3>2. Answer("sent", "done", "route") \/ Answer("sent", "received", "route")
      BY <2>6 DEF WritePuback, WritePubrec
    <3>3. /\ m # cur.msg => st'[m] = st[m]
          /\ st'[cur.msg] # st[cur.msg] => pc' = "route"
          /\ (pc' = "route" /\ cur' = cur) \/ pc' = "idle"
      BY <3>1, <3>2, AnswerSteps
    <3>4. QED
      BY <2>0, <3>1, <3>3
  <2>7. CASE Route
    BY <2>0, <2>7 DEF Route, AckedIsRouted, TypeOK
  <2>8. CASE PubRel
    <3>1. pc = "pubrel" /\ UNCHANGED routed /\ Answer("received", "done", "idle")
      BY <2>8 DEF PubRel
    <3>2. /\ \A n \in Msgs : n # cur.msg => st'[n] = st[n]
          /\ st'[cur.msg] = st[cur.msg] \/ st[cur.msg] = "received"
      BY <3>1, AnswerSteps
    <3>3. QED
      BY <2>0, <3>1, <3>2
  <2>9. ASSUME NEW k \in Conns, NEW i \in Ids,
               Fire(k, i) \/ Drop(k, i) \/ \E j \in Ids : Visit(k, i, j)
        PROVE  routed'[m] > 0 \/ (pc' = "route" /\ cur'.msg = m)
    BY <2>1, <2>9 DEF Fire, Drop, Visit
  <2>10. CASE Tick \/ Dial \/ Produce \/ OtherPublishes
    BY <2>1, <2>10 DEF Tick, Dial, Produce, OtherPublishes
  <2>11. ASSUME NEW k \in Conns, MapRace(k)
         PROVE  routed'[m] > 0 \/ (pc' = "route" /\ cur'.msg = m)
    BY <2>1, <2>11 DEF MapRace
  <2>12. CASE UNCHANGED vars
    BY <2>1, <2>12 DEF vars
  <2>13. QED
    BY <2>2, <2>3, <2>4, <2>5, <2>6, <2>7, <2>8, <2>9, <2>10, <2>11, <2>12, NextCases
<1>3. QED
  BY <1>1, <1>2, TypeCorrect, PTL DEF Spec

-----------------------------------------------------------------------------

\* No entry of awaitingRel is left without a timer: HeldIsWatched is inductive.
THEOREM EntriesWatched == Spec => []HeldIsWatched
<1> USE PublishAssumption DEF PublishAssumption
<1>1. Init => HeldIsWatched
  BY DEF Init, HeldIsWatched, Held
<1>2. TypeOK /\ TypeOK' /\ HeldIsWatched /\ [Next]_vars => HeldIsWatched'
  <2> DEFINE Timer(h, i) ==
                 [id |-> i, left |-> AwaitRelTimeout - awaitingRel[h][i].age] \in timers[h]
             Due(h, i) == \/ awaitingRel[h][i].age >= AwaitRelTimeout /\ i \in exp[h][i]
                          \/ dropping[h][i] = i
  <2> SUFFICES ASSUME TypeOK, TypeOK', HeldIsWatched, [Next]_vars,
                      NEW h \in Conns, NEW e \in Ids, awaitingRel'[h][e] # None
               PROVE  Timer(h, e)' \/ Due(h, e)'
    BY DEF HeldIsWatched, Held, Expired
  <2> USE DEF publisherVars, workerVars, relVars, bridgeVars
  <2>1. ASSUME awaitingRel[h][e] # None PROVE Timer(h, e) \/ Due(h, e)
    BY <2>1 DEF HeldIsWatched, Held, Expired
  <2>2. ASSUME awaitingRel'[h][e] = awaitingRel[h][e], timers[h] \subseteq timers'[h],
               exp[h][e] \subseteq exp'[h][e], dropping'[h][e] = dropping[h][e]
        PROVE  Timer(h, e)' \/ Due(h, e)'
    BY <2>1, <2>2
  <2>3. CASE UNCHANGED <<awaitingRel, timers, exp, dropping>>
    BY <2>2, <2>3
  <2>4. CASE Register
    <3> DEFINE k == cur.conn
               i == IdOf[cur.msg]
               n == [age |-> 0, msg |-> cur.msg]
               t == [id |-> i, left |-> AwaitRelTimeout]
    <3>1. pc = "qos" /\ k \in Conns /\ cur.msg \in Msgs /\ i \in Ids
      BY <2>4, InHand DEF Register
    <3>2. n \in Entry /\ n.age = 0
      BY <3>1 DEF Entry
    <3>3. \/ UNCHANGED <<awaitingRel, timers, exp, dropping>>
          \/ /\ awaitingRel' = [awaitingRel EXCEPT ![k][i] = n]
             /\ timers' = [timers EXCEPT ![k] = @ \cup {t}]
             /\ UNCHANGED <<exp, dropping>>
      BY <2>4 DEF Register
    <3>4. CASE /\ awaitingRel' = [awaitingRel EXCEPT ![k][i] = n]
               /\ timers' = [timers EXCEPT ![k] = @ \cup {t}]
               /\ UNCHANGED <<exp, dropping>>
      <4> HIDE DEF n, t, k, i
      <4>1. /\ awaitingRel'[k][i] = n
            /\ ~ (h = k /\ e = i) => awaitingRel'[h][e] = awaitingRel[h][e]
        BY <3>1, <3>4 DEF TypeOK
      <4>2. t \in timers'[k] /\ timers[h] \subseteq timers'[h]
        BY <3>1, <3>4 DEF TypeOK
      <4>3. CASE h = k /\ e = i
        BY <3>2, <4>1, <4>2, <4>3 DEF t
      <4>4. CASE ~ (h = k /\ e = i)
        BY <2>2, <3>4, <4>1, <4>2, <4>4
      <4>5. QED
        BY <4>3, <4>4
    <3>5. QED
      BY <2>3, <3>3, <3>4
  <2>5. CASE PubRel
    <3>1. pc = "pubrel" /\ cur.conn \in Conns /\ IdOf[cur.msg] \in Ids
      BY <2>5, InHand DEF PubRel
    <3>2. /\ awaitingRel' = [awaitingRel EXCEPT ![cur.conn][IdOf[cur.msg]] = None]
          /\ UNCHANGED <<timers, exp, dropping>>
      BY <2>5 DEF PubRel
    <3>3. awaitingRel'[h][e] = awaitingRel[h][e]
      BY <3>1, <3>2, SetEntry
    <3>4. QED
      BY <2>2, <3>2, <3>3
  <2>6. ASSUME NEW k \in Conns, NEW i \in Ids, Fire(k, i)
        PROVE  Timer(h, e)' \/ Due(h, e)'
    <3> DEFINE z == [id |-> i, left |-> 0]
    <3>1. /\ exp[k][i] = {} /\ dropping[k][i] = None
          /\ UNCHANGED <<awaitingRel, dropping>>
          /\ timers' = [timers EXCEPT ![k] = @ \ {z}]
          /\ exp' = [exp EXCEPT ![k][i] = Held(k)]
      BY <2>6 DEF Fire
    <3>2. CASE h = k /\ e = i
      <4>1. exp'[h][e] = Held(h) /\ e \in Held(h)
        BY <3>1, <3>2 DEF TypeOK, Held
      <4>2. Timer(h, e)
        BY <2>1, <3>1, <3>2
      <4>3. awaitingRel[h][e] \in Entry
        BY <3>1 DEF TypeOK
      <4>4. awaitingRel[h][e].age \in 0..AwaitRelTimeout
        BY <4>3 DEF Entry
      <4>5. CASE awaitingRel[h][e].age = AwaitRelTimeout
        BY <3>1, <4>1, <4>5
      <4>6. CASE awaitingRel[h][e].age < AwaitRelTimeout
        <5>1. AwaitRelTimeout - awaitingRel[h][e].age # 0
          BY <4>4, <4>6
        <5>2. [id |-> e, left |-> AwaitRelTimeout - awaitingRel[h][e].age] # z
          BY <5>1
        <5>3. QED
          BY <3>1, <3>2, <4>2, <5>2 DEF TypeOK
      <4>7. QED
        BY <4>4, <4>5, <4>6
    <3>3. CASE ~ (h = k /\ e = i)
      <4>1. exp'[h][e] = exp[h][e]
        BY <3>1, <3>3 DEF TypeOK
      <4>2. Timer(h, e) => Timer(h, e)'
        <5>1. CASE h # k
          BY <3>1, <5>1 DEF TypeOK
        <5>2. CASE h = k /\ e # i
          <6>1. [id |-> e, left |-> AwaitRelTimeout - awaitingRel[h][e].age] # z
            BY <5>2
          <6>2. QED
            BY <3>1, <5>2, <6>1 DEF TypeOK
        <5>3. QED
          BY <3>3, <5>1, <5>2
      <4>3. QED
        BY <2>1, <3>1, <4>1, <4>2
    <3>4. QED
      BY <3>2, <3>3
  <2>7. ASSUME NEW k \in Conns, NEW i \in Ids, NEW j \in Ids, Visit(k, i, j)
        PROVE  Timer(h, e)' \/ Due(h, e)'
    <3>1. /\ UNCHANGED <<awaitingRel, timers>> /\ dropping[k][i] = None
          /\ exp' = [exp EXCEPT ![k][i] = @ \ {j}]
          /\ dropping' = [dropping EXCEPT ![k][i] = IF Expired(k, j) THEN j ELSE None]
      BY <2>7 DEF Visit
    <3>2. dropping[h][e] = e => dropping'[h][e] = e
      BY <3>1 DEF TypeOK
    <3>3. CASE h = k /\ e = i /\ e = j
      <4>1. CASE Expired(k, j)
        <5>1. dropping'[h][e] = e
          BY <3>1, <3>3, <4>1 DEF TypeOK
        <5>2. QED
          BY <5>1
      <4>2. CASE ~ Expired(k, j)
        BY <2>1, <3>1, <3>2, <3>3, <4>2 DEF Expired, Held
      <4>3. QED
        BY <4>1, <4>2
    <3>4. CASE ~ (h = k /\ e = i /\ e = j)
      <4>1. e \in exp[h][e] => e \in exp'[h][e]
        BY <3>1, <3>4 DEF TypeOK
      <4>2. QED
        BY <2>1, <3>1, <3>2, <4>1
    <3>5. QED
      BY <3>3, <3>4
  \* A delete removes the entry it is about, and no goroutine is at another.
  <2>13. ASSUME NEW k \in Conns, NEW i \in Ids, Drop(k, i)
         PROVE  Timer(h, e)' \/ Due(h, e)'
    <3> DEFINE j == dropping[k][i]
    <3>1. /\ j \in Ids /\ UNCHANGED <<timers, exp>>
          /\ awaitingRel' = [awaitingRel EXCEPT ![k][j] = None]
          /\ dropping' = [dropping EXCEPT ![k][i] = None]
      BY <2>13 DEF Drop, TypeOK
    <3>2. ~ (h = k /\ e = j)
      <4> SUFFICES ASSUME h = k, e = j PROVE awaitingRel'[h][e] = None
        OBVIOUS
      <4>1. awaitingRel'[k][j] = None
        <5> HIDE DEF j
        <5>1. QED
          BY <3>1, SetEntry
      <4>2. QED
        BY <4>1
    <3>3. awaitingRel'[h][e] = awaitingRel[h][e]
      BY <3>1, <3>2, SetEntry
    <3>4. dropping[h][e] = e => dropping'[h][e] = e
      BY <3>1, <3>2 DEF TypeOK
    <3>5. QED
      BY <2>1, <3>1, <3>3, <3>4
  <2>8. CASE Tick
    <3> DEFINE Aged(t) == [t EXCEPT !.left = IF @ = 0 THEN 0 ELSE @ - 1]
               old == awaitingRel[h][e]
               t0 == [id |-> e, left |-> AwaitRelTimeout - old.age]
    <3>1. /\ exp[h][e] = {} /\ timers'[h] = {Aged(t) : t \in timers[h]}
          /\ UNCHANGED dropping
      BY <2>8 DEF Tick
    <3>2. awaitingRel'[h][e] = IF e \in Held(h) /\ old.age < AwaitRelTimeout
                                 THEN [old EXCEPT !.age = @ + 1] ELSE old
      BY <2>8 DEF Tick
    <3>3. old # None
      BY <3>2 DEF Held
    <3>4. old \in Entry /\ old.age \in 0..AwaitRelTimeout
      BY <3>3 DEF TypeOK, Entry
    <3>10. CASE dropping[h][e] = e
      BY <3>1, <3>10
    <3>5. dropping[h][e] # e => t0 \in timers[h]
      BY <2>1, <3>1, <3>3
    <3>6. dropping[h][e] # e => Aged(t0) \in timers'[h]
      BY <3>1, <3>5
    <3>7. CASE dropping[h][e] # e /\ old.age < AwaitRelTimeout
      <4>1. awaitingRel'[h][e].age = old.age + 1
        BY <3>2, <3>3, <3>4, <3>7 DEF Held, Entry
      <4>2. Aged(t0) = [id |-> e, left |-> AwaitRelTimeout - (old.age + 1)]
        BY <3>4, <3>7
      <4>3. QED
        BY <3>6, <3>7, <4>1, <4>2
    <3>8. CASE dropping[h][e] # e /\ old.age = AwaitRelTimeout
      <4>1. awaitingRel'[h][e].age = old.age
        BY <3>2, <3>8
      <4>2. Aged(t0) = t0
        BY <3>8
      <4>3. QED
        BY <3>6, <3>8, <4>1, <4>2
    <3>9. QED
      BY <3>4, <3>7, <3>8, <3>10
  <2>9. ASSUME NEW m \in Msgs, Send(m) \/ Resend(m) \/ Release(m)
        PROVE  Timer(h, e)' \/ Due(h, e)'
    BY <2>3, <2>9 DEF Send, Resend, Release
  <2>10. ASSUME NEW k \in Conns, Take(k) \/ MapRace(k)
        PROVE  Timer(h, e)' \/ Due(h, e)'
    BY <2>3, <2>10 DEF Take, MapRace
  <2>11. CASE Reconnect \/ PublishToStream \/ PublishQos0 \/ PublishUnknownQos
               \/ WritePuback \/ WritePubrec
               \/ Route \/ Dial \/ Produce \/ OtherPublishes \/ UNCHANGED vars
    BY <2>3, <2>11 DEF Reconnect, PublishToStream, PublishQos0, PublishUnknownQos, WritePuback,
       WritePubrec,       Route, Dial, Produce, OtherPublishes, vars
  <2>12. QED
    BY <2>4, <2>5, <2>6, <2>7, <2>8, <2>9, <2>10, <2>11, <2>13, NextCases
<1>3. QED
  BY <1>1, <1>2, TypeCorrect, PTL DEF Spec

-----------------------------------------------------------------------------
(***************************************************************************)
(* Queues of packets.                                                      *)
(***************************************************************************)

\* A packet that is sent comes after all the others.
LEMMA QueueAppend ==
    ASSUME NEW q \in Seq(Packets), NEW p \in Packets, NEW m \in Msgs, NEW i
    PROVE  /\ Pub(Append(q, p), m) => Pub(q, m) \/ IsPub(p, m)
           /\ Rel(Append(q, p), i) => Rel(q, i) \/ IsRel(p, i)
           /\ RelThenPub(Append(q, p), m) =>
                 RelThenPub(q, m) \/ (Rel(q, IdOf[m]) /\ IsPub(p, m))
           /\ PubThenRel(Append(q, p), m) =>
                 PubThenRel(q, m) \/ (Pub(q, m) /\ IsRel(p, IdOf[m]))
<1> DEFINE r == Append(q, p)
<1>1. Len(q) \in Nat /\ Len(r) = Len(q) + 1
  OBVIOUS
<1>2. \A j \in 1..Len(q) : r[j] = q[j]
  OBVIOUS
<1>3. r[Len(q) + 1] = p
  OBVIOUS
<1> HIDE DEF r
<1>4. \A j \in 1..Len(r) : j \in 1..Len(q) \/ j = Len(q) + 1
  BY <1>1
<1>5. Pub(r, m) => Pub(q, m) \/ IsPub(p, m)
  BY <1>2, <1>3, <1>4 DEF Pub
<1>6. Rel(r, i) => Rel(q, i) \/ IsRel(p, i)
  BY <1>2, <1>3, <1>4 DEF Rel
<1>7. RelThenPub(r, m) => RelThenPub(q, m) \/ (Rel(q, IdOf[m]) /\ IsPub(p, m))
  <2> SUFFICES ASSUME NEW a \in 1..Len(r), NEW b \in 1..Len(r), a < b,
                      IsRel(r[a], IdOf[m]), IsPub(r[b], m)
               PROVE  RelThenPub(q, m) \/ (Rel(q, IdOf[m]) /\ IsPub(p, m))
    BY DEF RelThenPub
  <2>1. a \in 1..Len(q)
    BY <1>1
  <2>2. CASE b \in 1..Len(q)
    BY <1>2, <2>1, <2>2 DEF RelThenPub
  <2>3. CASE b = Len(q) + 1
    BY <1>2, <1>3, <2>1, <2>3 DEF Rel
  <2>4. QED
    BY <1>4, <2>2, <2>3
<1>8. PubThenRel(r, m) => PubThenRel(q, m) \/ (Pub(q, m) /\ IsRel(p, IdOf[m]))
  <2> SUFFICES ASSUME NEW a \in 1..Len(r), NEW b \in 1..Len(r), a < b,
                      IsPub(r[a], m), IsRel(r[b], IdOf[m])
               PROVE  PubThenRel(q, m) \/ (Pub(q, m) /\ IsRel(p, IdOf[m]))
    BY DEF PubThenRel
  <2>1. a \in 1..Len(q)
    BY <1>1
  <2>2. CASE b \in 1..Len(q)
    BY <1>2, <2>1, <2>2 DEF PubThenRel
  <2>3. CASE b = Len(q) + 1
    BY <1>2, <1>3, <2>1, <2>3 DEF Pub
  <2>4. QED
    BY <1>4, <2>2, <2>3
<1>9. QED
  BY <1>5, <1>6, <1>7, <1>8 DEF r

\* The packet at the front comes before all the others.
LEMMA QueueTail ==
    ASSUME NEW q \in Seq(Packets), q # <<>>, NEW m \in Msgs, NEW i
    PROVE  /\ Head(q) \in Packets
           /\ IsPub(Head(q), m) => Pub(q, m)
           /\ IsRel(Head(q), i) => Rel(q, i)
           /\ Pub(Tail(q), m) => Pub(q, m)
           /\ Rel(Tail(q), i) => Rel(q, i)
           /\ RelThenPub(Tail(q), m) => RelThenPub(q, m)
           /\ PubThenRel(Tail(q), m) => PubThenRel(q, m)
           /\ IsRel(Head(q), IdOf[m]) /\ Pub(Tail(q), m) => RelThenPub(q, m)
           /\ IsPub(Head(q), m) /\ Rel(Tail(q), IdOf[m]) => PubThenRel(q, m)
<1> DEFINE r == Tail(q)
           p == Head(q)
<1>1. Len(q) \in Nat \ {0} /\ Len(r) = Len(q) - 1
  OBVIOUS
<1>2. \A j \in 1..Len(r) : r[j] = q[j + 1]
  OBVIOUS
<1>3. p = q[1] /\ p \in Packets
  OBVIOUS
<1> HIDE DEF r, p
<1>4. 1 \in 1..Len(q) /\ \A j \in 1..Len(r) : j + 1 \in 1..Len(q) /\ 1 < j + 1
  BY <1>1
<1>5. /\ IsPub(p, m) => Pub(q, m)
      /\ IsRel(p, i) => Rel(q, i)
  BY <1>3, <1>4 DEF Pub, Rel
<1>6. /\ Pub(r, m) => Pub(q, m)
      /\ Rel(r, i) => Rel(q, i)
  BY <1>2, <1>4 DEF Pub, Rel
<1>7. RelThenPub(r, m) => RelThenPub(q, m)
  <2> SUFFICES ASSUME NEW a \in 1..Len(r), NEW b \in 1..Len(r), a < b,
                      IsRel(r[a], IdOf[m]), IsPub(r[b], m)
               PROVE  RelThenPub(q, m)
    BY DEF RelThenPub
  <2>1. a + 1 < b + 1
    OBVIOUS
  <2>2. QED
    BY <1>2, <1>4, <2>1 DEF RelThenPub
<1>8. PubThenRel(r, m) => PubThenRel(q, m)
  <2> SUFFICES ASSUME NEW a \in 1..Len(r), NEW b \in 1..Len(r), a < b,
                      IsPub(r[a], m), IsRel(r[b], IdOf[m])
               PROVE  PubThenRel(q, m)
    BY DEF PubThenRel
  <2>1. a + 1 < b + 1
    OBVIOUS
  <2>2. QED
    BY <1>2, <1>4, <2>1 DEF PubThenRel
<1>9. IsRel(p, IdOf[m]) /\ Pub(r, m) => RelThenPub(q, m)
  BY <1>2, <1>3, <1>4 DEF RelThenPub, Pub
<1>10. IsPub(p, m) /\ Rel(r, IdOf[m]) => PubThenRel(q, m)
  BY <1>2, <1>3, <1>4 DEF PubThenRel, Rel
<1>11. QED
  BY <1>3, <1>5, <1>6, <1>7, <1>8, <1>9, <1>10 DEF r, p

\* A connection that breaks loses the end of its queue.
LEMMA QueuePrefix ==
    ASSUME NEW q \in Seq(Packets), NEW n \in 0..Len(q), NEW m \in Msgs, NEW i
    PROVE  /\ Pub(SubSeq(q, 1, n), m) => Pub(q, m)
           /\ Rel(SubSeq(q, 1, n), i) => Rel(q, i)
           /\ RelThenPub(SubSeq(q, 1, n), m) => RelThenPub(q, m)
           /\ PubThenRel(SubSeq(q, 1, n), m) => PubThenRel(q, m)
<1> DEFINE r == SubSeq(q, 1, n)
<1>1. Len(q) \in Nat /\ Len(r) = n
  OBVIOUS
<1>2. \A j \in 1..Len(r) : r[j] = q[j] /\ j \in 1..Len(q)
  BY <1>1
<1> HIDE DEF r
<1>3. Pub(r, m) => Pub(q, m)
  BY <1>2 DEF Pub
<1>4. Rel(r, i) => Rel(q, i)
  BY <1>2 DEF Rel
<1>5. RelThenPub(r, m) => RelThenPub(q, m)
  BY <1>2 DEF RelThenPub
<1>6. PubThenRel(r, m) => PubThenRel(q, m)
  BY <1>2 DEF PubThenRel
<1>7. QED
  BY <1>3, <1>4, <1>5, <1>6 DEF r

\* An identifier is not used again before it is free, and a message whose
\* connection was lost is excused.
THEOREM IdsInUse == Spec => [](OneInUse /\ LostIsExcused)
<1> USE PublishAssumption DEF PublishAssumption
<1>1. Init => OneInUse /\ LostIsExcused
  BY DEF Init, OneInUse, LostIsExcused
<1>2. TypeOK /\ TypeOK' /\ OneInUse /\ LostIsExcused /\ [Next]_vars
          => OneInUse' /\ LostIsExcused'
  <2> SUFFICES ASSUME TypeOK, TypeOK', OneInUse, LostIsExcused, [Next]_vars
               PROVE  OneInUse' /\ LostIsExcused'
    OBVIOUS
  <2> USE DEF publisherVars, workerVars, relVars, bridgeVars
  <2> DEFINE Fine ==
                 \A m \in Msgs :
                     \/ st'[m] = st[m]
                     \/ st'[m] # "lost" /\ st[m] \notin {"new", "done"}
                     \/ m \in excused' /\ st[m] \notin {"new", "done"}
             Grows == excused \subseteq excused'
  <2>1. ASSUME Fine, Grows PROVE OneInUse' /\ LostIsExcused'
    BY <2>1 DEF OneInUse, LostIsExcused
  <2>a. ASSUME UNCHANGED st, Grows PROVE OneInUse' /\ LostIsExcused'
    BY <2>a DEF OneInUse, LostIsExcused
  <2>2. ASSUME NEW m \in Msgs, Send(m) PROVE OneInUse' /\ LostIsExcused'
    <3>1. /\ st' = [st EXCEPT ![m] = st'[m]] /\ st'[m] # "lost"
          /\ \A n \in Msgs : IdOf[n] = IdOf[m] => st[n] \in {"new", "done"}
          /\ UNCHANGED excused
      BY <2>2 DEF Send, TypeOK
    <3>2. \A n \in Msgs : n # m => st'[n] = st[n]
      BY <3>1 DEF TypeOK
    <3>3. QED
      BY <3>1, <3>2 DEF OneInUse, LostIsExcused
  <2>3. ASSUME NEW m \in Msgs, Resend(m) \/ Release(m) PROVE OneInUse' /\ LostIsExcused'
    <3>1. Fine
      BY <2>3 DEF Resend, Release, TypeOK
    <3>2. Grows
      BY <2>3 DEF Resend, Release
    <3>3. QED
      BY <2>1, <3>1, <3>2
  <2>4. CASE Reconnect
    <3>1. Fine
      BY <2>4 DEF Reconnect, TypeOK
    <3>2. Grows
      BY <2>4 DEF Reconnect
    <3>3. QED
      BY <2>1, <3>1, <3>2
  <2>5. CASE WritePuback \/ WritePubrec
    <3>1. pc # "idle" /\ UNCHANGED excused
      BY <2>5 DEF WritePuback, WritePubrec
    <3>2. Answer("sent", "done", "route") \/ Answer("sent", "received", "route")
      BY <2>5 DEF WritePuback, WritePubrec
    <3>3. /\ \A n \in Msgs : n # cur.msg => st'[n] = st[n]
          /\ \/ st'[cur.msg] = st[cur.msg]
             \/ st[cur.msg] = "sent" /\ st'[cur.msg] \in {"done", "received"}
      BY <3>1, <3>2, AnswerSteps
    <3>4. Fine
      <4> SUFFICES ASSUME NEW m \in Msgs, st'[m] # st[m]
                   PROVE  st'[m] # "lost" /\ st[m] \notin {"new", "done"}
        OBVIOUS
      <4>1. m = cur.msg
        BY <3>3
      <4>2. QED
        BY <3>3, <4>1
    <3>5. QED
      BY <2>1, <3>1, <3>4
  <2>6. CASE PubRel
    <3>1. pc # "idle" /\ UNCHANGED excused /\ Answer("received", "done", "idle")
      BY <2>6 DEF PubRel
    <3>2. /\ \A n \in Msgs : n # cur.msg => st'[n] = st[n]
          /\ \/ st'[cur.msg] = st[cur.msg]
             \/ st[cur.msg] = "received" /\ st'[cur.msg] = "done"
      BY <3>1, AnswerSteps
    <3>3. Fine
      BY <3>2
    <3>4. QED
      BY <2>1, <3>1, <3>3
  <2>7. ASSUME NEW k \in Conns, NEW i \in Ids,
               Fire(k, i) \/ Drop(k, i) \/ \E j \in Ids : Visit(k, i, j)
        PROVE  OneInUse' /\ LostIsExcused'
    <3>1. UNCHANGED st
      BY <2>7 DEF Fire, Drop, Visit
    <3>2. Grows
      BY <2>7 DEF Fire, Drop, Visit
    <3>3. QED
      BY <2>a, <3>1, <3>2
  <2>8. ASSUME NEW k \in Conns, Take(k) \/ MapRace(k) PROVE OneInUse' /\ LostIsExcused'
    BY <2>a, <2>8 DEF Take, MapRace
  <2>9. CASE PublishToStream \/ PublishQos0 \/ PublishUnknownQos \/ Register \/ Route \/ Tick \/ Dial
               \/ Produce \/ OtherPublishes \/ UNCHANGED vars
    BY <2>a, <2>9 DEF PublishToStream, PublishQos0, PublishUnknownQos, Register, Route, Tick, Dial, Produce,
       OtherPublishes, vars
  <2>10. QED
    BY <2>2, <2>3, <2>4, <2>5, <2>6, <2>7, <2>8, <2>9, NextCases
<1>3. QED
  BY <1>1, <1>2, TypeCorrect, PTL DEF Spec

\* A queue with both in an order holds both.
LEMMA OrderHoldsBoth ==
    ASSUME NEW q \in Seq(Packets), NEW m \in Msgs
    PROVE  /\ RelThenPub(q, m) => Rel(q, IdOf[m]) /\ Pub(q, m)
           /\ PubThenRel(q, m) => Pub(q, m) /\ Rel(q, IdOf[m])
  BY DEF RelThenPub, PubThenRel, Rel, Pub

\* What the publisher sends goes to the end of the queue of the connection.
LEMMA Transmits ==
    ASSUME TypeOK, NEW type \in {"PUBLISH", "PUBREL"}, NEW n \in Msgs, Transmit(type, n),
           NEW m \in Msgs, NEW k \in Conns
    PROVE  /\ Pub(inq'[k], m) => \/ Pub(inq[k], m)
                                 \/ k = on /\ type = "PUBLISH" /\ n = m
           /\ Rel(inq'[k], IdOf[m]) => \/ Rel(inq[k], IdOf[m])
                                       \/ k = on /\ type = "PUBREL" /\ IdOf[n] = IdOf[m]
           /\ RelThenPub(inq'[k], m) =>
                 \/ RelThenPub(inq[k], m)
                 \/ k = on /\ Rel(inq[k], IdOf[m]) /\ type = "PUBLISH" /\ n = m
           /\ PubThenRel(inq'[k], m) =>
                 \/ PubThenRel(inq[k], m)
                 \/ k = on /\ Pub(inq[k], m) /\ type = "PUBREL" /\ IdOf[n] = IdOf[m]
<1> DEFINE p == [type |-> type, msg |-> n]
<1>1. p \in Packets /\ p.type = type /\ p.msg = n
  BY DEF Packets
<1>2. inq' = [inq EXCEPT ![on] = Append(@, p)]
  BY DEF Transmit
<1> HIDE DEF p
<1>3. inq \in [Conns -> Seq(Packets)] /\ on \in Conns
  BY DEF TypeOK
<1>4. CASE k # on
  <2>1. inq'[k] = inq[k]
    BY <1>2, <1>3, <1>4
  <2>2. QED
    BY <2>1
<1>5. CASE k = on
  <2>1. inq'[k] = Append(inq[k], p) /\ inq[k] \in Seq(Packets)
    BY <1>2, <1>3, <1>5
  <2>2. /\ IsPub(p, m) => type = "PUBLISH" /\ n = m
        /\ IsRel(p, IdOf[m]) => type = "PUBREL" /\ IdOf[n] = IdOf[m]
    BY <1>1 DEF IsPub, IsRel
  <2>3. PICK i : i = IdOf[m]
    OBVIOUS
  <2>4. /\ Pub(inq'[k], m) => Pub(inq[k], m) \/ IsPub(p, m)
        /\ Rel(inq'[k], i) => Rel(inq[k], i) \/ IsRel(p, i)
        /\ RelThenPub(inq'[k], m) =>
              RelThenPub(inq[k], m) \/ (Rel(inq[k], IdOf[m]) /\ IsPub(p, m))
        /\ PubThenRel(inq'[k], m) =>
              PubThenRel(inq[k], m) \/ (Pub(inq[k], m) /\ IsRel(p, IdOf[m]))
    BY <1>1, <2>1, QueueAppend
  <2>5. QED
    BY <1>5, <2>2, <2>3, <2>4
<1>6. QED
  BY <1>4, <1>5

-----------------------------------------------------------------------------

\* While a PUBLISH of a processed message is still around, the entry that
\* refuses it is there: no order of duplicates, PUBRELs, timers and connections
\* gets a message through twice that is not excused.
THEOREM OnceCorrect == Spec => []OnceInv
<1> USE PublishAssumption DEF PublishAssumption
<1>1. Init => OnceInv
  <2> SUFFICES ASSUME Init, NEW m \in Msgs PROVE ~ Started(m) /\ Fresh(m)
    BY DEF OnceInv
  <2>1. st[m] = "new" /\ \A k \in Conns : inq[k] = <<>>
    BY DEF Init
  <2>2. pc = "idle" /\ routed[m] = 0
    BY DEF Init
  <2>3. \A k \in Conns : ~ Pub(inq[k], m) /\ ~ PubThenRel(inq[k], m)
    BY <2>1 DEF Pub, PubThenRel
  <2>4. ~ Started(m)
    BY <2>2 DEF Started
  <2>5. Fresh(m)
    BY <2>1, <2>2, <2>3 DEF Fresh, Taken
  <2>6. QED
    BY <2>4, <2>5
<1>2. /\ TypeOK /\ OneInUse /\ LostIsExcused /\ TypeOK' /\ OnceInv /\ [Next]_vars
      => OnceInv'
  <2> SUFFICES ASSUME TypeOK, OneInUse, LostIsExcused, TypeOK', OnceInv, [Next]_vars,
                      NEW m \in Msgs, m \notin excused', QosOf[m] = 2
               PROVE  IF Started(m)' THEN Shielded(m)' ELSE Fresh(m)'
    BY DEF OnceInv
  <2> DEFINE Goal == IF Started(m)' THEN Shielded(m)' ELSE Fresh(m)'
             i == IdOf[m]
             Mine == pc \in {"pubrec", "route"} /\ cur.msg = m
  <2> USE DEF publisherVars, workerVars, relVars, bridgeVars
  <2>1. i \in Ids /\ routed[m] \in Nat
    <3>1. i \in Ids
      OBVIOUS
    <3>2. routed[m] \in 0..2
      BY DEF TypeOK
    <3>3. QED
      BY <3>1, <3>2
  <2>2. ASSUME excused \subseteq excused'
        PROVE  m \notin excused /\ IF Started(m) THEN Shielded(m) ELSE Fresh(m)
    BY <2>2 DEF OnceInv
  <2>3. excused \subseteq excused'
    <3>1. ASSUME NEW n \in Msgs, Send(n) \/ Resend(n) \/ Release(n) PROVE UNCHANGED excused
      BY <3>1 DEF Send, Resend, Release
    <3>2. ASSUME NEW k \in Conns, Take(k) \/ MapRace(k) PROVE UNCHANGED excused
      BY <3>2 DEF Take, MapRace
    <3>3. ASSUME NEW k \in Conns, NEW a \in Ids, Fire(k, a) \/ Drop(k, a)
          PROVE  excused \subseteq excused'
      BY <3>3 DEF Fire, Drop
    <3>4. ASSUME NEW k \in Conns, NEW a \in Ids, NEW b \in Ids, Visit(k, a, b)
          PROVE  excused \subseteq excused'
      BY <3>4 DEF Visit
    <3>5. CASE Reconnect
      BY <3>5 DEF Reconnect
    <3>6. CASE PublishToStream \/ PublishQos0 \/ PublishUnknownQos \/ WritePuback \/ Register \/ WritePubrec
               \/ Route \/ PubRel \/ Tick \/ Dial \/ Produce \/ OtherPublishes
               \/ UNCHANGED vars
      BY <3>6 DEF PublishToStream, PublishQos0, PublishUnknownQos, WritePuback, Register, WritePubrec, Route,
         PubRel, Tick, Dial, Produce, OtherPublishes, vars
    <3>7. QED
      BY <3>1, <3>2, <3>3, <3>4, <3>5, <3>6, NextCases
  <2>4. m \notin excused
    BY <2>3
  <2>5. Started(m) => Shielded(m)
    BY <2>2, <2>3
  <2>6. ~ Started(m) => Fresh(m)
    BY <2>2, <2>3
  \* Steps that leave the queues and what is said of m alone, and remove no
  \* entry of m.
  <2>7. ASSUME UNCHANGED <<on, inq>>, st'[m] = st[m], routed'[m] = routed[m],
               \A k \in Conns : Taken(m, k)' => Taken(m, k),
               \A k \in Conns : Releasing(i, k)' => Releasing(i, k),
               Mine' <=> Mine,
               pc' = "pubrec" /\ Mine' => pc = "pubrec" /\ cur'.conn = cur.conn,
               \A k \in Conns : HeldFor(m, k) => HeldFor(m, k)'
        PROVE  Goal
    <3>1. Started(m)' <=> Started(m)
      BY <2>7 DEF Started
    <3>2. on \in Conns
      BY DEF TypeOK
    <3>3. ASSUME Started(m) PROVE Shielded(m)'
      BY <2>5, <2>7, <3>2, <3>3 DEF Shielded
    <3>4. ASSUME ~ Started(m) PROVE Fresh(m)'
      BY <2>6, <2>7, <3>4 DEF Fresh
    <3>5. QED
      BY <3>1, <3>3, <3>4
  \* Steps of other goroutines.
  <2>8. ASSUME UNCHANGED <<on, st, inq, pc, cur, routed>>,
               \A k \in Conns : HeldFor(m, k) => HeldFor(m, k)'
        PROVE  Goal
    <3>1. \A k \in Conns : (Taken(m, k)' <=> Taken(m, k)) /\ (Releasing(i, k)' <=> Releasing(i, k))
      BY <2>8 DEF Taken, Releasing
    <3>2. (Mine' <=> Mine) /\ cur'.conn = cur.conn /\ st'[m] = st[m] /\ routed'[m] = routed[m]
      BY <2>8
    <3>3. QED
      BY <2>7, <2>8, <3>1, <3>2
  \* A delete excuses the message whose entry it removes, new or old.
  <2>9. ASSUME NEW k \in Conns, NEW a \in Ids, Drop(k, a) PROVE Goal
    <3> DEFINE b == dropping[k][a]
    <3>1. UNCHANGED <<on, st, inq, pc, cur, routed>>
      BY <2>9 DEF Drop
    <3>2. /\ b \in Ids
          /\ awaitingRel' = [awaitingRel EXCEPT ![k][b] = None]
          /\ b \in Held(k) /\ awaitingRel[k][b].msg = m => m \in excused'
      BY <2>9 DEF Drop, TypeOK
    <3>3. ASSUME NEW h \in Conns, HeldFor(m, h) PROVE HeldFor(m, h)'
      <4>1. ~ (h = k /\ i = b)
        BY <2>1, <3>2, <3>3 DEF HeldFor, Held
      <4>2. awaitingRel'[h][i] = awaitingRel[h][i]
        BY <2>1, <3>2, <4>1, SetEntry
      <4>3. QED
        BY <3>3, <4>2 DEF HeldFor
    <3>4. QED
      BY <2>8, <3>1, <3>3
  <2>10. CASE Tick
    <3>1. UNCHANGED <<on, st, inq, pc, cur, routed>>
      BY <2>10 DEF Tick
    <3>2. ASSUME NEW h \in Conns, HeldFor(m, h) PROVE HeldFor(m, h)'
      <4>1. awaitingRel[h][i] \in Entry
        BY <2>1, <3>2 DEF HeldFor, TypeOK
      <4>2. \/ awaitingRel'[h][i] = awaitingRel[h][i]
            \/ awaitingRel'[h][i] = [awaitingRel[h][i] EXCEPT !.age = @ + 1]
        BY <2>1, <2>10 DEF Tick
      <4>3. awaitingRel'[h][i].msg = awaitingRel[h][i].msg
        BY <4>1, <4>2 DEF Entry
      <4>4. awaitingRel'[h][i] # None
        <5>1. awaitingRel'[h][i] = IF i \in Held(h) /\ awaitingRel[h][i].age < AwaitRelTimeout
                THEN [awaitingRel[h][i] EXCEPT !.age = @ + 1] ELSE awaitingRel[h][i]
          BY <2>1, <2>10 DEF Tick
        <5>2. awaitingRel[h][i].age < AwaitRelTimeout =>
                  [awaitingRel[h][i] EXCEPT !.age = @ + 1] \in Entry
          BY <4>1 DEF Entry
        <5>3. awaitingRel'[h][i] \in Entry
          BY <4>1, <5>1, <5>2
        <5>4. QED
          BY <5>3
      <4>5. QED
        BY <3>2, <4>3, <4>4 DEF HeldFor
    <3>3. QED
      BY <2>8, <3>1, <3>2
  <2>11. ASSUME NEW k \in Conns, \/ MapRace(k)
                                 \/ \E a \in Ids : Fire(k, a)
                                 \/ \E a, b \in Ids : Visit(k, a, b)
         PROVE  Goal
    <3>1. UNCHANGED <<on, st, inq, pc, cur, routed, awaitingRel>>
      BY <2>11 DEF MapRace, Fire, Visit
    <3>2. QED
      BY <2>8, <3>1 DEF HeldFor
  <2>12. CASE Dial \/ Produce \/ OtherPublishes \/ UNCHANGED vars
    <3>1. UNCHANGED <<on, st, inq, pc, cur, routed, awaitingRel>>
      BY <2>12 DEF Dial, Produce, OtherPublishes, vars
    <3>2. QED
      BY <2>8, <3>1 DEF HeldFor
  \* The publisher.
  <2>13. ASSUME NEW n \in Msgs, Send(n) \/ Resend(n) \/ Release(n),
                st'[m] = st[m],
                n = m => Release(n)
         PROVE  Goal
    <3>1. UNCHANGED <<on, pc, cur, routed, awaitingRel>>
      BY <2>13 DEF Send, Resend, Release
    <3>2. PICK type \in {"PUBLISH", "PUBREL"} :
              Transmit(type, n) /\ (type = "PUBREL" <=> Release(n))
      <4>1. CASE Release(n)
        BY <4>1 DEF Release
      <4>2. CASE ~ Release(n)
        BY <2>13, <4>2 DEF Send, Resend
      <4>3. QED
        BY <4>1, <4>2
    <3>3. type = "PUBREL" => st[n] = "received"
      BY <3>2 DEF Release
    <3>4. ~ (type = "PUBLISH" /\ n = m)
      BY <2>13, <3>2
    <3>5. ASSUME type = "PUBREL", IdOf[n] = i
          PROVE  st[m] # "sent"
      BY <3>3, <3>5 DEF OneInUse
    <3>6. \A k \in Conns :
              /\ Pub(inq'[k], m) => Pub(inq[k], m)
              /\ RelThenPub(inq'[k], m) => RelThenPub(inq[k], m)
      BY <3>2, <3>4, Transmits
    <3>7. \A k \in Conns : (Taken(m, k)' <=> Taken(m, k)) /\ (Releasing(i, k)' <=> Releasing(i, k))
                           /\ (HeldFor(m, k)' <=> HeldFor(m, k))
      BY <3>1 DEF Taken, Releasing, HeldFor
    <3>8. Started(m)' <=> Started(m)
      BY <3>1 DEF Started
    <3>9. ASSUME Started(m) PROVE Shielded(m)'
      <4>1. st[m] = "sent" => ~ Rel(inq'[on], i)
        <5>1. on \in Conns
          BY DEF TypeOK
        <5>2. Rel(inq'[on], i) => Rel(inq[on], i) \/ (type = "PUBREL" /\ IdOf[n] = i)
          BY <3>2, <5>1, Transmits
        <5>3. QED
          BY <2>5, <3>5, <3>9, <5>2 DEF Shielded
      <4>2. on \in Conns
        BY DEF TypeOK
      <4>3. QED
        BY <2>5, <2>13, <3>1, <3>6, <3>7, <3>9, <4>1, <4>2 DEF Shielded
    <3>10. ASSUME ~ Started(m) PROVE Fresh(m)'
      <4>1. Fresh(m)
        BY <2>6, <3>10
      <4>2. ASSUME type = "PUBREL", IdOf[n] = i
            PROVE  \A k \in Conns : ~ Pub(inq[k], m) /\ ~ Taken(m, k)
        BY <3>5, <4>1, <4>2 DEF Fresh
      <4>3. \A k \in Conns : ~ PubThenRel(inq'[k], m)
        <5> SUFFICES ASSUME NEW k \in Conns PROVE ~ PubThenRel(inq'[k], m)
          OBVIOUS
        <5>1. PubThenRel(inq'[k], m) =>
                  PubThenRel(inq[k], m) \/ (Pub(inq[k], m) /\ type = "PUBREL" /\ IdOf[n] = i)
          BY <3>2, Transmits
        <5>2. QED
          BY <4>1, <4>2, <5>1 DEF Fresh
      <4>4. \A k \in Conns : Taken(m, k) => ~ Rel(inq'[k], i)
        <5> SUFFICES ASSUME NEW k \in Conns, Taken(m, k) PROVE ~ Rel(inq'[k], i)
          OBVIOUS
        <5>1. Rel(inq'[k], i) => Rel(inq[k], i) \/ (type = "PUBREL" /\ IdOf[n] = i)
          BY <3>2, Transmits
        <5>2. QED
          BY <4>1, <4>2, <5>1 DEF Fresh
      <4>5. QED
        BY <2>13, <3>1, <3>6, <3>7, <4>1, <4>3, <4>4 DEF Fresh
    <3>11. QED
      BY <3>8, <3>9, <3>10
  <2>14. CASE Send(m) \/ Resend(m)
    <3>1. UNCHANGED <<on, pc, cur, routed, awaitingRel>> /\ Transmit("PUBLISH", m)
      BY <2>14 DEF Send, Resend
    <3>2. st'[m] = "sent" /\ (Send(m) => st[m] = "new") /\ (~ Send(m) => st[m] = "sent")
      BY <2>4, <2>14 DEF Send, Resend, LostIsExcused, TypeOK
    <3>3. \A k \in Conns : (Taken(m, k)' <=> Taken(m, k)) /\ (Releasing(i, k)' <=> Releasing(i, k))
                           /\ (HeldFor(m, k)' <=> HeldFor(m, k))
      BY <3>1 DEF Taken, Releasing, HeldFor
    <3>4. Started(m)' <=> Started(m)
      BY <3>1 DEF Started
    <3>5. \A k \in Conns :
              /\ Pub(inq'[k], m) => Pub(inq[k], m) \/ k = on
              /\ Rel(inq'[k], i) => Rel(inq[k], i)
              /\ RelThenPub(inq'[k], m) =>
                    RelThenPub(inq[k], m) \/ (k = on /\ Rel(inq[k], i))
              /\ PubThenRel(inq'[k], m) => PubThenRel(inq[k], m)
      BY <3>1, Transmits
    <3>6. on \in Conns
      BY DEF TypeOK
    <3>7. ASSUME Started(m) PROVE Shielded(m)'
      <4>1. Shielded(m)
        BY <2>5, <3>7
      <4>2. st[m] = "sent"
        BY <3>2, <4>1 DEF Shielded
      <4>3. HeldFor(m, on) /\ ~ Rel(inq[on], i) /\ ~ Releasing(i, on)
        BY <4>1, <4>2 DEF Shielded
      <4>4. /\ \A k \in Conns : Pub(inq'[k], m) \/ Taken(m, k) => HeldFor(m, k)
            /\ \A k \in Conns : ~ RelThenPub(inq'[k], m)
            /\ \A k \in Conns : Releasing(i, k) => ~ Pub(inq'[k], m)
            /\ ~ Rel(inq'[on], i)
        BY <3>5, <3>6, <4>1, <4>3 DEF Shielded
      <4>5. QED
        BY <3>1, <3>2, <3>3, <3>6, <4>1, <4>2, <4>3, <4>4 DEF Shielded
    <3>8. ASSUME ~ Started(m) PROVE Fresh(m)'
      <4>1. Fresh(m)
        BY <2>6, <3>8
      <4>2. QED
        BY <3>1, <3>2, <3>3, <3>5, <4>1 DEF Fresh
    <3>9. QED
      BY <3>4, <3>7, <3>8
  <2>15. ASSUME NEW n \in Msgs, Send(n) \/ Resend(n) \/ Release(n) PROVE Goal
    <3>1. CASE n # m
      <4>1. st'[m] = st[m]
        BY <2>15, <3>1 DEF Send, Resend, Release, TypeOK
      <4>2. QED
        BY <2>13, <2>15, <3>1, <4>1
    <3>2. CASE n = m /\ Release(m)
      <4>1. st'[m] = st[m]
        BY <3>2 DEF Release
      <4>2. QED
        BY <2>13, <3>2, <4>1
    <3>3. QED
      BY <2>14, <2>15, <3>1, <3>2
  <2>16. CASE Reconnect
    <3>1. UNCHANGED <<pc, cur, routed, awaitingRel>>
      BY <2>16 DEF Reconnect
    <3>2. st[m] # "sent" /\ st'[m] = st[m]
      BY <2>16 DEF Reconnect
    <3>3. PICK n \in 0..Len(inq[on]) : inq' = [inq EXCEPT ![on] = SubSeq(@, 1, n)]
      BY <2>16 DEF Reconnect
    <3>4. \A k \in Conns :
              /\ Pub(inq'[k], m) => Pub(inq[k], m)
              /\ RelThenPub(inq'[k], m) => RelThenPub(inq[k], m)
              /\ PubThenRel(inq'[k], m) => PubThenRel(inq[k], m)
      <4> SUFFICES ASSUME NEW k \in Conns
                   PROVE  /\ Pub(inq'[k], m) => Pub(inq[k], m)
                          /\ RelThenPub(inq'[k], m) => RelThenPub(inq[k], m)
                          /\ PubThenRel(inq'[k], m) => PubThenRel(inq[k], m)
        OBVIOUS
      <4>1. inq[k] \in Seq(Packets) /\ inq \in [Conns -> Seq(Packets)] /\ on \in Conns
        BY DEF TypeOK
      <4>2. CASE k # on
        BY <3>3, <4>1, <4>2
      <4>3. CASE k = on
        <5>1. inq'[k] = SubSeq(inq[k], 1, n) /\ n \in 0..Len(inq[k])
          BY <3>3, <4>1, <4>3
        <5>2. PICK q \in Seq(Packets) : q = inq[k]
          BY <4>1
        <5>3. n \in 0..Len(q)
          BY <5>1, <5>2
        <5>4. /\ Pub(SubSeq(q, 1, n), m) => Pub(q, m)
              /\ Rel(SubSeq(q, 1, n), i) => Rel(q, i)
              /\ RelThenPub(SubSeq(q, 1, n), m) => RelThenPub(q, m)
              /\ PubThenRel(SubSeq(q, 1, n), m) => PubThenRel(q, m)
          BY <5>3, QueuePrefix
        <5>5. QED
          BY <5>1, <5>2, <5>4
      <4>4. QED
        BY <4>2, <4>3
    <3>5. \A k \in Conns : (Taken(m, k)' <=> Taken(m, k)) /\ (Releasing(i, k)' <=> Releasing(i, k))
                           /\ (HeldFor(m, k)' <=> HeldFor(m, k))
      BY <3>1 DEF Taken, Releasing, HeldFor
    <3>6. Started(m)' <=> Started(m)
      BY <3>1 DEF Started
    <3>7. ASSUME Started(m) PROVE Shielded(m)'
      BY <2>5, <3>1, <3>2, <3>4, <3>5, <3>7 DEF Shielded
    <3>8. ASSUME ~ Started(m) PROVE Fresh(m)'
      BY <2>6, <3>1, <3>2, <3>4, <3>5, <3>8 DEF Fresh
    <3>9. QED
      BY <3>6, <3>7, <3>8
  \* The worker.
  <2>17. ASSUME NEW k \in Conns, Take(k) PROVE Goal
    <3>1. /\ pc = "idle" /\ inq[k] # <<>> /\ inq' = [inq EXCEPT ![k] = Tail(@)]
          /\ UNCHANGED <<on, st, routed, awaitingRel>>
      BY <2>17 DEF Take
    <3>2. inq[k] \in Seq(Packets) /\ inq \in [Conns -> Seq(Packets)] /\ on \in Conns
      BY DEF TypeOK
    <3>3. PICK q \in Seq(Packets) : q = inq[k] /\ q # <<>>
      BY <3>1, <3>2
    <3>4. inq'[k] = Tail(q) /\ \A h \in Conns : h # k => inq'[h] = inq[h]
      BY <3>1, <3>2, <3>3
    <3>5. /\ cur'.conn = k /\ cur'.msg = Head(q).msg
          /\ pc' = "pubrel" <=> Head(q).type = "PUBREL"
          /\ pc' \in {"pubrel", "bridge", "qos"}
      BY <2>17, <3>3 DEF Take
    <3>6. /\ Head(q) \in Packets
          /\ IsPub(Head(q), m) => Pub(q, m)
          /\ IsRel(Head(q), i) => Rel(q, i)
          /\ Pub(Tail(q), m) => Pub(q, m)
          /\ Rel(Tail(q), i) => Rel(q, i)
          /\ RelThenPub(Tail(q), m) => RelThenPub(q, m)
          /\ PubThenRel(Tail(q), m) => PubThenRel(q, m)
          /\ IsRel(Head(q), IdOf[m]) /\ Pub(Tail(q), m) => RelThenPub(q, m)
          /\ IsPub(Head(q), m) /\ Rel(Tail(q), IdOf[m]) => PubThenRel(q, m)
      BY <3>3, QueueTail
    <3>7. \A h \in Conns : Taken(m, h)' => h = k /\ IsPub(Head(q), m)
      BY <3>5, <3>6 DEF Taken, IsPub, Packets
    <3>8. \A h \in Conns : Releasing(i, h)' => h = k /\ IsRel(Head(q), i)
      BY <3>5 DEF Releasing, IsRel
    <3>9. \A h \in Conns : HeldFor(m, h)' <=> HeldFor(m, h)
      BY <3>1 DEF HeldFor
    <3>10. ~ Mine /\ ~ Mine' /\ (Started(m)' <=> Started(m))
      BY <3>1, <3>5 DEF Started
    <3>11. \A h \in Conns :
              /\ Pub(inq'[h], m) => Pub(inq[h], m)
              /\ Taken(m, h)' => Pub(inq[h], m)
              /\ Rel(inq'[h], i) => Rel(inq[h], i)
              /\ Releasing(i, h)' => Rel(inq[h], i)
              /\ RelThenPub(inq'[h], m) => RelThenPub(inq[h], m)
              /\ PubThenRel(inq'[h], m) => PubThenRel(inq[h], m)
              /\ Releasing(i, h)' /\ Pub(inq'[h], m) => RelThenPub(inq[h], m)
              /\ Taken(m, h)' /\ Rel(inq'[h], i) => PubThenRel(inq[h], m)
      BY <3>3, <3>4, <3>6, <3>7, <3>8
    <3>12. ASSUME Started(m) PROVE Shielded(m)'
      <4>1. Shielded(m)
        BY <2>5, <3>12
      <4>2. QED
        BY <3>1, <3>2, <3>9, <3>10, <3>11, <4>1 DEF Shielded
    <3>13. ASSUME ~ Started(m) PROVE Fresh(m)'
      <4>1. Fresh(m)
        BY <2>6, <3>13
      <4>2. QED
        BY <3>1, <3>2, <3>11, <4>1 DEF Fresh
    <3>14. QED
      BY <3>10, <3>12, <3>13
  <2>18. ASSUME UNCHANGED <<on, inq>>, st'[m] = st[m], routed'[m] = routed[m],
                pc' # "pubrel", pc' \in {"bridge", "qos"} => pc \in {"bridge", "qos"},
                cur' = cur \/ pc' = "idle",
                pc \in {"pubrec", "route"} \/ pc' \in {"pubrec", "route"} => cur.msg # m,
                \A k \in Conns : HeldFor(m, k) => HeldFor(m, k)'
         PROVE  Goal
    <3>1. ~ Mine /\ ~ Mine'
      BY <2>18
    <3>2. \A k \in Conns : (Taken(m, k)' => Taken(m, k)) /\ ~ Releasing(i, k)'
      BY <2>18 DEF Taken, Releasing
    <3>3. QED
      BY <2>7, <2>18, <3>1, <3>2
  <2>19. CASE PublishToStream
    <3>1. /\ pc = "bridge" /\ pc' = "qos" /\ UNCHANGED <<on, inq, st, routed, cur, awaitingRel>>
      BY <2>19 DEF PublishToStream
    <3>2. QED
      BY <2>18, <3>1 DEF HeldFor
  <2>20. CASE PublishQos0
    <3>1. /\ pc = "qos" /\ pc' = "route" /\ QosOf[cur.msg] = 0
          /\ UNCHANGED <<on, inq, st, routed, cur, awaitingRel>>
      BY <2>20 DEF PublishQos0, Goto
    <3>2. QED
      BY <2>18, <3>1 DEF HeldFor
  <2>27. CASE PublishUnknownQos
    <3>1. /\ pc = "qos" /\ pc' = "idle" /\ cur.msg # m
          /\ UNCHANGED <<on, inq, st, routed, awaitingRel>>
      BY <2>27 DEF PublishUnknownQos, Goto
    <3>2. QED
      BY <2>18, <3>1 DEF HeldFor
  <2>21. CASE WritePuback
    <3>1. /\ pc = "qos" /\ QosOf[cur.msg] = 1 /\ Answer("sent", "done", "route")
          /\ UNCHANGED <<on, inq, routed, awaitingRel>>
      BY <2>21 DEF WritePuback
    <3>2. m # cur.msg
      BY <3>1
    <3>3. st'[m] = st[m] /\ ((pc' = "route" /\ cur' = cur) \/ pc' = "idle")
      BY <3>1, <3>2, AnswerSteps
    <3>4. QED
      BY <2>18, <3>1, <3>2, <3>3 DEF HeldFor
  <2>22. CASE Register
    <3> DEFINE n == [age |-> 0, msg |-> cur.msg]
               k == cur.conn
               e == IdOf[cur.msg]
    <3>1. pc = "qos" /\ k \in Conns /\ cur.msg \in Msgs /\ e \in Ids
      BY <2>22, InHand DEF Register
    <3>2. UNCHANGED <<on, inq, st, routed>>
      BY <2>22 DEF Register
    <3>3. \/ pc' = "idle" /\ e \in Held(k) /\ UNCHANGED awaitingRel
          \/ /\ pc' = "pubrec" /\ cur' = cur /\ e \notin Held(k)
             /\ awaitingRel' = [awaitingRel EXCEPT ![k][e] = n]
      BY <2>22 DEF Register, Goto
    <3>4. n \in Entry /\ n.msg = cur.msg
      BY <3>1 DEF Entry
    <3>5. CASE pc' = "idle" /\ UNCHANGED awaitingRel
      BY <2>18, <3>1, <3>2, <3>5 DEF HeldFor
    <3>6. CASE /\ pc' = "pubrec" /\ cur' = cur /\ e \notin Held(k)
               /\ awaitingRel' = [awaitingRel EXCEPT ![k][e] = n]
      <4> HIDE DEF n
      <4>1. awaitingRel[k][e] = None
        BY <3>1, <3>6 DEF Held
      <4>2. /\ awaitingRel'[k][e] = n
            /\ \A h \in Conns, j \in Ids :
                  ~ (h = k /\ j = e) => awaitingRel'[h][j] = awaitingRel[h][j]
        BY <3>1, <3>4, <3>6 DEF TypeOK
      <4>3. \A h \in Conns : HeldFor(m, h) => HeldFor(m, h)'
        BY <2>1, <4>1, <4>2 DEF HeldFor
      <4>4. CASE cur.msg # m
        BY <2>18, <3>1, <3>2, <3>6, <4>3, <4>4
      <4>5. CASE cur.msg = m
        <5>1. Taken(m, k)
          BY <3>1, <4>5 DEF Taken
        <5>2. ~ Started(m)
          <6>1. ~ HeldFor(m, k)
            BY <4>1, <4>5 DEF HeldFor
          <6>2. QED
            BY <2>5, <3>1, <5>1, <6>1 DEF Shielded
        <5>3. Fresh(m)
          BY <2>6, <5>2
        <5>4. k = on /\ st[m] = "sent" /\ ~ Rel(inq[on], i)
          BY <3>1, <5>1, <5>3 DEF Fresh
        <5>5. HeldFor(m, on)'
          <6>1. n # None
            BY <3>4
          <6>2. QED
            BY <3>2, <3>4, <4>2, <4>5, <5>4, <6>1 DEF HeldFor
        <5>6. \A h \in Conns : Pub(inq[h], m) => h = on
          BY <5>3 DEF Fresh
        <5>7. \A h \in Conns : ~ RelThenPub(inq[h], m)
          <6>1. \A h \in Conns : inq[h] \in Seq(Packets)
            BY DEF TypeOK
          <6>2. QED
            BY <5>4, <5>6, <6>1, OrderHoldsBoth
        <5>8. \A h \in Conns : ~ Taken(m, h)' /\ ~ Releasing(i, h)'
          BY <3>6 DEF Taken, Releasing
        <5>9. routed[m] = 0 /\ Started(m)'
          BY <2>1, <3>6, <4>5, <5>2 DEF Started
        <5>10. on \in Conns /\ cur'.conn = on
          BY <3>1, <3>6, <5>4
        <5>11. Shielded(m)'
          BY <3>2, <5>4, <5>5, <5>6, <5>7, <5>8, <5>9, <5>10 DEF Shielded
        <5>12. QED
          BY <5>9, <5>11
      <4>6. QED
        BY <4>4, <4>5
    <3>7. QED
      BY <3>3, <3>5, <3>6
  <2>23. CASE WritePubrec
    <3>1. /\ pc = "pubrec" /\ Answer("sent", "received", "route")
          /\ UNCHANGED <<on, inq, routed, awaitingRel>>
      BY <2>23 DEF WritePubrec
    <3>2. /\ m # cur.msg => st'[m] = st[m]
          /\ cur.conn = on => pc' = "route"
          /\ st'[cur.msg] = st[cur.msg] \/ st'[cur.msg] = "received"
          /\ (pc' = "route" /\ cur' = cur) \/ pc' = "idle"
      BY <3>1, AnswerSteps
    <3>3. \A h \in Conns : HeldFor(m, h)' <=> HeldFor(m, h)
      BY <3>1 DEF HeldFor
    <3>4. CASE m # cur.msg
      BY <2>18, <3>1, <3>2, <3>3, <3>4
    <3>5. CASE m = cur.msg
      <4>1. Started(m) /\ Shielded(m)
        BY <2>5, <3>1, <3>5 DEF Started
      <4>2. cur.conn = on /\ routed[m] = 0
        BY <3>1, <3>5, <4>1 DEF Shielded
      <4>3. pc' = "route" /\ cur' = cur
        BY <3>2, <4>2
      <4>4. \A h \in Conns : ~ Taken(m, h)' /\ ~ Releasing(i, h)'
        BY <4>3 DEF Taken, Releasing
      <4>5. Started(m)'
        BY <3>5, <4>3 DEF Started
      <4>6. on \in Conns /\ st'[m] # "new" /\ (st'[m] = "sent" => st[m] = "sent")
        BY <3>2, <3>5, <4>1 DEF Shielded, TypeOK
      <4>7. Shielded(m)'
        BY <3>1, <3>3, <4>1, <4>2, <4>3, <4>4, <4>6 DEF Shielded
      <4>8. QED
        BY <4>5, <4>7
    <3>6. QED
      BY <3>4, <3>5
  <2>24. CASE Route
    <3>1. /\ pc = "route" /\ pc' = "idle" /\ UNCHANGED <<on, inq, st, awaitingRel>>
          /\ routed' = [routed EXCEPT ![cur.msg] = IF @ < 2 THEN @ + 1 ELSE @]
      BY <2>24 DEF Route, Goto
    <3>2. \A h \in Conns : HeldFor(m, h)' <=> HeldFor(m, h)
      BY <3>1 DEF HeldFor
    <3>3. CASE m # cur.msg
      <4>1. routed'[m] = routed[m]
        BY <3>1, <3>3 DEF TypeOK
      <4>2. QED
        BY <2>18, <3>1, <3>2, <3>3, <4>1
    <3>4. CASE m = cur.msg
      <4>1. Started(m) /\ Shielded(m)
        BY <2>5, <3>1, <3>4 DEF Started
      <4>2. routed[m] = 0
        BY <3>1, <3>4, <4>1 DEF Shielded
      <4>3. routed'[m] = 1
        BY <3>1, <3>4, <4>2 DEF TypeOK
      <4>4. \A h \in Conns : ~ Taken(m, h)' /\ ~ Releasing(i, h)'
        BY <3>1 DEF Taken, Releasing
      <4>5. Started(m)'
        BY <4>3 DEF Started
      <4>6. on \in Conns
        BY DEF TypeOK
      <4>7. Shielded(m)'
        BY <3>1, <3>2, <4>1, <4>3, <4>4, <4>6 DEF Shielded
      <4>8. QED
        BY <4>5, <4>7
    <3>5. QED
      BY <3>3, <3>4
  <2>25. CASE PubRel
    <3> DEFINE k == cur.conn
               e == IdOf[cur.msg]
    <3>1. pc = "pubrel" /\ k \in Conns /\ cur.msg \in Msgs /\ e \in Ids
      BY <2>25, InHand DEF PubRel
    <3>2. /\ awaitingRel' = [awaitingRel EXCEPT ![k][e] = None]
          /\ Answer("received", "done", "idle")
          /\ UNCHANGED <<on, inq, routed>>
      BY <2>25 DEF PubRel
    <3>3. /\ pc' = "idle"
          /\ m # cur.msg => st'[m] = st[m]
          /\ \/ st'[cur.msg] = st[cur.msg]
             \/ st[cur.msg] = "received" /\ st'[cur.msg] = "done"
      BY <3>1, <3>2, AnswerSteps
    <3>4. \A h \in Conns : h # k \/ i # e => (HeldFor(m, h)' <=> HeldFor(m, h))
      <4>1. \A h \in Conns : h # k \/ i # e => awaitingRel'[h][i] = awaitingRel[h][i]
        BY <2>1, <3>1, <3>2 DEF TypeOK
      <4>2. QED
        BY <4>1 DEF HeldFor
    <3>5. CASE i # e
      <4>1. m # cur.msg
        BY <3>5
      <4>2. QED
        BY <2>18, <3>1, <3>2, <3>3, <3>4, <3>5, <4>1
    <3>6. CASE i = e
      <4>1. Releasing(i, k)
        BY <3>1, <3>6 DEF Releasing
      <4>2. \A h \in Conns : ~ Taken(m, h)' /\ ~ Releasing(i, h)'
        BY <3>3 DEF Taken, Releasing
      <4>3. ~ Mine' /\ (Started(m)' <=> Started(m))
        BY <3>1, <3>2, <3>3 DEF Started
      <4>4. on \in Conns
        BY DEF TypeOK
      <4>5. ASSUME Started(m) PROVE Shielded(m)'
        <5>1. Shielded(m)
          BY <2>5, <4>5
        <5>2. \A h \in Conns : Pub(inq[h], m) => h # k /\ HeldFor(m, h)'
          BY <3>1, <3>4, <4>1, <5>1 DEF Shielded
        <5>3. st'[m] # "new" /\ (st'[m] = "sent" => st[m] = "sent")
          BY <3>3, <5>1 DEF Shielded
        <5>4. st[m] = "sent" => HeldFor(m, on)' /\ ~ Rel(inq[on], i)
          <6>1. st[m] = "sent" => on # k /\ HeldFor(m, on) /\ ~ Rel(inq[on], i)
            BY <4>1, <5>1 DEF Shielded
          <6>2. on # k => (HeldFor(m, on)' <=> HeldFor(m, on))
            <7>1. PICK h \in Conns : h = on
              BY <4>4
            <7>2. h # k => (HeldFor(m, h)' <=> HeldFor(m, h))
              BY <3>4
            <7>3. (HeldFor(m, h)' <=> HeldFor(m, on)') /\ (HeldFor(m, h) <=> HeldFor(m, on))
              BY <3>2, <7>1
            <7>4. QED
              BY <7>1, <7>2, <7>3
          <6>3. QED
            BY <6>1, <6>2
        <5>5. QED
          BY <3>2, <3>3, <4>2, <4>3, <4>4, <5>1, <5>2, <5>3, <5>4 DEF Shielded
      <4>6. ASSUME ~ Started(m) PROVE Fresh(m)'
        <5>1. Fresh(m)
          BY <2>6, <4>6
        <5>2. st'[m] = st[m]
          BY <3>3, <5>1 DEF Fresh
        <5>3. QED
          BY <3>2, <4>2, <5>1, <5>2 DEF Fresh
      <4>7. QED
        BY <4>3, <4>5, <4>6
    <3>7. QED
      BY <3>5, <3>6
  <2>26. QED
    BY <2>9, <2>10, <2>11, <2>12, <2>15, <2>16, <2>17, <2>19, <2>20, <2>21, <2>22, <2>23,
       <2>24, <2>25, <2>27, NextCases
<1>3. QED
  BY <1>1, <1>2, TypeCorrect, IdsInUse, PTL DEF Spec

\* A QoS 2 message that is not excused is processed at most once.
THEOREM ProcessedOnce == Spec => []RoutedOnce
<1>1. TypeOK /\ OnceInv => RoutedOnce
  <2> SUFFICES ASSUME TypeOK, OnceInv, NEW m \in Msgs \ excused, QosOf[m] = 2
               PROVE  routed[m] <= 1
    BY DEF RoutedOnce
  <2>1. CASE Started(m)
    BY <2>1 DEF OnceInv, Shielded
  <2>2. CASE ~ Started(m)
    <3>1. ~ (routed[m] > 0)
      BY <2>2 DEF Started
    <3>2. routed[m] \in 0..2
      BY DEF TypeOK
    <3>3. QED
      BY <3>1, <3>2
  <2>3. QED
    BY <2>1, <2>2
<1>2. QED
  BY <1>1, TypeCorrect, OnceCorrect, PTL

=============================================================================
