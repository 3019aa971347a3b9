--------------------------- MODULE SessionsProofs ---------------------------
(***************************************************************************)
(* Proofs about Sessions, for any number of simultaneous connections,      *)
(* client identifiers and topics.                                          *)
(***************************************************************************)
EXTENDS Sessions, TLAPS

\* Who may hold a session: it is created by the connection it is named after,
\* before anybody finds it in the store, and initialized by that connection.
Ownership ==
    /\ \A c \in Conns : pc[c] \in {"connect", "session", "new"} => sess[c] = None
    /\ \A c \in Conns : pc[c] = "init" => sess[c] = c
    /\ \A c \in Conns : pc[c] = "update" => sess[c] # c
    /\ \A c \in Conns : sess[c] # None => sess[sess[c]] = sess[c]
    /\ \A i \in Ids : st[i] # None => sess[st[i]] = st[i]
    /\ \A s \in initted : sess[s] = s

\* Which connections take which way through getSession.
CleanIsNew ==
    /\ \A c \in Conns : pc[c] = "session" /\ IdOf[c] = NoId => c \in clean
    /\ \A c \in Conns : pc[c] = "update" => c \notin clean

\* No subscription precedes readLoop.
SubscribesInRun ==
    \A c \in Conns : pc[c] \notin {"run", "closed"} => subMap[c] = {} /\ stale[c] = {}

\* The inductive invariant.
Inv ==
    /\ TypeOK
    /\ Ownership
    /\ CleanIsNew
    /\ SubscribesInRun
    /\ UninitializedIsBrief
    /\ ExclusiveSessionRemembers

\* Every case of a proof about Next.
LEMMA NextCases ==
    ASSUME [Next]_vars
    PROVE  \/ \E c \in Conns :
                 \/ ConnectFatal(c) \/ Refuse(c) \/ LookUp(c) \/ UpdateSession(c)
                 \/ NewSession(c) \/ InitSession(c) \/ Close(c)
           \/ \E c \in Conns, isClean \in BOOLEAN : Accept(c, isClean)
           \/ \E c \in Conns, t \in Topics :
                 Subscribe(c, t) \/ SubscribeFails(c, t) \/ Unsubscribe(c, t)
           \/ UNCHANGED vars
  BY DEF Next

\* Inv holds before any connection is accepted.
LEMMA InvInit == Init => Inv
<1> USE SessionsAssumption DEF SessionsAssumption
<1> SUFFICES ASSUME Init PROVE Inv
  OBVIOUS
<1>1. TypeOK
  BY DEF Init, TypeOK
<1>2. Ownership /\ CleanIsNew /\ SubscribesInRun
  BY DEF Init, Ownership, CleanIsNew, SubscribesInRun
<1>3. UninitializedIsBrief /\ ExclusiveSessionRemembers
  BY DEF Init, UninitializedIsBrief, ExclusiveSessionRemembers
<1>4. QED
  BY <1>1, <1>2, <1>3 DEF Inv

\* Inv is preserved by every step of handleConnection, getSession and the
\* handlers.
LEMMA InvNext == Inv /\ [Next]_vars => Inv'
<1> USE SessionsAssumption DEF SessionsAssumption
<1> SUFFICES ASSUME Inv, [Next]_vars PROVE Inv'
  OBVIOUS
<1> USE DEF Inv, TypeOK, Ownership, CleanIsNew, SubscribesInRun
<1>1. ASSUME NEW c \in Conns, ConnectFatal(c) PROVE Inv'
  BY <1>1 DEF ConnectFatal, UninitializedIsBrief, ExclusiveSessionRemembers
<1>2. ASSUME NEW c \in Conns, Refuse(c) PROVE Inv'
  BY <1>2 DEF Refuse, Goto, UninitializedIsBrief, ExclusiveSessionRemembers
<1>3. ASSUME NEW c \in Conns, NEW isClean \in BOOLEAN, Accept(c, isClean)
      PROVE  Inv'
  BY <1>3 DEF Accept, Goto, UninitializedIsBrief, ExclusiveSessionRemembers
<1>4. ASSUME NEW c \in Conns, LookUp(c) PROVE Inv'
  <2>1. TypeOK'
    BY <1>4 DEF LookUp, Found, Goto
  <2>2. Ownership'
    BY <1>4 DEF LookUp, Found, Goto
  <2>3. CleanIsNew' /\ SubscribesInRun'
    BY <1>4 DEF LookUp, Found, Goto
  <2>4. UninitializedIsBrief'
    BY <1>4 DEF LookUp, Found, Goto, UninitializedIsBrief
  <2>5. ExclusiveSessionRemembers'
    BY <1>4 DEF LookUp, Found, Goto, UninitializedIsBrief, ExclusiveSessionRemembers
  <2>6. QED
    BY <2>1, <2>2, <2>3, <2>4, <2>5
<1>5. ASSUME NEW c \in Conns, UpdateSession(c) PROVE Inv'
  BY <1>5 DEF UpdateSession, Goto, UninitializedIsBrief, ExclusiveSessionRemembers
<1>6. ASSUME NEW c \in Conns, NewSession(c) PROVE Inv'
  <2>1. TypeOK'
    BY <1>6 DEF NewSession, Goto
  <2>2. Ownership'
    BY <1>6 DEF NewSession, Goto
  <2>3. CleanIsNew' /\ SubscribesInRun'
    BY <1>6 DEF NewSession, Goto
  <2>4. UninitializedIsBrief'
    BY <1>6 DEF NewSession, Goto, UninitializedIsBrief
  <2>5. ExclusiveSessionRemembers'
    BY <1>6 DEF NewSession, Goto, UninitializedIsBrief, ExclusiveSessionRemembers
  <2>6. QED
    BY <2>1, <2>2, <2>3, <2>4, <2>5
<1>7. ASSUME NEW c \in Conns, InitSession(c) PROVE Inv'
  <2>1. TypeOK'
    BY <1>7 DEF InitSession, Goto
  <2>2. Ownership'
    BY <1>7 DEF InitSession, Goto
  <2>3. CleanIsNew' /\ SubscribesInRun'
    BY <1>7 DEF InitSession, Goto
  <2>4. UninitializedIsBrief'
    BY <1>7 DEF InitSession, Goto, UninitializedIsBrief
  <2>5. ExclusiveSessionRemembers'
    <3>1. sess[c] = c /\ c \notin initted /\ subMap[c] = {} /\ stale[c] = {}
      BY <1>7 DEF InitSession, UninitializedIsBrief
    <3>2. /\ topics' = [topics EXCEPT ![c] = {}]
          /\ pc' = [pc EXCEPT ![c] = "run"]
          /\ UNCHANGED <<sess, subMap, stale>>
      BY <1>7, <3>1 DEF InitSession, Goto
    <3>3. QED
      BY <3>1, <3>2 DEF ExclusiveSessionRemembers
  <2>6. QED
    BY <2>1, <2>2, <2>3, <2>4, <2>5
<1>8. ASSUME NEW c \in Conns, NEW t \in Topics, Subscribe(c, t) PROVE Inv'
  <2>1. TypeOK'
    BY <1>8 DEF Subscribe
  <2>2. Ownership'
    BY <1>8 DEF Subscribe
  <2>3. CleanIsNew' /\ SubscribesInRun'
    BY <1>8 DEF Subscribe
  <2>4. UninitializedIsBrief'
    BY <1>8 DEF Subscribe, UninitializedIsBrief
  <2>5. ExclusiveSessionRemembers'
    BY <1>8 DEF Subscribe, UninitializedIsBrief, ExclusiveSessionRemembers
  <2>6. QED
    BY <2>1, <2>2, <2>3, <2>4, <2>5
<1>9. ASSUME NEW c \in Conns, NEW t \in Topics, Unsubscribe(c, t) PROVE Inv'
  <2>1. TypeOK'
    BY <1>9 DEF Unsubscribe
  <2>2. Ownership'
    BY <1>9 DEF Unsubscribe
  <2>3. CleanIsNew' /\ SubscribesInRun'
    BY <1>9 DEF Unsubscribe
  <2>4. UninitializedIsBrief'
    BY <1>9 DEF Unsubscribe, UninitializedIsBrief
  <2>5. ExclusiveSessionRemembers'
    BY <1>9 DEF Unsubscribe, UninitializedIsBrief, ExclusiveSessionRemembers
  <2>6. QED
    BY <2>1, <2>2, <2>3, <2>4, <2>5
<1>10. ASSUME NEW c \in Conns, Close(c) PROVE Inv'
  BY <1>10 DEF Close, Goto, UninitializedIsBrief, ExclusiveSessionRemembers
<1>11. CASE UNCHANGED vars
  BY <1>11 DEF vars, UninitializedIsBrief, ExclusiveSessionRemembers
<1>12. ASSUME NEW c \in Conns, NEW t \in Topics, SubscribeFails(c, t) PROVE Inv'
  <2>1. TypeOK'
    BY <1>12 DEF SubscribeFails
  <2>2. Ownership'
    BY <1>12 DEF SubscribeFails
  <2>3. CleanIsNew' /\ SubscribesInRun'
    BY <1>12 DEF SubscribeFails
  <2>4. UninitializedIsBrief'
    BY <1>12 DEF SubscribeFails, UninitializedIsBrief
  <2>5. ExclusiveSessionRemembers'
    BY <1>12 DEF SubscribeFails, UninitializedIsBrief, ExclusiveSessionRemembers
  <2>6. QED
    BY <2>1, <2>2, <2>3, <2>4, <2>5
<1>13. QED
  BY <1>1, <1>2, <1>3, <1>4, <1>5, <1>6, <1>7, <1>8, <1>9, <1>10, <1>11, <1>12,
     NextCases

-----------------------------------------------------------------------------

\* Inv holds throughout.
LEMMA Invariance == Spec => []Inv
  BY InvInit, InvNext, PTL DEF Spec

\* Type correctness of the session store and of the goroutines of
\* handleConnection; in particular a connection past getSession has a session.
THEOREM TypeCorrect == Spec => []TypeOK
<1>1. Inv => TypeOK
  BY DEF Inv
<1>2. QED
  BY <1>1, Invariance, PTL

\* However many connections of one client run getSession at once, a session
\* that can be found before Init is one whose creator is about to call Init,
\* and that call succeeds.
THEOREM InitFollowsNew == Spec => []UninitializedIsBrief
<1>1. Inv => UninitializedIsBrief
  BY DEF Inv
<1>2. QED
  BY <1>1, Invariance, PTL

\* A session with one user holds the filters of client.subMap and, besides
\* them, only the ones whose SUBSCRIBE was repeated and refused.
THEOREM SessionRemembers == Spec => []ExclusiveSessionRemembers
<1>1. Inv => ExclusiveSessionRemembers
  BY DEF Inv
<1>2. QED
  BY <1>1, Invariance, PTL

\* A CONNECT with CleanSession never gets the topics of an earlier session:
\* getSession does not look for one, and Init of the new one empties it.
THEOREM CleanIsEmpty == Spec => CleanStartsEmpty
<1>1. ASSUME Inv, [Next]_vars, NEW c \in clean, pc[c] # "run", pc'[c] = "run"
      PROVE  topics'[sess'[c]] = {}
  <2> USE SessionsAssumption DEF SessionsAssumption, Inv, TypeOK, Ownership, CleanIsNew
  <2>0. c \in Conns
    BY <1>1
  <2>1. ASSUME NEW d \in Conns, InitSession(d) PROVE topics'[sess'[c]] = {}
    <3>1. sess[d] = d /\ d \notin initted
      BY <1>1, <2>1 DEF InitSession, UninitializedIsBrief
    <3>2. d = c
      BY <1>1, <2>0, <2>1 DEF InitSession, Goto
    <3>3. QED
      BY <1>1, <2>1, <3>1, <3>2 DEF InitSession
  <2>2. ASSUME NEW d \in Conns, \/ ConnectFatal(d) \/ Refuse(d) \/ LookUp(d)
                                \/ UpdateSession(d) \/ NewSession(d) \/ Close(d)
        PROVE  FALSE
    BY <1>1, <2>0, <2>2 DEF ConnectFatal, Refuse, LookUp, UpdateSession, NewSession,
                            Close, Goto
  <2>3. ASSUME NEW d \in Conns, NEW isClean \in BOOLEAN, Accept(d, isClean)
        PROVE  FALSE
    BY <1>1, <2>0, <2>3 DEF Accept, Goto
  <2>4. ASSUME NEW d \in Conns, NEW t \in Topics,
               Subscribe(d, t) \/ SubscribeFails(d, t) \/ Unsubscribe(d, t)
        PROVE  FALSE
    BY <1>1, <2>0, <2>4 DEF Subscribe, SubscribeFails, Unsubscribe
  <2>5. CASE UNCHANGED vars
    BY <1>1, <2>5 DEF vars
  <2>6. QED
    BY <1>1, <2>1, <2>2, <2>3, <2>4, <2>5, NextCases
<1>2. Inv /\ [Next]_vars =>
        [\A c \in clean : pc[c] # "run" /\ pc'[c] = "run" => topics'[sess'[c]] = {}]_vars
  BY <1>1
<1>3. QED
  BY <1>2, Invariance, PTL DEF Spec, CleanStartsEmpty
=============================================================================
