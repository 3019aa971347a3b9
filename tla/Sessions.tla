------------------------------ MODULE Sessions ------------------------------
(***************************************************************************)
(* Connecting: handleConnection of broker/broker.go up to readLoop,        *)
(* getSession of broker/session.go and the session store of                *)
(* persistence/sessions.  Every connection has a goroutine of its own, and *)
(* several may connect with the same client identifier at once; the store  *)
(* and each session have a lock that is held for one access only.          *)
(*                                                                         *)
(* A connection creates at most one session, so a session is named by the  *)
(* connection that created it.                                             *)
(***************************************************************************)
CONSTANTS
    Conns,      \* connections accepted by the listener
    Ids,        \* client identifiers
    NoId,       \* the empty client identifier
    IdOf,       \* the identifier in the CONNECT of each connection
    Topics,     \* topic filters
    None        \* nil

ASSUME SessionsAssumption ==
    /\ NoId \notin Ids
    /\ IdOf \in [Conns -> Ids \cup {NoId}]
    /\ None \notin Conns

VARIABLES
    up,         \* the process is running
    pc,         \* where the goroutine of each connection is
    clean,      \* the connections whose CONNECT has CleanSession set
    st,         \* memProvider.st: identifier -> session
    sess,       \* client.session
    initted,    \* sessions that have been initialized
    cmsg,       \* Session.cmsg: the connection whose CONNECT it holds
    topics,     \* Session.topics
    subMap,     \* client.subMap: its keys
    stale       \* the keys that a refused repetition of a SUBSCRIBE took out of
                \* client.subMap; no variable of the code

vars == <<up, pc, clean, st, sess, initted, cmsg, topics, subMap, stale>>

\* The values the store, the sessions and the goroutines hold; a connection
\* that is past getSession has a session.
TypeOK ==
    /\ up \in {"up", "exited"}
    /\ pc \in [Conns -> {"connect", "session", "update", "new", "init",
                         "run", "left", "closed"}]
    /\ clean \subseteq Conns
    /\ st \in [Ids -> Conns \cup {None}]
    /\ sess \in [Conns -> Conns \cup {None}]
    /\ initted \subseteq Conns
    /\ cmsg \in [Conns -> Conns \cup {None}]
    /\ topics \in [Conns -> SUBSET Topics]
    /\ subMap \in [Conns -> SUBSET Topics]
    /\ stale \in [Conns -> SUBSET Topics]
    /\ \A c \in Conns : pc[c] \in {"update", "init", "run", "closed"} => sess[c] # None

Init ==
    /\ up = "up"
    /\ pc = [c \in Conns |-> "connect"]
    /\ clean = {}
    /\ st = [i \in Ids |-> None]
    /\ sess = [c \in Conns |-> None]
    /\ initted = {}
    /\ cmsg = [c \in Conns |-> None]
    /\ topics = [c \in Conns |-> {}]
    /\ subMap = [c \in Conns |-> {}]
    /\ stale = [c \in Conns |-> {}]

Goto(c, l) == pc' = [pc EXCEPT ![c] = l]

-----------------------------------------------------------------------------
(***************************************************************************)
(* handleConnection.                                                       *)
(***************************************************************************)

\* The first packet cannot be read or is not a CONNECT, or a CONNACK cannot be
\* written: log.Fatal ends the process.
ConnectFatal(c) ==
    /\ up = "up"
    /\ pc[c] = "connect"
    /\ up' = "exited"
    /\ UNCHANGED <<pc, clean, st, sess, initted, cmsg, topics, subMap, stale>>

\* Validate or CheckConnect refuses: the goroutine returns.
Refuse(c) ==
    /\ up = "up"
    /\ pc[c] = "connect"
    /\ Goto(c, "left")
    /\ UNCHANGED <<up, clean, st, sess, initted, cmsg, topics, subMap, stale>>

\* The CONNACK has been written.  getSession sets CleanSession when there is
\* no identifier.
Accept(c, isClean) ==
    /\ up = "up"
    /\ pc[c] = "connect"
    /\ clean' = IF isClean \/ IdOf[c] = NoId THEN clean \cup {c} ELSE clean
    /\ Goto(c, "session")
    /\ UNCHANGED <<up, st, sess, initted, cmsg, topics, subMap, stale>>

-----------------------------------------------------------------------------
(***************************************************************************)
(* getSession.                                                             *)
(***************************************************************************)

\* Mutant: CleanSession is ignored.
FoundAnyway(c) == IdOf[c] # NoId /\ st[IdOf[c]] # None

Found(c) == c \notin clean /\ st[IdOf[c]] # None

\* Mutant: the error of Get is ignored.
LookUpNoError(c) ==
    /\ up = "up"
    /\ pc[c] = "session"
    /\ c \notin clean
    /\ sess' = [sess EXCEPT ![c] = st[IdOf[c]]]
    /\ Goto(c, "update")
    /\ UNCHANGED <<up, clean, st, initted, cmsg, topics, subMap, stale>>

\* sessionMgr.Get, unless CleanSession.
LookUp(c) ==
    /\ up = "up"
    /\ pc[c] = "session"
    /\ \/ /\ Found(c)
          /\ sess' = [sess EXCEPT ![c] = st[IdOf[c]]]
          /\ Goto(c, "update")
       \/ /\ ~ Found(c)
          /\ Goto(c, "new")
          /\ UNCHANGED sess
    /\ UNCHANGED <<up, clean, st, initted, cmsg, topics, subMap, stale>>

\* session.Update(req), then on to readLoop.
UpdateSession(c) ==
    /\ up = "up"
    /\ pc[c] = "update"
    /\ cmsg' = [cmsg EXCEPT ![sess[c]] = c]
    /\ Goto(c, "run")
    /\ UNCHANGED <<up, clean, st, sess, initted, topics, subMap, stale>>

\* Mutant: Init is not called.
NewSessionNoInit(c) ==
    /\ up = "up"
    /\ pc[c] = "new"
    /\ sess' = [sess EXCEPT ![c] = c]
    /\ st' = IF IdOf[c] = NoId THEN st ELSE [st EXCEPT ![IdOf[c]] = c]
    /\ Goto(c, "run")
    /\ UNCHANGED <<up, clean, initted, cmsg, topics, subMap, stale>>

\* sessionMgr.New(cid) replaces what the store holds for the identifier.  An
\* empty one is replaced by a random key, which no client can ask for.
NewSession(c) ==
    /\ up = "up"
    /\ pc[c] = "new"
    /\ sess' = [sess EXCEPT ![c] = c]
    /\ st' = IF IdOf[c] = NoId THEN st ELSE [st EXCEPT ![IdOf[c]] = c]
    /\ Goto(c, "init")
    /\ UNCHANGED <<up, clean, initted, cmsg, topics, subMap, stale>>

\* session.Init(req), then on to readLoop; a second Init is an error and the
\* connection is given up.
InitSession(c) ==
    /\ up = "up"
    /\ pc[c] = "init"
    /\ IF sess[c] \in initted
         THEN Goto(c, "left") /\ UNCHANGED <<cmsg, topics, initted>>
         ELSE /\ cmsg' = [cmsg EXCEPT ![sess[c]] = c]
              /\ topics' = [topics EXCEPT ![sess[c]] = {}]
              /\ initted' = initted \cup {sess[c]}
              /\ Goto(c, "run")
    /\ UNCHANGED <<up, clean, st, sess, subMap, stale>>

-----------------------------------------------------------------------------
(***************************************************************************)
(* What the packets of a connection do to its session.                     *)
(***************************************************************************)

\* SUBSCRIBE: c.subMap[t] = sub and session.AddTopic, whose error is ignored.
Subscribe(c, t) ==
    /\ up = "up"
    /\ pc[c] = "run"
    /\ subMap' = [subMap EXCEPT ![c] = @ \cup {t}]
    /\ topics' = IF sess[c] \in initted
                   THEN [topics EXCEPT ![sess[c]] = @ \cup {t}] ELSE topics
    /\ stale' = [stale EXCEPT ![c] = @ \ {t}]
    /\ UNCHANGED <<up, pc, clean, st, sess, initted, cmsg>>

\* SUBSCRIBE refused by topicsMgr.Subscribe (its QoS or filter is not valid):
\* the old subscription has left c.subMap, and session.RemoveTopic is not
\* called.
SubscribeFails(c, t) ==
    /\ up = "up"
    /\ pc[c] = "run"
    /\ subMap' = [subMap EXCEPT ![c] = @ \ {t}]
    /\ stale' = [stale EXCEPT ![c] = @ \cup (subMap[c] \cap {t})]
    /\ UNCHANGED <<up, pc, clean, st, sess, initted, cmsg, topics>>

\* Mutant: RemoveTopic is not called.
UnsubscribeNoRemove(c, t) ==
    /\ up = "up"
    /\ pc[c] = "run"
    /\ t \in subMap[c]
    /\ subMap' = [subMap EXCEPT ![c] = @ \ {t}]
    /\ UNCHANGED <<up, pc, clean, st, sess, initted, cmsg, topics, stale>>

\* UNSUBSCRIBE of a topic in subMap: session.RemoveTopic.
Unsubscribe(c, t) ==
    /\ up = "up"
    /\ pc[c] = "run"
    /\ t \in subMap[c]
    /\ subMap' = [subMap EXCEPT ![c] = @ \ {t}]
    /\ topics' = IF sess[c] \in initted
                   THEN [topics EXCEPT ![sess[c]] = @ \ {t}] ELSE topics
    /\ UNCHANGED <<up, pc, clean, st, sess, initted, cmsg, stale>>

\* DISCONNECT: Close leaves the session store and c.subMap alone.
Close(c) ==
    /\ up = "up"
    /\ pc[c] = "run"
    /\ Goto(c, "closed")
    /\ UNCHANGED <<up, clean, st, sess, initted, cmsg, topics, subMap, stale>>

Next ==
    \E c \in Conns :
        \/ ConnectFatal(c) \/ Refuse(c)
        \/ \E isClean \in BOOLEAN : Accept(c, isClean)
        \/ LookUp(c) \/ UpdateSession(c) \/ NewSession(c) \/ InitSession(c)
        \/ \E t \in Topics :
               Subscribe(c, t) \/ SubscribeFails(c, t) \/ Unsubscribe(c, t)
        \/ Close(c)

Spec == Init /\ [][Next]_vars

-----------------------------------------------------------------------------
(***************************************************************************)
(* Properties.                                                             *)
(***************************************************************************)

\* A session that other connections can find before it is initialized is one
\* whose creator is just about to initialize it; and nobody else does so first,
\* so that Init never fails.
UninitializedIsBrief ==
    \A s \in Conns : sess[s] = s => (s \notin initted <=> pc[s] = "init")

\* A connection with CleanSession starts without the topics of an earlier one,
\* even when another connection gets hold of its session at once.
CleanStartsEmpty ==
    [][\A c \in clean : pc[c] # "run" /\ pc'[c] = "run" => topics'[sess'[c]] = {}]_vars

\* A session that no second connection has taken up records what its client is
\* subscribed to, over any sequence of SUBSCRIBE and UNSUBSCRIBE, and besides
\* only the filters that the client lost when it repeated the SUBSCRIBE and was
\* refused: those stay in the session until they are subscribed to again, as
\* UNSUBSCRIBE passes over what is not in c.subMap.
ExclusiveSessionRemembers ==
    \A c \in Conns :
        /\ pc[c] \in {"run", "closed"}
        /\ sess[c] = c
        /\ \A d \in Conns \ {c} : sess[d] # c
        => /\ topics[c] = subMap[c] \cup stale[c]
           /\ subMap[c] \cap stale[c] = {}


=============================================================================
