----------------------------- MODULE ClientConn -----------------------------
(***************************************************************************)
(* The life of accepted connections: the read loop of every client, the    *)
(* worker pool its packets are handed to, and what the workers do to the   *)
(* connections (readLoop, WritePacket, Close and ProcessMessage of         *)
(* broker/client.go, SubmitWork of broker/broker.go, pool/pool.go).        *)
(*                                                                         *)
(* A worker takes one task at a time from an unbuffered channel, so the    *)
(* hand-over from a reader to a worker is one step and a reader waits      *)
(* while its worker is busy.  A packet other than DISCONNECT makes the     *)
(* worker write to some connections, its own (an acknowledgement) or those *)
(* of subscribers; what it says to them is left to the other modules.      *)
(*                                                                         *)
(* A panic in a goroutine that does not recover ends the whole process.    *)
(***************************************************************************)
EXTENDS Naturals

CONSTANTS
    Conns,          \* clients that have connected: one *client each
    Workers,        \* the goroutines of the pool
    WorkerOf,       \* the worker that the hash of each client's id selects
    KeepAlive,      \* the clients with a keep-alive, hence a read deadline
    MaxPackets,     \* bound: packets a client sends
    NoConn          \* no connection

ASSUME ConnAssumption ==
    /\ WorkerOf \in [Conns -> Workers]
    /\ KeepAlive \subseteq Conns
    /\ MaxPackets \in Nat
    /\ NoConn \notin Conns

VARIABLES
    socket,     \* the network connection: open, broken (by the peer), closed
    stalled,    \* the peers that do not read, so that a write blocks
    conn,       \* client.conn; it is nil once status is Disconnected
    ctx,        \* client.ctx
    pc,         \* where each readLoop is
    msg,        \* the packet it is about to submit
    nread,      \* packets each readLoop has made into a message
    ndone,      \* messages of each client that workers have begun to process
    task,       \* what each worker is processing: a client and its packet
    out,        \* connections it has still to write to
    crash       \* why the process has ended

vars == <<socket, stalled, conn, ctx, pc, msg, nread, ndone, task, out, crash>>

readerVars == <<pc, msg, nread, ctx>>
workerVars == <<task, out, ndone>>

Packets == {"packet", "malformed", "disconnect"}
Idle == [client |-> NoConn, packet |-> "none", seq |-> 0]
Task == [client : Conns, packet : Packets, seq : 1..(MaxPackets + 1)]

\* The values the client, its readLoop and the workers hold; a readLoop submits
\* at most one message more than the packets it has been sent.
TypeOK ==
    /\ socket \in [Conns -> {"open", "broken", "closed"}]
    /\ stalled \subseteq Conns
    /\ conn \in [Conns -> {"conn", "nil"}]
    /\ ctx \in [Conns -> {"live", "done"}]
    /\ pc \in [Conns -> {"top", "deadline", "read", "submit", "last", "exit"}]
    /\ msg \in [Conns -> Packets]
    /\ nread \in [Conns -> 0..(MaxPackets + 1)]
    /\ ndone \in [Conns -> 0..(MaxPackets + 1)]
    /\ task \in [Workers -> Task \cup {Idle}]
    /\ out \in [Workers -> SUBSET Conns]
    /\ crash \in {"no", "deadline", "nil", "rand"}

\* handleConnection has called init and enters readLoop.
Init ==
    /\ socket = [c \in Conns |-> "open"]
    /\ stalled = {}
    /\ conn = [c \in Conns |-> "conn"]
    /\ ctx = [c \in Conns |-> "live"]
    /\ pc = [c \in Conns |-> "top"]
    /\ msg = [c \in Conns |-> "packet"]
    /\ nread = [c \in Conns |-> 0]
    /\ ndone = [c \in Conns |-> 0]
    /\ task = [w \in Workers |-> Idle]
    /\ out = [w \in Workers |-> {}]
    /\ crash = "no"

-----------------------------------------------------------------------------
(***************************************************************************)
(* The peer and the network.                                               *)
(***************************************************************************)
PeerCloses(c) ==
    /\ crash = "no"
    /\ socket[c] = "open"
    /\ socket' = [socket EXCEPT ![c] = "broken"]
    /\ stalled' = stalled \ {c}
    /\ UNCHANGED <<conn, readerVars, workerVars, crash>>

PeerStalls(c) ==
    /\ crash = "no"
    /\ socket[c] = "open"
    /\ c \notin stalled
    /\ stalled' = stalled \cup {c}
    /\ UNCHANGED <<socket, conn, readerVars, workerVars, crash>>

PeerDrains(c) ==
    /\ crash = "no"
    /\ c \in stalled
    /\ stalled' = stalled \ {c}
    /\ UNCHANGED <<socket, conn, readerVars, workerVars, crash>>

-----------------------------------------------------------------------------
(***************************************************************************)
(* readLoop.                                                               *)
(***************************************************************************)

\* Mutant: ctx.Done() is not looked at.
LoopTopBlind(c) ==
    /\ crash = "no"
    /\ pc[c] = "top"
    /\ pc' = [pc EXCEPT ![c] = "deadline"]
    /\ UNCHANGED <<socket, stalled, conn, msg, nread, ctx, workerVars, crash>>

\* select on ctx.Done().
LoopTop(c) ==
    /\ crash = "no"
    /\ pc[c] = "top"
    /\ pc' = [pc EXCEPT ![c] = IF ctx[c] = "done" THEN "exit" ELSE "deadline"]
    /\ UNCHANGED <<socket, stalled, conn, msg, nread, ctx, workerVars, crash>>

\* SetReadDeadline, if there is a keep-alive.  It fails when the socket has been
\* closed on this side, and log.Panic does not return.
SetReadDeadline(c) ==
    /\ crash = "no"
    /\ pc[c] = "deadline"
    /\ \/ /\ ~ (c \in KeepAlive /\ socket[c] = "closed")
          /\ pc' = [pc EXCEPT ![c] = "read"]
          /\ UNCHANGED crash
       \/ /\ c \in KeepAlive /\ socket[c] = "closed"
          /\ crash' = "deadline"
          /\ UNCHANGED pc
    /\ UNCHANGED <<socket, stalled, conn, msg, nread, ctx, workerVars>>

\* Mutant: c.cancelFunc() is not called.
ReadPacketNoCancel(c, p) ==
    /\ crash = "no"
    /\ pc[c] = "read"
    /\ socket[c] # "closed"
    /\ nread[c] < MaxPackets
    /\ msg' = [msg EXCEPT ![c] = p]
    /\ nread' = [nread EXCEPT ![c] = @ + 1]
    /\ pc' = [pc EXCEPT ![c] = "submit"]
    /\ UNCHANGED <<socket, stalled, conn, ctx, workerVars, crash>>

\* ReadPacket returns a packet.  A DISCONNECT cancels the context.
ReadPacket(c, p) ==
    /\ crash = "no"
    /\ pc[c] = "read"
    /\ socket[c] # "closed"
    /\ nread[c] < MaxPackets
    /\ msg' = [msg EXCEPT ![c] = p]
    /\ nread' = [nread EXCEPT ![c] = @ + 1]
    /\ ctx' = [ctx EXCEPT ![c] = IF p = "disconnect" THEN "done" ELSE @]
    /\ pc' = [pc EXCEPT ![c] = "submit"]
    /\ UNCHANGED <<socket, stalled, conn, workerVars, crash>>

\* Mutant: no message is submitted.
ReadErrorSilent(c) ==
    /\ crash = "no"
    /\ pc[c] = "read"
    /\ pc' = [pc EXCEPT ![c] = "exit"]
    /\ UNCHANGED <<socket, stalled, conn, msg, nread, ctx, workerVars, crash>>

\* ReadPacket fails: the connection is gone, the deadline has passed or what has
\* been sent is no packet.
ReadError(c) ==
    /\ crash = "no"
    /\ pc[c] = "read"
    /\ msg' = [msg EXCEPT ![c] = "disconnect"]
    /\ nread' = [nread EXCEPT ![c] = @ + 1]
    /\ pc' = [pc EXCEPT ![c] = "last"]
    /\ UNCHANGED <<socket, stalled, conn, ctx, workerVars, crash>>

\* Mutant: the loop goes on after an error.
HandOverNoReturn(c, w) ==
    /\ crash = "no"
    /\ pc[c] \in {"submit", "last"}
    /\ task[w] = Idle
    /\ out' = [out EXCEPT ![w] = {}]
    /\ task' = [task EXCEPT ![w] =
                   [client |-> c, packet |-> msg[c], seq |-> nread[c]]]
    /\ ndone' = [ndone EXCEPT ![c] = @ + 1]
    /\ pc' = [pc EXCEPT ![c] = "top"]
    /\ UNCHANGED <<socket, stalled, conn, msg, nread, ctx, crash>>

\* SubmitWork and Submit: send the task on the channel of worker w, which
\* takes it as soon as it is back in its select.
HandOver(c, w) ==
    /\ crash = "no"
    /\ pc[c] \in {"submit", "last"}
    /\ task[w] = Idle
    /\ \E targets \in SUBSET Conns :
          /\ msg[c] # "packet" => targets = {}
          /\ out' = [out EXCEPT ![w] = targets]
    /\ task' = [task EXCEPT ![w] =
                   [client |-> c, packet |-> msg[c], seq |-> nread[c]]]
    /\ ndone' = [ndone EXCEPT ![c] = @ + 1]
    /\ pc' = [pc EXCEPT ![c] = IF @ = "last" THEN "exit" ELSE "top"]
    /\ UNCHANGED <<socket, stalled, conn, msg, nread, ctx, crash>>

\* Mutant: any worker takes the message.
SubmitAnywhere(c) == \E w \in Workers : HandOver(c, w)

\* fnv1a(clientId) % maxWorkers.
Submit(c) == HandOver(c, WorkerOf[c])

-----------------------------------------------------------------------------
(***************************************************************************)
(* startWorker and ProcessMessage.                                         *)
(***************************************************************************)
Finish(w) == task' = [task EXCEPT ![w] = Idle]

\* WritePacket: nothing is sent to a disconnected client, a write on a socket
\* that is not open fails, one to a peer that does not read blocks.
WritePacket(w, d) ==
    /\ crash = "no"
    /\ d \in out[w]
    /\ conn[d] = "nil" \/ socket[d] # "open" \/ d \notin stalled
    /\ out' = [out EXCEPT ![w] = @ \ {d}]
    /\ UNCHANGED <<socket, stalled, conn, readerVars, task, ndone, crash>>

\* A worker whose PUBLISH has shared subscribers draws one of them from r, a
\* *rand.Rand without a lock, while another worker may be doing the same, perhaps
\* for a client outside Conns: Intn may then be out of range in r's own table.
HandlerPanics(w) ==
    /\ crash = "no"
    /\ task[w].packet = "packet"
    /\ Workers # {w}
    /\ crash' = "rand"
    /\ UNCHANGED <<socket, stalled, conn, readerVars, workerVars>>

\* The handler of a PUBLISH, SUBSCRIBE, PINGREQ, ... has returned.
ProcessDone(w) ==
    /\ crash = "no"
    /\ task[w].packet = "packet"
    /\ out[w] = {}
    /\ Finish(w)
    /\ UNCHANGED <<socket, stalled, conn, readerVars, out, ndone, crash>>

\* validatePacketFields is false: a PUBLISH or an UNSUBSCRIBE has a topic that is
\* not UTF-8 or contains a null character.  No field of any other packet, not
\* even the filters of a SUBSCRIBE, is looked at.
Malformed(p) == p = "malformed"

\* c.conn.Close(), a panic if c.conn is nil.
ProcessMalformed(w) ==
    LET c == task[w].client
    IN  /\ crash = "no"
        /\ Malformed(task[w].packet)
        /\ IF conn[c] = "nil"
             THEN crash' = "nil" /\ UNCHANGED <<socket, stalled, task>>
             ELSE /\ socket' = [socket EXCEPT ![c] = "closed"]
                  /\ stalled' = stalled \ {c}
                  /\ Finish(w)
                  /\ UNCHANGED crash
        /\ UNCHANGED <<conn, readerVars, out, ndone>>

\* DISCONNECT: Close cancels the context, closes the socket, clears c.conn.
Close(w) ==
    LET c == task[w].client
    IN  /\ crash = "no"
        /\ task[w].packet = "disconnect"
        /\ ctx' = [ctx EXCEPT ![c] = "done"]
        /\ socket' = [socket EXCEPT ![c] = "closed"]
        /\ stalled' = stalled \ {c}
        /\ conn' = [conn EXCEPT ![c] = "nil"]
        /\ Finish(w)
        /\ UNCHANGED <<pc, msg, nread, out, ndone, crash>>

-----------------------------------------------------------------------------
Peer(c) == PeerCloses(c) \/ PeerStalls(c) \/ PeerDrains(c)

WorkerStep(w) ==
    \/ \E d \in Conns : WritePacket(w, d)
    \/ ProcessDone(w)
    \/ ProcessMalformed(w)
    \/ Close(w)

Next ==
    \/ \E c \in Conns :
          \/ Peer(c)
          \/ LoopTop(c) \/ SetReadDeadline(c) \/ ReadError(c) \/ Submit(c)
          \/ \E p \in Packets : ReadPacket(c, p)
    \/ \E w \in Workers : WorkerStep(w) \/ HandlerPanics(w)

Spec == Init /\ [][Next]_vars

\* Goroutines that can run eventually do; a channel serves the senders that
\* wait on it in turn, and a write goes on when the peer reads.  The peers
\* need not send anything, but a connection that is gone makes its read fail.
Fairness ==
    /\ \A c \in Conns :
          /\ WF_vars(LoopTop(c))
          /\ WF_vars(SetReadDeadline(c))
          /\ WF_vars(socket[c] # "open" /\ ReadError(c))
          /\ SF_vars(Submit(c))
    /\ \A w \in Workers : SF_vars(WorkerStep(w))

FairSpec == Spec /\ Fairness

\* Moreover every peer reads what it is sent, in the end.
DrainSpec == FairSpec /\ \A c \in Conns : WF_vars(PeerDrains(c))

-----------------------------------------------------------------------------
(***************************************************************************)
(* Properties.                                                             *)
(***************************************************************************)

\* A worker that closes the connection of a malformed packet finds one: Close
\* has not run before for that client, because its DISCONNECT is the last
\* message a readLoop submits.
NoNilConn == crash # "nil"

\* The messages of a client are processed one by one, in the order they were
\* read, whatever the other clients of its worker do.
ProcessedInOrder ==
    \A w \in Workers : task[w] # Idle =>
        /\ task[w].seq = ndone[task[w].client]
        /\ \A v \in Workers \ {w} : task[v].client # task[w].client

\* The log.Panic of readLoop, which ends the broker, is never that of a client
\* whose socket Close has closed, however far its readLoop has got by then: it
\* takes a socket that a worker closed over a malformed packet, and a keep-alive.
\* (Other panics are possible, see HandlerPanics.)
PanicNeedsMalformed ==
    crash = "deadline" =>
        \E c \in KeepAlive :
            pc[c] = "deadline" /\ socket[c] = "closed" /\ conn[c] # "nil"

\* Once Close has run nothing of that client is left: no reader, no message,
\* no socket.
CloseIsFinal ==
    \A c \in Conns : conn[c] = "nil" =>
        /\ socket[c] = "closed"
        /\ pc[c] \in {"top", "exit"} /\ ctx[c] = "done"
        /\ \A w \in Workers : task[w].client # c

\* A connection that the peer has left is released: its socket is closed and
\* c.conn is cleared.
GoneIsReleased ==
    \A c \in Conns :
        (socket[c] # "open") ~> (conn[c] = "nil" \/ crash # "no")

\* "items are always removed immediately" from the task queue: a reader that
\* submits a message gets rid of it.
SubmitReturns ==
    \A c \in Conns :
        (pc[c] \in {"submit", "last"}) ~> (pc[c] \notin {"submit", "last"} \/ crash # "no")

=============================================================================
