-------------------------- MODULE ClientConnProofs --------------------------
(***************************************************************************)
(* Proofs about ClientConn, for any number of clients, workers and         *)
(* packets, and any assignment of clients to workers.                      *)
(***************************************************************************)
EXTENDS ClientConn, TLAPS

\* What readLoop has submitted is what workers have begun to process, but for
\* the message in its hands; there is room for one message after the last packet.
Counting ==
    \A c \in Conns :
        /\ pc[c] \in {"submit", "last"} => nread[c] = ndone[c] + 1
        /\ pc[c] \notin {"submit", "last"} => nread[c] = ndone[c]
        /\ pc[c] \notin {"last", "exit"} => nread[c] <= MaxPackets

\* A task is the latest message of its client, and with the worker that the
\* client's identifier selects.
TaskIsLatest ==
    \A w \in Workers : task[w] # Idle =>
        /\ WorkerOf[task[w].client] = w
        /\ task[w].seq = ndone[task[w].client]

\* Nothing follows a DISCONNECT: a readLoop that has read one, or could not
\* read, has cancelled the context or is about to return.
DisconnectIsLast ==
    /\ \A c \in Conns :
          /\ pc[c] = "last" => msg[c] = "disconnect"
          /\ pc[c] = "submit" => (msg[c] = "disconnect" <=> ctx[c] = "done")
          /\ pc[c] \in {"deadline", "read", "last"} => ctx[c] = "live"
    /\ \A w \in Workers : task[w].packet = "disconnect" =>
          LET c == task[w].client
          IN  pc[c] = "exit" \/ (pc[c] = "top" /\ ctx[c] = "done")

\* The inductive invariant.
Inv ==
    /\ TypeOK
    /\ Counting
    /\ TaskIsLatest
    /\ DisconnectIsLast
    /\ CloseIsFinal
    /\ NoNilConn
    /\ PanicNeedsMalformed

\* Every case of a proof about Next.
LEMMA NextCases ==
    ASSUME [Next]_vars
    PROVE  \/ \E c \in Conns : \/ PeerCloses(c) \/ PeerStalls(c) \/ PeerDrains(c)
                               \/ LoopTop(c) \/ SetReadDeadline(c)
                               \/ ReadError(c) \/ Submit(c)
           \/ \E c \in Conns, p \in Packets : ReadPacket(c, p)
           \/ \E w \in Workers, d \in Conns : WritePacket(w, d)
           \/ \E w \in Workers : \/ ProcessDone(w) \/ ProcessMalformed(w)
                                 \/ Close(w) \/ HandlerPanics(w)
           \/ UNCHANGED vars
  BY DEF Next, Peer, WorkerStep

\* Inv holds when every client has just entered readLoop.
LEMMA InvInit == Init => Inv
<1> USE ConnAssumption DEF ConnAssumption
<1> SUFFICES ASSUME Init PROVE Inv
  OBVIOUS
<1>1. TypeOK
  BY DEF Init, TypeOK, Packets
<1>2. Counting
  <2>1. \A c \in Conns : nread[c] = 0 /\ ndone[c] = 0 /\ pc[c] = "top"
    BY DEF Init
  <2>2. 0 <= MaxPackets
    OBVIOUS
  <2>3. \A c \in Conns : /\ pc[c] \notin {"submit", "last"}
                         /\ nread[c] = ndone[c] /\ nread[c] <= MaxPackets
    BY <2>1, <2>2
  <2>4. QED
    BY <2>3, Zenon DEF Counting
<1>3. TaskIsLatest /\ DisconnectIsLast
  <2>1. \A w \in Workers : task[w] = Idle /\ task[w].packet # "disconnect"
    BY DEF Init, Idle
  <2>2. QED
    BY <2>1 DEF Init, TaskIsLatest, DisconnectIsLast
<1>4. CloseIsFinal /\ NoNilConn /\ PanicNeedsMalformed
  BY DEF Init, CloseIsFinal, NoNilConn, PanicNeedsMalformed
<1>5. QED
  BY <1>1, <1>2, <1>3, <1>4 DEF Inv

\* Inv is preserved by every step of a peer, a readLoop and a worker.
LEMMA InvNext == Inv /\ [Next]_vars => Inv'
<1> USE ConnAssumption DEF ConnAssumption
<1> SUFFICES ASSUME Inv, [Next]_vars PROVE Inv'
  OBVIOUS
<1> USE DEF Inv, TypeOK, Counting, TaskIsLatest, DisconnectIsLast, CloseIsFinal,
            NoNilConn, PanicNeedsMalformed, readerVars, workerVars
<1>1. ASSUME NEW c \in Conns, PeerCloses(c) \/ PeerStalls(c) \/ PeerDrains(c)
      PROVE  Inv'
  BY <1>1 DEF PeerCloses, PeerStalls, PeerDrains
<1>2. ASSUME NEW c \in Conns, LoopTop(c) PROVE Inv'
  <2>1. TypeOK' /\ Counting' /\ TaskIsLatest'
    BY <1>2 DEF LoopTop
  <2>2. DisconnectIsLast'
    <3>1. UNCHANGED <<msg, ctx, task>>
      BY <1>2 DEF LoopTop
    <3>2. \A d \in Conns : \/ pc'[d] = pc[d]
                           \/ pc[d] = "top" /\ pc'[d] = "exit"
                           \/ pc[d] = "top" /\ pc'[d] = "deadline" /\ ctx[d] = "live"
      BY <1>2 DEF LoopTop
    <3>3. \A v \in Workers : task[v].packet = "disconnect" => task[v].client \in Conns
      BY DEF Task, Idle
    <3>4. QED
      BY <3>1, <3>2, <3>3
  <2>3. CloseIsFinal' /\ NoNilConn' /\ PanicNeedsMalformed'
    BY <1>2 DEF LoopTop
  <2>4. QED
    BY <2>1, <2>2, <2>3
<1>3. ASSUME NEW c \in Conns, NEW p \in Packets, ReadPacket(c, p) PROVE Inv'
  BY <1>3 DEF ReadPacket
<1>4. ASSUME NEW c \in Conns, ReadError(c) PROVE Inv'
  BY <1>4 DEF ReadError, Packets
<1>5. ASSUME NEW c \in Conns, Submit(c) PROVE Inv'
  BY <1>5 DEF Submit, HandOver, Task, Idle, Packets
<1>6. ASSUME NEW w \in Workers, NEW d \in Conns, WritePacket(w, d) PROVE Inv'
  BY <1>6 DEF WritePacket
<1>7. ASSUME NEW w \in Workers, ProcessDone(w) PROVE Inv'
  BY <1>7 DEF ProcessDone, Finish, Idle
<1>8. ASSUME NEW w \in Workers, ProcessMalformed(w) PROVE Inv'
  <2> DEFINE c == task[w].client
  <2>1. task[w] # Idle /\ c \in Conns /\ conn[c] # "nil"
    BY <1>8 DEF ProcessMalformed, Malformed, Task, Idle
  <2>2. /\ socket' = [socket EXCEPT ![c] = "closed"]
        /\ stalled' = stalled \ {c}
        /\ task' = [task EXCEPT ![w] = Idle]
        /\ UNCHANGED <<conn, crash, readerVars, out, ndone>>
    BY <1>8, <2>1 DEF ProcessMalformed, Finish
  <2> HIDE DEF c
  <2>3. TypeOK' /\ Counting'
    BY <2>1, <2>2
  <2>4. TaskIsLatest' /\ DisconnectIsLast'
    BY <2>1, <2>2 DEF Idle
  <2>5. CloseIsFinal' /\ NoNilConn' /\ PanicNeedsMalformed'
    BY <1>8, <2>1, <2>2 DEF ProcessMalformed, Idle
  <2>6. QED
    BY <2>3, <2>4, <2>5
<1>9. ASSUME NEW w \in Workers, Close(w) PROVE Inv'
  BY <1>9 DEF Close, Finish, Task, Idle
<1>10. ASSUME NEW c \in Conns, SetReadDeadline(c) PROVE Inv'
  <2>1. conn[c] # "nil"
    BY <1>10 DEF SetReadDeadline
  <2>2. TypeOK' /\ Counting' /\ TaskIsLatest'
    BY <1>10 DEF SetReadDeadline
  <2>3. DisconnectIsLast'
    <3>1. UNCHANGED <<msg, ctx, task>>
      BY <1>10 DEF SetReadDeadline
    <3>2. \A d \in Conns : pc'[d] = pc[d] \/ (pc[d] = "deadline" /\ pc'[d] = "read")
      BY <1>10 DEF SetReadDeadline
    <3>3. \A v \in Workers : task[v].packet = "disconnect" => task[v].client \in Conns
      BY DEF Task, Idle
    <3>4. QED
      BY <3>1, <3>2, <3>3
  <2>4. CloseIsFinal' /\ NoNilConn' /\ PanicNeedsMalformed'
    BY <1>10, <2>1 DEF SetReadDeadline
  <2>5. QED
    BY <2>2, <2>3, <2>4
<1>11. ASSUME NEW w \in Workers, HandlerPanics(w) PROVE Inv'
  BY <1>11 DEF HandlerPanics
<1>12. CASE UNCHANGED vars
  BY <1>12 DEF vars
<1>13. QED
  BY <1>1, <1>2, <1>3, <1>4, <1>5, <1>6, <1>7, <1>8, <1>9, <1>10, <1>11, <1>12,
     NextCases

-----------------------------------------------------------------------------

\* Inv holds throughout.
LEMMA Invariance == Spec => []Inv
  BY InvInit, InvNext, PTL DEF Spec

\* Type correctness of clients, readers and workers; in particular a readLoop
\* submits at most one message after its last packet.
THEOREM TypeCorrect == Spec => []TypeOK
<1>1. Inv => TypeOK
  BY DEF Inv
<1>2. QED
  BY <1>1, Invariance, PTL

\* Submit gives all messages of a client to one worker, which takes them one at
\* a time: they are processed in the order in which readLoop read them.
THEOREM InOrder == Spec => []ProcessedInOrder
<1>1. Inv => ProcessedInOrder
  <2> SUFFICES ASSUME Inv, NEW w \in Workers, task[w] # Idle
               PROVE  /\ task[w].seq = ndone[task[w].client]
                      /\ \A v \in Workers \ {w} : task[v].client # task[w].client
    BY DEF ProcessedInOrder
  <2>1. task[w].client \in Conns
    BY DEF Inv, TypeOK, Task
  <2>2. \A v \in Workers : task[v].client \in Conns => task[v] # Idle
    BY ConnAssumption DEF ConnAssumption, Idle
  <2>3. QED
    BY <2>1, <2>2 DEF Inv, TaskIsLatest
<1>2. QED
  BY <1>1, Invariance, PTL

\* Once a worker has run Close for a client, neither a readLoop nor a worker
\* touches that client's connection again.
THEOREM NothingAfterClose == Spec => []CloseIsFinal
<1>1. Inv => CloseIsFinal
  BY DEF Inv
<1>2. QED
  BY <1>1, Invariance, PTL

\* ProcessMessage never dereferences a nil c.conn.
THEOREM NoNilDereference == Spec => []NoNilConn
<1>1. Inv => NoNilConn
  BY DEF Inv
<1>2. QED
  BY <1>1, Invariance, PTL

\* The panic of readLoop when SetReadDeadline fails needs a malformed packet:
\* no socket that Close has closed is ever given a deadline.
THEOREM DeadlineAfterMalformed == Spec => []PanicNeedsMalformed
<1>1. Inv => PanicNeedsMalformed
  BY DEF Inv
<1>2. QED
  BY <1>1, Invariance, PTL
=============================================================================
