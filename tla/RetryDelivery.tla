--------------------------- MODULE RetryDelivery ---------------------------
(***************************************************************************)
(* QoS 1 delivery to one subscriber (broker/comm.go, and the PUBACK,       *)
(* PUBREC, PUBCOMP and DISCONNECT cases of ProcessMessage in               *)
(* broker/client.go).  Three kinds of goroutine share the subscriber's     *)
(* inflight map and its retryTimer field:                                  *)
(*                                                                         *)
(*   - workers running publish(sub, packet) for some publisher,            *)
(*   - the subscriber's own worker, which processes its acknowledgements   *)
(*     and, at the end, its DISCONNECT (client.Close),                     *)
(*   - the goroutines of expired timers, running retryDelivery.            *)
(*                                                                         *)
(* inflightMu makes single map accesses atomic.  retryTimer is tested      *)
(* outside retryTimerLock and assigned inside it.  So ensureRetryTimer is  *)
(* three steps here: the test, time.AfterFunc, and the assignment of the   *)
(* timer that is already running by then.                                  *)
(*                                                                         *)
(* Time is relative: an inflight element carries its age (now minus        *)
(* timestamp, in seconds) and pending timers are counted by the seconds    *)
(* they have left.  A running retryDelivery reads the clock once; lag is   *)
(* the time passed since.                                                  *)
(***************************************************************************)
EXTENDS Integers

CONSTANTS
    Msgs,           \* PUBLISH packets with QoS 1 that can be under delivery
    Mids,           \* MQTT packet identifiers
    MidOf,          \* the identifier each packet carries
    Runners,        \* goroutines of expired timers; bounds how many overlap
    NoMsg,          \* an absent map entry
    RetryInterval,  \* retryInterval, in clock ticks
    MaxLag,         \* bound: ticks that may pass within one retryDelivery
    MaxPending      \* bound: timers due at the same tick that are told apart

ASSUME RetryAssumption ==
    /\ MidOf \in [Msgs -> Mids]
    /\ NoMsg \notin Msgs
    /\ RetryInterval \in Nat \ {0}
    /\ MaxLag \in Nat
    /\ MaxPending \in Nat \ {0}

\* Ages saturate here: nothing below distinguishes older elements.
MaxAge == RetryInterval + (IF MaxLag > RetryInterval THEN MaxLag ELSE RetryInterval)

VARIABLES
    conn,        \* client.conn
    inflight,    \* client.inflight: identifier -> element
    elem,        \* the inflightElement of each packet
    retryTimer,  \* client.retryTimer: nil, or a timer was assigned to it
    ppc,         \* where the publish() of each packet is
    wpc,         \* where the subscriber's worker is
    wElem,       \* the element a PUBREC looked up
    pending,     \* pending timers: ticks left -> number of timers
    unstored,    \* ticks left of the timer started and not yet assigned
    rpc,         \* where each retryDelivery is
    todo,        \* toRetryElem: elements a retryDelivery has still to visit
    cur,         \* the element sent again and not yet stamped
    lag,         \* ticks since a retryDelivery read the clock
    interval     \* the argument of its call of ensureRetryTimer

vars == <<conn, inflight, elem, retryTimer,
          ppc, wpc, wElem, pending, unstored, rpc, todo, cur, lag, interval>>

subscriberVars == <<conn, wpc, wElem>>
runnerVars == <<rpc, todo, cur, lag, interval>>
timerVars == <<retryTimer, pending, unstored>>

RunnerStates == {"free", "fired", "reset", "scan", "loop", "stamp", "loopset",
                 "loopstore", "endcheck", "endset", "endstore"}

InflightElement == [status : {"Publish", "Pubrel"}, age : 0..MaxAge]

\* The values the fields of the client and the locals of its goroutines take:
\* ages within MaxAge, timers within one retry interval.
TypeOK ==
    /\ conn \in {"open", "nil"}
    /\ inflight \in [Mids -> Msgs \cup {NoMsg}]
    /\ elem \in [Msgs -> InflightElement]
    /\ retryTimer \in {"nil", "timer"}
    /\ ppc \in [Msgs -> {"idle", "write", "check", "set", "store"}]
    /\ wpc \in {"idle", "pubrec", "gone"}
    /\ wElem \in Msgs \cup {NoMsg}
    /\ pending \in [0..RetryInterval -> 0..MaxPending]
    /\ unstored \in 0..RetryInterval
    /\ rpc \in [Runners -> RunnerStates]
    /\ todo \in [Runners -> SUBSET Msgs]
    /\ cur \in [Runners -> Msgs \cup {NoMsg}]
    /\ lag \in [Runners -> 0..MaxLag]
    /\ interval \in [Runners -> 0..RetryInterval]

NewElement == [status |-> "Publish", age |-> 0]

\* client.init: an empty inflight map and no timer.
Init ==
    /\ conn = "open"
    /\ inflight = [i \in Mids |-> NoMsg]
    /\ elem = [m \in Msgs |-> NewElement]
    /\ retryTimer = "nil"
    /\ ppc = [m \in Msgs |-> "idle"]
    /\ wpc = "idle"
    /\ wElem = NoMsg
    /\ pending = [d \in 0..RetryInterval |-> 0]
    /\ unstored = 0
    /\ rpc = [t \in Runners |-> "free"]
    /\ todo = [t \in Runners |-> {}]
    /\ cur = [t \in Runners |-> NoMsg]
    /\ lag = [t \in Runners |-> 0]
    /\ interval = [t \in Runners |-> 0]

Inflight(m) == inflight[MidOf[m]] = m

\* No goroutine and no map entry refers to m's element: m may stand for a
\* new packet.
Unused(m) ==
    /\ ppc[m] = "idle"
    /\ ~ Inflight(m)
    /\ wElem # m
    /\ \A t \in Runners : m \notin todo[t] /\ cur[t] # m

-----------------------------------------------------------------------------
(***************************************************************************)
(* c.retryTimer = time.AfterFunc(...), under retryTimerLock: the timer     *)
(* runs from StartTimer on, the field has it from StoreTimer on.           *)
(***************************************************************************)

\* A goroutine is between the two and holds retryTimerLock.
Storing ==
    \/ \E m \in Msgs : ppc[m] = "store"
    \/ \E t \in Runners : rpc[t] \in {"loopstore", "endstore"}

StartTimer(d) ==
    /\ ~ Storing
    /\ pending' = [pending EXCEPT ![d] = IF @ = MaxPending THEN @ ELSE @ + 1]
    /\ unstored' = d
    /\ UNCHANGED retryTimer

StoreTimer ==
    /\ retryTimer' = "timer"
    /\ unstored' = 0
    /\ UNCHANGED pending

-----------------------------------------------------------------------------
(***************************************************************************)
(* publish(sub, packet), case QosAtLeastOnce, run by any worker.           *)
(***************************************************************************)

\* inflight[packet.MessageID] = &inflightElement{...}, under inflightMu.
PublishInflight(m) ==
    /\ Unused(m)
    /\ inflight' = [inflight EXCEPT ![MidOf[m]] = m]
    /\ elem' = [elem EXCEPT ![m] = NewElement]
    /\ ppc' = [ppc EXCEPT ![m] = "write"]
    /\ UNCHANGED <<subscriberVars, timerVars, runnerVars>>

\* sub.client.WritePacket(packet): a disconnected client swallows the packet,
\* and an error is only logged, so nothing that matters here changes.
PublishWrite(m) ==
    /\ ppc[m] = "write"
    /\ ppc' = [ppc EXCEPT ![m] = "check"]
    /\ UNCHANGED <<subscriberVars, timerVars, runnerVars, inflight, elem>>

\* ensureRetryTimer: the unlocked test of c.retryTimer.
PublishCheckTimer(m) ==
    /\ ppc[m] = "check"
    /\ ppc' = [ppc EXCEPT ![m] = IF retryTimer = "nil" THEN "set" ELSE "idle"]
    /\ UNCHANGED <<subscriberVars, timerVars, runnerVars, inflight, elem>>

\* ensureRetryTimer: start the timer, ...
PublishSetTimer(m) ==
    /\ ppc[m] = "set"
    /\ StartTimer(RetryInterval)
    /\ ppc' = [ppc EXCEPT ![m] = "store"]
    /\ UNCHANGED <<subscriberVars, runnerVars, inflight, elem>>

\* ... and assign it.
PublishStoreTimer(m) ==
    /\ ppc[m] = "store"
    /\ StoreTimer
    /\ ppc' = [ppc EXCEPT ![m] = "idle"]
    /\ UNCHANGED <<subscriberVars, runnerVars, inflight, elem>>

-----------------------------------------------------------------------------
(***************************************************************************)
(* The subscriber's worker: ProcessMessage of what the subscriber sends.   *)
(* Any acknowledgement may arrive at any time.                             *)
(***************************************************************************)

\* PUBACK, or PUBCOMP: delete(c.inflight, packet.MessageID).
ProcessPuback(i) ==
    /\ wpc = "idle"
    /\ inflight' = [inflight EXCEPT ![i] = NoMsg]
    /\ UNCHANGED <<subscriberVars, timerVars, runnerVars, elem, ppc>>

\* PUBREC: the lookup under inflightMu.RLock.  When nothing is found only a
\* PUBREL is sent.
ProcessPubrecLookup(i) ==
    /\ wpc = "idle"
    /\ inflight[i] # NoMsg
    /\ wElem' = inflight[i]
    /\ wpc' = "pubrec"
    /\ UNCHANGED <<conn, timerVars, runnerVars, inflight, elem, ppc>>

\* PUBREC: ielem.status and ielem.timestamp are updated after the unlock;
\* a second PUBREC changes nothing.  A PUBREL is sent either way.
ProcessPubrecUpdate ==
    /\ wpc = "pubrec"
    /\ elem' = IF elem[wElem].status = "Publish"
                 THEN [elem EXCEPT ![wElem] = [status |-> "Pubrel", age |-> 0]]
                 ELSE elem
    /\ wElem' = NoMsg
    /\ wpc' = "idle"
    /\ UNCHANGED <<conn, timerVars, runnerVars, inflight, ppc>>

\* DISCONNECT: Close closes the connection and clears c.conn.  No further
\* packet of this client is processed; inflight and timers stay.
Close ==
    /\ wpc = "idle"
    /\ conn' = "nil"
    /\ wpc' = "gone"
    /\ UNCHANGED <<wElem, timerVars, runnerVars, inflight, elem, ppc>>

-----------------------------------------------------------------------------
(***************************************************************************)
(* A timer expires and its goroutine runs retryDelivery.                   *)
(***************************************************************************)

Goto(t, pc) == rpc' = [rpc EXCEPT ![t] = pc]

Fire(t) ==
    /\ rpc[t] = "free"
    /\ pending[0] > 0
    /\ pending' = [pending EXCEPT ![0] = @ - 1]
    /\ Goto(t, "fired")
    /\ UNCHANGED <<subscriberVars, retryTimer, unstored, todo, cur, lag,
                   interval, inflight, elem, ppc>>

\* resetRetryTimer: the unlocked test.
ResetCheck(t) ==
    /\ rpc[t] = "fired"
    /\ Goto(t, IF retryTimer = "nil" THEN "scan" ELSE "reset")
    /\ UNCHANGED <<subscriberVars, timerVars, todo, cur, lag, interval,
                   inflight, elem, ppc>>

\* Mutant: the field is not cleared.
ResetTimerKept(t) ==
    /\ rpc[t] = "reset"
    /\ Goto(t, "scan")
    /\ UNCHANGED <<subscriberVars, timerVars, todo, cur, lag, interval,
                   inflight, elem, ppc>>

\* resetRetryTimer: c.retryTimer = nil, under retryTimerLock.
ResetTimer(t) ==
    /\ rpc[t] = "reset"
    /\ ~ Storing
    /\ retryTimer' = "nil"
    /\ Goto(t, "scan")
    /\ UNCHANGED <<subscriberVars, pending, unstored, todo, cur, lag, interval,
                   inflight, elem, ppc>>

\* Under inflightMu.RLock: return when offline or nothing is in flight, else
\* copy the elements out of the map; then now := time.Now().Unix().
Scan(t) ==
    LET elems == {m \in Msgs : Inflight(m)}
        idle  == conn = "nil" \/ elems = {}
    IN  /\ rpc[t] = "scan"
        /\ Goto(t, IF idle THEN "free" ELSE "loop")
        /\ todo' = [todo EXCEPT ![t] = IF idle THEN {} ELSE elems]
        /\ UNCHANGED <<subscriberVars, timerVars, cur, lag, interval,
                       inflight, elem, ppc>>

\* age := now - infElem.timestamp, as the goroutine computes it.
AgeSeenBy(t, m) == elem[m].age - lag[t]

\* age >= retryInterval: WritePacket of the PUBLISH, or of a PUBREL, again.
RetrySend(t, m) ==
    /\ rpc[t] = "loop"
    /\ m \in todo[t]
    /\ AgeSeenBy(t, m) >= RetryInterval
    /\ todo' = [todo EXCEPT ![t] = @ \ {m}]
    /\ cur' = [cur EXCEPT ![t] = m]
    /\ Goto(t, "stamp")
    /\ UNCHANGED <<subscriberVars, timerVars, lag, interval, inflight, elem, ppc>>

\* Mutant: infElem.timestamp is not set.
RetryStampMissing(t) ==
    /\ rpc[t] = "stamp"
    /\ cur' = [cur EXCEPT ![t] = NoMsg]
    /\ Goto(t, "loop")
    /\ UNCHANGED <<subscriberVars, timerVars, todo, lag, interval, inflight,
                   elem, ppc>>

\* infElem.timestamp = now, over whatever a PUBREC wrote meanwhile.
RetryStamp(t) ==
    /\ rpc[t] = "stamp"
    /\ elem' = [elem EXCEPT ![cur[t]].age = lag[t]]
    /\ cur' = [cur EXCEPT ![t] = NoMsg]
    /\ Goto(t, "loop")
    /\ UNCHANGED <<subscriberVars, timerVars, todo, lag, interval, inflight, ppc>>

\* Mutant: a negative age is not raised to 0.
RetryLaterUncut(t, m) ==
    /\ rpc[t] = "loop"
    /\ m \in todo[t]
    /\ AgeSeenBy(t, m) < RetryInterval
    /\ todo' = [todo EXCEPT ![t] = @ \ {m}]
    /\ \/ retryTimer # "nil" /\ UNCHANGED <<rpc, interval>>
       \/ /\ retryTimer = "nil"
          /\ Goto(t, "loopset")
          /\ interval' = [interval EXCEPT ![t] = RetryInterval - AgeSeenBy(t, m)]
    /\ UNCHANGED <<subscriberVars, timerVars, cur, lag, inflight, elem, ppc>>

\* age < retryInterval: ensureRetryTimer(retryInterval - age), its test.
RetryLater(t, m) ==
    LET age == AgeSeenBy(t, m)
    IN  /\ rpc[t] = "loop"
        /\ m \in todo[t]
        /\ age < RetryInterval
        /\ todo' = [todo EXCEPT ![t] = @ \ {m}]
        /\ \/ retryTimer # "nil" /\ UNCHANGED <<rpc, interval>>
           \/ /\ retryTimer = "nil"
              /\ Goto(t, "loopset")
              /\ interval' = [interval EXCEPT ![t] =
                                 IF age < 0 THEN RetryInterval
                                            ELSE RetryInterval - age]
        /\ UNCHANGED <<subscriberVars, timerVars, cur, lag,
                       inflight, elem, ppc>>

\* ensureRetryTimer(retryInterval - age): start the timer.
RetryLaterSet(t) ==
    /\ rpc[t] = "loopset"
    /\ StartTimer(interval[t])
    /\ Goto(t, "loopstore")
    /\ interval' = [interval EXCEPT ![t] = 0]
    /\ UNCHANGED <<subscriberVars, todo, cur, lag, inflight, elem, ppc>>

RetryLaterStore(t) ==
    /\ rpc[t] = "loopstore"
    /\ StoreTimer
    /\ Goto(t, "loop")
    /\ UNCHANGED <<subscriberVars, todo, cur, lag, interval, inflight, elem, ppc>>

\* The loop is over; the trailing ensureRetryTimer() is next.
LoopDone(t) ==
    /\ rpc[t] = "loop"
    /\ todo[t] = {}
    /\ Goto(t, "endcheck")
    /\ lag' = [lag EXCEPT ![t] = 0]
    /\ UNCHANGED <<subscriberVars, timerVars, todo, cur, interval,
                   inflight, elem, ppc>>

\* Mutant: the trailing ensureRetryTimer() is missing.
EndCheckMissing(t) ==
    /\ rpc[t] = "endcheck"
    /\ Goto(t, "free")
    /\ UNCHANGED <<subscriberVars, timerVars, todo, cur, lag, interval,
                   inflight, elem, ppc>>

\* ensureRetryTimer(): its test.
EndCheck(t) ==
    /\ rpc[t] = "endcheck"
    /\ Goto(t, IF retryTimer = "nil" THEN "endset" ELSE "free")
    /\ UNCHANGED <<subscriberVars, timerVars, todo, cur, lag, interval,
                   inflight, elem, ppc>>

\* ensureRetryTimer(): start the timer.
EndSet(t) ==
    /\ rpc[t] = "endset"
    /\ StartTimer(RetryInterval)
    /\ Goto(t, "endstore")
    /\ UNCHANGED <<subscriberVars, todo, cur, lag, interval,
                   inflight, elem, ppc>>

EndStore(t) ==
    /\ rpc[t] = "endstore"
    /\ StoreTimer
    /\ Goto(t, "free")
    /\ UNCHANGED <<subscriberVars, todo, cur, lag, interval,
                   inflight, elem, ppc>>

-----------------------------------------------------------------------------
(***************************************************************************)
(* The clock.  The element of an unused packet is garbage.                 *)
(***************************************************************************)
InPass(t) == rpc[t] \in {"loop", "stamp", "loopset", "loopstore"}

Older(e) == [e EXCEPT !.age = IF @ = MaxAge THEN @ ELSE @ + 1]

\* Timers one tick closer; the overdue ones stay due.
Closer ==
    LET due == pending[0] + pending[1]
    IN  [d \in 0..RetryInterval |->
            IF d = 0 THEN (IF due > MaxPending THEN MaxPending ELSE due)
            ELSE IF d = RetryInterval THEN 0
            ELSE pending[d + 1]]

Advance ==
    /\ elem' = [m \in Msgs |-> IF Unused(m) THEN NewElement ELSE Older(elem[m])]
    /\ pending' = Closer
    /\ unstored' = IF unstored = 0 THEN 0 ELSE unstored - 1
    /\ lag' = [t \in Runners |-> IF InPass(t) THEN lag[t] + 1 ELSE lag[t]]
    /\ UNCHANGED <<subscriberVars, retryTimer, rpc, todo, cur, interval,
                   inflight, ppc>>

\* Time passes whatever the goroutines are doing.
Tick ==
    /\ \A t \in Runners : InPass(t) => lag[t] < MaxLag
    /\ Advance

\* Time passes whatever the goroutines are doing, but no timer expires before
\* the statement that started it has assigned it.  The code does not ensure
\* this; it has at least a second for that assignment.
PromptTick ==
    /\ Storing => unstored > 1
    /\ Tick

\* Time passes only when every goroutine has done what it can: steps take
\* much less than a second.
TimelyTick ==
    /\ pending[0] = 0
    /\ \A t \in Runners : rpc[t] = "free"
    /\ \A m \in Msgs : ppc[m] = "idle"
    /\ wpc \in {"idle", "gone"}
    /\ Advance

\* What a publisher and a timer goroutine do by themselves; the two calls of
\* WritePacket need a peer that reads.
PublisherStep(m) ==
    PublishCheckTimer(m) \/ PublishSetTimer(m) \/ PublishStoreTimer(m)

RunnerStep(t) ==
    \/ Fire(t) \/ ResetCheck(t) \/ ResetTimer(t) \/ Scan(t) \/ RetryStamp(t)
    \/ \E m \in Msgs : RetryLater(t, m)
    \/ RetryLaterSet(t) \/ RetryLaterStore(t) \/ LoopDone(t)
    \/ EndCheck(t) \/ EndSet(t) \/ EndStore(t)

Steps ==
    \/ \E m \in Msgs : PublishInflight(m) \/ PublishWrite(m) \/ PublisherStep(m)
    \/ \E i \in Mids : ProcessPuback(i) \/ ProcessPubrecLookup(i)
    \/ ProcessPubrecUpdate \/ Close
    \/ \E t \in Runners : RunnerStep(t) \/ \E m \in Msgs : RetrySend(t, m)

Next == Steps \/ Tick

Spec == Init /\ [][Next]_vars

PromptSpec == Init /\ [][Steps \/ PromptTick]_vars

TimelySpec == Init /\ [][Steps \/ TimelyTick]_vars

\* Goroutines that can run eventually do, timers fire and time passes.
\* Publishers need not publish and the subscriber need not answer.
Fairness ==
    /\ \A m \in Msgs : WF_vars(PublisherStep(m))
    /\ WF_vars(ProcessPubrecUpdate)
    /\ \A t \in Runners : WF_vars(RunnerStep(t))
    /\ WF_vars(PromptTick)

\* An assumption about the subscriber, not about the code: it keeps reading,
\* so a WritePacket to it returns.  WritePacket sets no write deadline.
WritesReturn ==
    /\ \A m \in Msgs : WF_vars(PublishWrite(m))
    /\ \A t \in Runners : WF_vars(\E m \in Msgs : RetrySend(t, m))

FairSpec == PromptSpec /\ Fairness /\ WritesReturn

-----------------------------------------------------------------------------
(***************************************************************************)
(* Properties.                                                             *)
(***************************************************************************)

\* A non-nil retryTimer is never a dead one: some timer is pending, or has
\* fired and its goroutine has still to clear the field.  This is what makes
\* the early return of ensureRetryTimer safe.  Of PromptSpec: with Spec a
\* timer can fire and be done before ensureRetryTimer assigns it.
ArmedTimerExists ==
    retryTimer # "nil" =>
        \/ \E d \in 0..RetryInterval : pending[d] > 0
        \/ \E t \in Runners : rpc[t] \in {"fired", "reset"}

\* No lost wake-up: while the client is online and a packet is in flight, a
\* timer is pending, a retryDelivery is running, or a publish() has still to
\* return from ensureRetryTimer.  Of PromptSpec, as ArmedTimerExists.
RetryArmed ==
    (conn # "nil" /\ \E m \in Msgs : Inflight(m)) =>
        \/ \E d \in 0..RetryInterval : pending[d] > 0
        \/ \E t \in Runners : rpc[t] # "free"
        \/ \E m \in Msgs : ppc[m] # "idle"

\* With prompt goroutines a packet in flight is never left without
\* retransmission for two retry intervals.
RetransmitGapBound ==
    conn # "nil" => \A m \in Msgs : Inflight(m) => elem[m].age < 2 * RetryInterval

\* A packet that is in flight and overdue is retransmitted, acknowledged, or
\* its client goes offline: of FairSpec, whose assumptions are that a timer is
\* assigned before it expires and that the subscriber reads what is written.
OverdueIsRetried ==
    \A m \in Msgs :
        Inflight(m) /\ elem[m].age >= RetryInterval /\ conn # "nil"
            ~> (elem[m].age < RetryInterval \/ ~ Inflight(m) \/ conn = "nil")

=============================================================================
