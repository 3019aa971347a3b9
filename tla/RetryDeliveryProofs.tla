------------------------ MODULE RetryDeliveryProofs ------------------------
(***************************************************************************)
(* Proofs about RetryDelivery, for every number of packets, of overlapping *)
(* retryDelivery goroutines, every retry interval and every bound.         *)
(***************************************************************************)
EXTENDS RetryDelivery, TLAPS

\* The steps of one publisher, of the subscriber's worker and of one timer
\* goroutine: every case of a proof about Next but the clock.
LEMMA StepCases ==
    ASSUME Steps
    PROVE  \/ \E m \in Msgs : \/ PublishInflight(m) \/ PublishWrite(m)
                              \/ PublishCheckTimer(m) \/ PublishSetTimer(m)
                              \/ PublishStoreTimer(m)
           \/ \E i \in Mids : ProcessPuback(i) \/ ProcessPubrecLookup(i)
           \/ ProcessPubrecUpdate \/ Close
           \/ \E t \in Runners :
                 \/ Fire(t) \/ ResetCheck(t) \/ ResetTimer(t) \/ Scan(t)
                 \/ RetryStamp(t) \/ RetryLaterSet(t) \/ RetryLaterStore(t)
                 \/ LoopDone(t) \/ EndCheck(t) \/ EndSet(t) \/ EndStore(t)
           \/ \E t \in Runners, m \in Msgs : RetrySend(t, m) \/ RetryLater(t, m)
  BY DEF Steps, PublisherStep, RunnerStep

\* Changing the age of an element, as retryDelivery and the clock do, leaves
\* an element.
LEMMA ResetAge ==
    ASSUME NEW e \in InflightElement, NEW a \in 0..MaxAge
    PROVE  [e EXCEPT !.age = a] \in InflightElement
  BY DEF InflightElement

\* Type correctness of the publish() steps, the subscriber's worker, the
\* retryDelivery goroutines and the clock: ages stay within MaxAge, timers
\* within one retry interval.
THEOREM TypeCorrect == Spec => []TypeOK
<1> USE RetryAssumption DEF RetryAssumption
<1>1. Init => TypeOK
  BY DEF Init, TypeOK, InflightElement, NewElement, RunnerStates, MaxAge
<1>2. TypeOK /\ [Next]_vars => TypeOK'
  <2> SUFFICES ASSUME TypeOK, [Next]_vars PROVE TypeOK'
    OBVIOUS
  <2> USE DEF TypeOK, RunnerStates, subscriberVars, runnerVars, timerVars
  <2>1. ASSUME NEW m \in Msgs, PublishInflight(m) PROVE TypeOK'
    BY <2>1 DEF PublishInflight, NewElement, InflightElement, MaxAge
  <2>2. ASSUME NEW m \in Msgs, PublishWrite(m) \/ PublishCheckTimer(m)
        PROVE  TypeOK'
    BY <2>2 DEF PublishWrite, PublishCheckTimer
  \* The timer that is started, and the one that is assigned.
  <2>0. ASSUME NEW d \in 0..RetryInterval, StartTimer(d) \/ StoreTimer
        PROVE  /\ pending' \in [0..RetryInterval -> 0..MaxPending]
               /\ retryTimer' \in {"nil", "timer"}
               /\ unstored' \in 0..RetryInterval
    <3>1. CASE StartTimer(d)
      <4>1. pending' \in [0..RetryInterval -> 0..MaxPending]
        BY <3>1 DEF StartTimer
      <4>2. retryTimer' = retryTimer /\ unstored' = d
        BY <3>1 DEF StartTimer
      <4>3. QED
        BY <4>1, <4>2
    <3>2. CASE StoreTimer
      BY <3>2 DEF StoreTimer
    <3>3. QED
      BY <2>0, <3>1, <3>2
  <2>3. ASSUME NEW m \in Msgs, PublishSetTimer(m) \/ PublishStoreTimer(m)
        PROVE  TypeOK'
    <3>1. ppc' \in [Msgs -> {"idle", "write", "check", "set", "store"}]
      BY <2>3 DEF PublishSetTimer, PublishStoreTimer
    <3>2. StartTimer(RetryInterval) \/ StoreTimer
      BY <2>3 DEF PublishSetTimer, PublishStoreTimer
    <3>3. RetryInterval \in 0..RetryInterval
      OBVIOUS
    <3>4. QED
      BY <2>0, <2>3, <3>1, <3>2, <3>3 DEF PublishSetTimer, PublishStoreTimer
  <2>4. ASSUME NEW i \in Mids, ProcessPuback(i) \/ ProcessPubrecLookup(i)
        PROVE  TypeOK'
    BY <2>4 DEF ProcessPuback, ProcessPubrecLookup
  <2>5. CASE ProcessPubrecUpdate
    <3>1. [status |-> "Pubrel", age |-> 0] \in InflightElement
      BY DEF InflightElement, MaxAge
    <3>2. elem' \in [Msgs -> InflightElement]
      BY <2>5, <3>1 DEF ProcessPubrecUpdate
    <3>3. QED
      BY <2>5, <3>2 DEF ProcessPubrecUpdate
  <2>6. CASE Close
    BY <2>6 DEF Close
  <2>7. ASSUME NEW t \in Runners, Fire(t) PROVE TypeOK'
    <3>1. pending' \in [0..RetryInterval -> 0..MaxPending]
      BY <2>7 DEF Fire
    <3>2. rpc' \in [Runners -> RunnerStates]
      BY <2>7 DEF Fire, Goto
    <3>3. QED
      BY <2>7, <3>1, <3>2 DEF Fire
  <2>8. ASSUME NEW t \in Runners,
               ResetCheck(t) \/ ResetTimer(t) \/ LoopDone(t) \/ EndCheck(t)
        PROVE  TypeOK'
    <3>1. CASE ResetCheck(t)
      BY <3>1 DEF ResetCheck, Goto
    <3>2. CASE ResetTimer(t)
      BY <3>2 DEF ResetTimer, Goto
    <3>3. CASE LoopDone(t)
      BY <3>3 DEF LoopDone, Goto
    <3>4. CASE EndCheck(t)
      BY <3>4 DEF EndCheck, Goto
    <3>5. QED
      BY <2>8, <3>1, <3>2, <3>3, <3>4
  <2>9. ASSUME NEW t \in Runners, Scan(t) PROVE TypeOK'
    <3>1. rpc' \in [Runners -> RunnerStates]
      BY <2>9 DEF Scan, Goto
    <3>2. todo' \in [Runners -> SUBSET Msgs]
      BY <2>9 DEF Scan
    <3>3. QED
      BY <2>9, <3>1, <3>2 DEF Scan
  <2>10. ASSUME NEW t \in Runners, \/ RetryLaterSet(t) \/ RetryLaterStore(t)
                                  \/ EndSet(t) \/ EndStore(t)
         PROVE  TypeOK'
    <3>1. \E d \in 0..RetryInterval : StartTimer(d) \/ StoreTimer
      BY <2>10 DEF RetryLaterSet, RetryLaterStore, EndSet, EndStore
    <3>2. rpc' \in [Runners -> RunnerStates]
      BY <2>10 DEF RetryLaterSet, RetryLaterStore, EndSet, EndStore, Goto
    <3>3. interval' \in [Runners -> 0..RetryInterval]
      BY <2>10 DEF RetryLaterSet, RetryLaterStore, EndSet, EndStore
    <3>4. QED
      BY <2>0, <2>10, <3>1, <3>2, <3>3
        DEF RetryLaterSet, RetryLaterStore, EndSet, EndStore
  <2>11. ASSUME NEW t \in Runners, NEW m \in Msgs, RetrySend(t, m)
         PROVE  TypeOK'
    <3>1. /\ todo' \in [Runners -> SUBSET Msgs]
          /\ cur' \in [Runners -> Msgs \cup {NoMsg}]
      BY <2>11 DEF RetrySend
    <3>2. rpc' \in [Runners -> RunnerStates]
      BY <2>11 DEF RetrySend, Goto
    <3>3. QED
      BY <2>11, <3>1, <3>2 DEF RetrySend
  <2>16. ASSUME NEW t \in Runners, RetryStamp(t)
         PROVE  TypeOK'
    <3>1. lag[t] \in 0..MaxAge
      BY DEF MaxAge
    <3>2. ASSUME NEW m \in Msgs
          PROVE  [elem[m] EXCEPT !.age = lag[t]] \in InflightElement
      <4>1. elem[m] \in InflightElement
        OBVIOUS
      <4>2. QED
        BY <3>1, <4>1, ResetAge
    <3>3. elem' \in [Msgs -> InflightElement]
      BY <2>16, <3>2 DEF RetryStamp
    <3>4. cur' \in [Runners -> Msgs \cup {NoMsg}]
      BY <2>16 DEF RetryStamp
    <3>5. rpc' \in [Runners -> RunnerStates]
      BY <2>16 DEF RetryStamp, Goto
    <3>6. QED
      BY <2>16, <3>3, <3>4, <3>5 DEF RetryStamp
  <2>12. ASSUME NEW t \in Runners, NEW m \in Msgs, RetryLater(t, m)
         PROVE  TypeOK'
    <3> DEFINE age == AgeSeenBy(t, m)
    <3>1. age \in Int
      BY DEF AgeSeenBy, InflightElement, MaxAge
    <3>2. age < RetryInterval
      BY <2>12 DEF RetryLater
    <3>3. (IF age < 0 THEN RetryInterval ELSE RetryInterval - age)
             \in 0..RetryInterval
      BY <3>1, <3>2
    <3>4. interval' \in [Runners -> 0..RetryInterval]
      BY <2>12, <3>3 DEF RetryLater
    <3>5. todo' \in [Runners -> SUBSET Msgs]
      BY <2>12 DEF RetryLater
    <3>6. rpc' \in [Runners -> RunnerStates]
      BY <2>12 DEF RetryLater, Goto
    <3>7. QED
      BY <2>12, <3>4, <3>5, <3>6 DEF RetryLater
  <2>13. CASE Tick
    <3>1. elem' \in [Msgs -> InflightElement]
      <4>1. NewElement \in InflightElement
        BY DEF NewElement, InflightElement, MaxAge
      <4>2. ASSUME NEW m \in Msgs PROVE Older(elem[m]) \in InflightElement
        <5>1. MaxAge \in Nat /\ elem[m] \in InflightElement
          BY DEF MaxAge
        <5> DEFINE a == IF elem[m].age = MaxAge THEN elem[m].age
                                                ELSE elem[m].age + 1
        <5>2. a \in 0..MaxAge
          BY <5>1 DEF InflightElement
        <5>3. Older(elem[m]) = [elem[m] EXCEPT !.age = a]
          BY DEF Older
        <5> HIDE DEF a
        <5>4. QED
          BY <5>1, <5>2, <5>3, ResetAge
      <4>3. QED
        BY <2>13, <4>1, <4>2 DEF Tick, Advance
    <3>2. pending' \in [0..RetryInterval -> 0..MaxPending]
      BY <2>13 DEF Tick, Advance, Closer
    <3>5. unstored' \in 0..RetryInterval
      BY <2>13 DEF Tick, Advance
    <3>3. lag' \in [Runners -> 0..MaxLag]
      BY <2>13 DEF Advance, Tick, InPass
    <3>4. QED
      BY <2>13, <3>1, <3>2, <3>3, <3>5 DEF Tick, Advance
  <2>14. CASE UNCHANGED vars
    BY <2>14 DEF vars
  <2>15. QED
    BY <2>1, <2>2, <2>3, <2>4, <2>5, <2>6, <2>7, <2>8, <2>9, <2>10, <2>11,
       <2>12, <2>13, <2>14, <2>16, StepCases DEF Next
<1>3. QED
  BY <1>1, <1>2, PTL DEF Spec

-----------------------------------------------------------------------------

\* The clock moves timers, it never drops the last one.
LEMMA TickKeepsTimers ==
    ASSUME TypeOK, Advance, \E d \in 0..RetryInterval : pending[d] > 0
    PROVE  \E d \in 0..RetryInterval : pending'[d] > 0
<1> USE RetryAssumption DEF RetryAssumption
<1>1. PICK d \in 0..RetryInterval : pending[d] > 0
  OBVIOUS
<1>2. pending' = Closer /\ pending \in [0..RetryInterval -> 0..MaxPending]
  BY DEF Advance, TypeOK
<1>3. CASE d \in {0, 1}
  <2>1. 0 \in 0..RetryInterval /\ 1 \in 0..RetryInterval
    OBVIOUS
  <2>2. pending[0] \in Nat /\ pending[1] \in Nat /\ pending[0] + pending[1] > 0
    BY <1>1, <1>2, <1>3, <2>1
  <2>3. pending'[0] = IF pending[0] + pending[1] > MaxPending THEN MaxPending
                      ELSE pending[0] + pending[1]
    BY <1>2, <2>1 DEF Closer
  <2>4. QED
    BY <2>1, <2>2, <2>3
<1>4. CASE d \notin {0, 1}
  <2>1. d - 1 \in 0..RetryInterval /\ d - 1 # RetryInterval /\ d - 1 # 0
    BY <1>4
  <2>2. pending'[d - 1] = pending[d]
    BY <1>2, <2>1 DEF Closer
  <2>3. QED
    BY <1>1, <2>1, <2>2
<1>5. QED
  BY <1>3, <1>4

\* Prompt assignments are a special case: what Spec never does, PromptSpec
\* never does.
LEMMA PromptIsSpec == PromptSpec => Spec
<1>1. [Steps \/ PromptTick]_vars => [Next]_vars
  BY DEF Next, PromptTick
<1>2. QED
  BY <1>1, PTL DEF PromptSpec, Spec

InStore(t) == rpc[t] \in {"loopstore", "endstore"}

\* retryTimerLock: at most one goroutine is assigning a timer.
OneStores ==
    /\ \A m, n \in Msgs : ppc[m] = "store" /\ ppc[n] = "store" => m = n
    /\ \A t, u \in Runners : InStore(t) /\ InStore(u) => t = u
    /\ \A m \in Msgs, t \in Runners : ~ (ppc[m] = "store" /\ InStore(t))

\* The timer between time.AfterFunc and its assignment is still pending, and
\* no timer is started with nothing left to wait for.
UnstoredIsPending ==
    /\ Storing => unstored > 0 /\ pending[unstored] > 0
    /\ \A t \in Runners : rpc[t] = "loopset" => interval[t] > 0

\* When timers are assigned before they expire, a non-nil retryTimer always
\* stands for a timer that is pending, or whose goroutine has not yet executed
\* resetRetryTimer.  To be inductive this needs that the timer about to be
\* assigned is pending, which the lock keeps true of the one it protects.
THEOREM ArmedTimer == PromptSpec => []ArmedTimerExists
<1> USE RetryAssumption DEF RetryAssumption
<1> DEFINE IInv == ArmedTimerExists /\ UnstoredIsPending /\ OneStores
<1>1. Init => IInv
  BY DEF Init, ArmedTimerExists, UnstoredIsPending, OneStores, InStore, Storing
<1>2. TypeOK /\ IInv /\ [Steps \/ PromptTick]_vars => IInv'
  <2> SUFFICES ASSUME TypeOK, ArmedTimerExists, UnstoredIsPending, OneStores,
                      [Steps \/ PromptTick]_vars
               PROVE  IInv'
    OBVIOUS
  <2> HIDE DEF IInv
  <2>0. /\ retryTimer \in {"nil", "timer"}
        /\ ppc \in [Msgs -> {"idle", "write", "check", "set", "store"}]
        /\ pending \in [0..RetryInterval -> 0..MaxPending]
        /\ unstored \in 0..RetryInterval
        /\ rpc \in [Runners -> RunnerStates]
        /\ interval \in [Runners -> 0..RetryInterval]
    BY DEF TypeOK
  <2> USE DEF subscriberVars, runnerVars, timerVars
  <2> DEFINE Pub == \A m \in Msgs : ppc'[m] = "store" => ppc[m] = "store"
             Run == \A t \in Runners : InStore(t)' => InStore(t)
             Waits == \A t \in Runners : rpc'[t] = "loopset" => interval'[t] > 0
             Clears == \A t \in Runners : rpc[t] \in {"fired", "reset"}
                                             => rpc'[t] \in {"fired", "reset"}
  \* A step that starts and assigns no timer.
  <2>1. ASSUME Pub, Run
        PROVE  OneStores' /\ (Storing' => Storing)
    BY <2>1 DEF OneStores, Storing, InStore
  <2>2. ASSUME Pub, Run, Waits, Clears, UNCHANGED timerVars
        PROVE  IInv'
    <3>1. UnstoredIsPending'
      BY <2>1, <2>2 DEF UnstoredIsPending
    <3>2. ArmedTimerExists'
      BY <2>2 DEF ArmedTimerExists
    <3>3. QED
      BY <2>1, <2>2, <3>1, <3>2 DEF IInv
  \* time.AfterFunc leaves a pending timer behind ...
  <2>3. ASSUME NEW d \in 0..RetryInterval, d > 0, StartTimer(d), Waits, Clears
        PROVE  ArmedTimerExists' /\ UnstoredIsPending'
    <3>1. pending'[d] > 0 /\ unstored' = d
      BY <2>0, <2>3 DEF StartTimer
    <3>2. ArmedTimerExists'
      BY <3>1 DEF ArmedTimerExists
    <3>3. QED
      BY <2>3, <3>1, <3>2 DEF UnstoredIsPending
  \* ... and the assignment finds it pending still.
  <2>4. ASSUME Storing, StoreTimer, ~ Storing', Waits
        PROVE  ArmedTimerExists' /\ UnstoredIsPending'
    <3>1. pending' = pending /\ pending[unstored] > 0
      BY <2>4 DEF StoreTimer, UnstoredIsPending
    <3>2. ArmedTimerExists'
      BY <2>0, <3>1 DEF ArmedTimerExists
    <3>3. QED
      BY <2>4, <3>2 DEF UnstoredIsPending
  <2>5. ASSUME NEW m \in Msgs, \/ PublishInflight(m) \/ PublishWrite(m)
                               \/ PublishCheckTimer(m)
        PROVE  IInv'
    <3>1. UNCHANGED <<timerVars, runnerVars>>
      BY <2>5 DEF PublishInflight, PublishWrite, PublishCheckTimer
    <3>2. Pub
      BY <2>0, <2>5 DEF PublishInflight, PublishWrite, PublishCheckTimer
    <3>3. Run /\ Waits /\ Clears
      BY <3>1 DEF InStore, UnstoredIsPending
    <3>4. QED
      BY <2>2, <3>1, <3>2, <3>3
  <2>6. ASSUME NEW m \in Msgs, PublishSetTimer(m)
        PROVE  IInv'
    <3>1. StartTimer(RetryInterval) /\ UNCHANGED runnerVars
      BY <2>6 DEF PublishSetTimer
    <3>2. Waits /\ Clears
      BY <3>1 DEF UnstoredIsPending
    <3>3. \A n \in Msgs : ppc'[n] = "store" => n = m
      BY <2>0, <2>6, <3>1 DEF PublishSetTimer, StartTimer, Storing
    <3>4. \A t \in Runners : ~ InStore(t)'
      BY <3>1 DEF StartTimer, Storing, InStore
    <3>5. OneStores'
      BY <3>3, <3>4 DEF OneStores
    <3>6. RetryInterval \in 0..RetryInterval /\ RetryInterval > 0
      OBVIOUS
    <3>7. QED
      BY <2>3, <3>1, <3>2, <3>5, <3>6 DEF IInv
  <2>7. ASSUME NEW m \in Msgs, PublishStoreTimer(m)
        PROVE  IInv'
    <3>1. /\ ppc[m] = "store" /\ StoreTimer /\ UNCHANGED runnerVars
          /\ ppc' = [ppc EXCEPT ![m] = "idle"]
      BY <2>7 DEF PublishStoreTimer
    <3>2. Waits
      BY <3>1 DEF UnstoredIsPending
    <3>3. \A n \in Msgs : ppc'[n] # "store"
      BY <2>0, <3>1 DEF OneStores
    <3>4. \A t \in Runners : ~ InStore(t)'
      BY <3>1 DEF OneStores, InStore
    <3>5. OneStores' /\ Storing /\ ~ Storing'
      BY <3>1, <3>3, <3>4 DEF OneStores, Storing, InStore
    <3>6. QED
      BY <2>4, <3>1, <3>2, <3>5 DEF IInv
  <2>8. CASE \/ \E i \in Mids : ProcessPuback(i) \/ ProcessPubrecLookup(i)
             \/ ProcessPubrecUpdate \/ Close
    <3>1. UNCHANGED <<timerVars, runnerVars, ppc>>
      BY <2>8 DEF ProcessPuback, ProcessPubrecLookup, ProcessPubrecUpdate, Close
    <3>2. Pub /\ Run /\ Waits /\ Clears
      BY <3>1 DEF InStore, UnstoredIsPending
    <3>3. QED
      BY <2>2, <3>1, <3>2
  <2>9. ASSUME NEW t \in Runners, Fire(t)
        PROVE  IInv'
    <3>1. /\ rpc[t] = "free" /\ rpc' = [rpc EXCEPT ![t] = "fired"]
          /\ UNCHANGED <<ppc, interval, unstored>>
          /\ pending' = [pending EXCEPT ![0] = @ - 1]
      BY <2>9 DEF Fire, Goto
    <3>2. Pub /\ Run /\ Waits
      BY <2>0, <3>1 DEF InStore, UnstoredIsPending
    <3>3. ArmedTimerExists'
      BY <2>0, <3>1 DEF ArmedTimerExists
    <3>4. UnstoredIsPending'
      <4>1. unstored > 0 => pending'[unstored] = pending[unstored]
        BY <2>0, <3>1
      <4>2. QED
        BY <2>1, <3>1, <3>2, <4>1 DEF UnstoredIsPending
    <3>5. QED
      BY <2>1, <3>2, <3>3, <3>4 DEF IInv
  <2>10. ASSUME NEW t \in Runners, ResetCheck(t)
         PROVE  IInv'
    <3>1. CASE retryTimer = "nil"
      <4>1. /\ rpc[t] = "fired" /\ rpc' = [rpc EXCEPT ![t] = "scan"]
            /\ UNCHANGED <<timerVars, ppc, interval>>
        BY <2>10, <3>1 DEF ResetCheck, Goto
      <4>2. Pub /\ Run /\ Waits
        BY <2>0, <4>1 DEF InStore, UnstoredIsPending
      <4>3. ArmedTimerExists'
        BY <3>1, <4>1 DEF ArmedTimerExists
      <4>4. UnstoredIsPending'
        BY <2>1, <4>1, <4>2 DEF UnstoredIsPending
      <4>5. QED
        BY <2>1, <4>2, <4>3, <4>4 DEF IInv
    <3>2. CASE retryTimer # "nil"
      <4>1. /\ rpc[t] = "fired" /\ rpc' = [rpc EXCEPT ![t] = "reset"]
            /\ UNCHANGED <<timerVars, ppc, interval>>
        BY <2>10, <3>2 DEF ResetCheck, Goto
      <4>2. Pub /\ Run /\ Waits /\ Clears
        BY <2>0, <4>1 DEF InStore, UnstoredIsPending
      <4>3. QED
        BY <2>2, <4>1, <4>2
    <3>3. QED
      BY <3>1, <3>2
  <2>11. ASSUME NEW t \in Runners, ResetTimer(t)
         PROVE  IInv'
    <3>1. /\ rpc[t] = "reset" /\ rpc' = [rpc EXCEPT ![t] = "scan"]
          /\ retryTimer' = "nil"
          /\ UNCHANGED <<pending, unstored, ppc, interval>>
      BY <2>11 DEF ResetTimer, Goto
    <3>2. Pub /\ Run /\ Waits
      BY <2>0, <3>1 DEF InStore, UnstoredIsPending
    <3>3. ArmedTimerExists'
      BY <3>1 DEF ArmedTimerExists
    <3>4. UnstoredIsPending'
      BY <2>1, <3>1, <3>2 DEF UnstoredIsPending
    <3>5. QED
      BY <2>1, <3>2, <3>3, <3>4 DEF IInv
  <2>12. ASSUME NEW t \in Runners,
                \/ Scan(t) \/ RetryStamp(t) \/ LoopDone(t) \/ EndCheck(t)
                \/ \E m \in Msgs : RetrySend(t, m)
         PROVE  IInv'
    <3>1. PICK pc : /\ rpc' = [rpc EXCEPT ![t] = pc]
                    /\ pc \in {"free", "loop", "stamp", "endcheck", "endset"}
      BY <2>12 DEF Scan, RetryStamp, LoopDone, EndCheck, RetrySend, Goto
    <3>2. /\ rpc[t] \in {"scan", "loop", "stamp", "endcheck"}
          /\ UNCHANGED <<timerVars, ppc, interval>>
      BY <2>12 DEF Scan, RetryStamp, LoopDone, EndCheck, RetrySend
    <3>3. Pub /\ Run /\ Waits /\ Clears
      BY <2>0, <3>1, <3>2 DEF InStore, UnstoredIsPending
    <3>4. QED
      BY <2>2, <3>2, <3>3
  <2>13. ASSUME NEW t \in Runners, NEW m \in Msgs, RetryLater(t, m)
         PROVE  IInv'
    <3>1. rpc[t] = "loop" /\ UNCHANGED <<timerVars, ppc>>
      BY <2>13 DEF RetryLater
    <3>2. CASE UNCHANGED <<rpc, interval>>
      <4>1. Pub /\ Run /\ Waits /\ Clears
        BY <3>1, <3>2 DEF InStore, UnstoredIsPending
      <4>2. QED
        BY <2>2, <3>1, <4>1
    <3>3. CASE rpc' = [rpc EXCEPT ![t] = "loopset"]
               /\ interval' = [interval EXCEPT ![t] =
                                 IF AgeSeenBy(t, m) < 0 THEN RetryInterval
                                 ELSE RetryInterval - AgeSeenBy(t, m)]
      <4>1. AgeSeenBy(t, m) \in Int /\ AgeSeenBy(t, m) < RetryInterval
        BY <2>13 DEF RetryLater, AgeSeenBy, TypeOK, InflightElement, MaxAge
      <4>2. interval'[t] > 0
        BY <2>0, <3>3, <4>1
      <4>3. Pub /\ Run /\ Waits /\ Clears
        BY <2>0, <3>1, <3>3, <4>2 DEF InStore, UnstoredIsPending
      <4>4. QED
        BY <2>2, <3>1, <4>3
    <3>4. QED
      BY <2>13, <3>2, <3>3 DEF RetryLater, Goto
  <2>14. ASSUME NEW t \in Runners, RetryLaterSet(t) \/ EndSet(t)
         PROVE  IInv'
    <3>1. PICK pc \in {"loopstore", "endstore"} : rpc' = [rpc EXCEPT ![t] = pc]
      BY <2>14 DEF RetryLaterSet, EndSet, Goto
    <3>2. PICK d \in 0..RetryInterval : d > 0 /\ StartTimer(d)
      <4>1. RetryInterval \in 0..RetryInterval /\ RetryInterval > 0
        OBVIOUS
      <4>2. RetryLaterSet(t) => interval[t] \in 0..RetryInterval /\ interval[t] > 0
        BY <2>0 DEF RetryLaterSet, UnstoredIsPending
      <4>3. QED
        BY <2>14, <4>1, <4>2 DEF RetryLaterSet, EndSet
    <3>3. /\ ppc' = ppc /\ rpc[t] \in {"loopset", "endset"}
          /\ \A u \in Runners \ {t} : interval'[u] = interval[u]
      BY <2>0, <2>14 DEF RetryLaterSet, EndSet
    <3>4. Waits /\ Clears
      BY <2>0, <3>1, <3>3 DEF UnstoredIsPending
    <3>5. \A u \in Runners : InStore(u)' => u = t
      BY <2>0, <3>1, <3>2 DEF StartTimer, Storing, InStore
    <3>6. \A m \in Msgs : ppc'[m] # "store"
      BY <3>2, <3>3 DEF StartTimer, Storing
    <3>7. OneStores'
      BY <3>5, <3>6 DEF OneStores
    <3>8. QED
      BY <2>3, <3>2, <3>4, <3>7 DEF IInv
  <2>15. ASSUME NEW t \in Runners, RetryLaterStore(t) \/ EndStore(t)
         PROVE  IInv'
    <3>1. /\ InStore(t) /\ StoreTimer /\ UNCHANGED <<ppc, interval>>
          /\ \E pc \in {"loop", "free"} : rpc' = [rpc EXCEPT ![t] = pc]
      BY <2>15 DEF RetryLaterStore, EndStore, InStore, Goto
    <3>2. Waits
      BY <2>0, <3>1 DEF UnstoredIsPending
    <3>3. \A u \in Runners : ~ InStore(u)'
      BY <2>0, <3>1 DEF OneStores, InStore
    <3>4. \A m \in Msgs : ppc'[m] # "store"
      BY <3>1 DEF OneStores
    <3>5. OneStores' /\ Storing /\ ~ Storing'
      BY <3>1, <3>3, <3>4 DEF OneStores, Storing, InStore
    <3>6. QED
      BY <2>4, <3>1, <3>2, <3>5 DEF IInv
  <2>16. CASE PromptTick
    <3>1. /\ Advance /\ UNCHANGED <<retryTimer, ppc, rpc, interval>>
          /\ Storing => unstored > 1
      BY <2>16 DEF PromptTick, Tick, Advance
    <3>2. Pub /\ Run /\ Waits
      BY <3>1 DEF InStore, UnstoredIsPending
    <3>3. ArmedTimerExists'
      BY <3>1, TickKeepsTimers DEF ArmedTimerExists
    <3>4. UnstoredIsPending'
      <4>1. ASSUME Storing PROVE unstored' > 0 /\ pending'[unstored'] > 0
        <5>1. unstored' = unstored - 1 /\ unstored' \in 0..RetryInterval
          BY <2>0, <3>1, <4>1 DEF Advance
        <5>2. unstored' # 0 /\ unstored' # RetryInterval
          BY <2>0, <3>1, <4>1, <5>1
        <5>3. pending'[unstored'] = pending[unstored' + 1]
          BY <3>1, <5>1, <5>2 DEF Advance, Closer
        <5>4. QED
          BY <2>0, <4>1, <5>1, <5>2, <5>3 DEF UnstoredIsPending
      <4>2. QED
        BY <2>1, <3>2, <4>1 DEF UnstoredIsPending
    <3>5. QED
      BY <2>1, <3>2, <3>3, <3>4 DEF IInv
  <2>17. CASE UNCHANGED vars
    <3>1. Pub /\ Run /\ Waits /\ Clears /\ UNCHANGED timerVars
      BY <2>17 DEF vars, InStore, UnstoredIsPending
    <3>2. QED
      BY <2>2, <3>1
  <2>18. QED
    BY <2>5, <2>6, <2>7, <2>8, <2>9, <2>10, <2>11, <2>12, <2>13, <2>14,
       <2>15, <2>16, <2>17, StepCases
<1>3. QED
  BY <1>1, <1>2, TypeCorrect, PromptIsSpec, PTL DEF PromptSpec

-----------------------------------------------------------------------------

\* Someone will look at the inflight map again: what RetryArmed promises.
SomeoneWillRetry ==
    \/ \E d \in 0..RetryInterval : pending[d] > 0
    \/ \E t \in Runners : rpc[t] # "free"
    \/ \E m \in Msgs : ppc[m] # "idle"

\* ensureRetryTimer and resetRetryTimer never lose a wake-up: a packet in
\* flight to a client that is online is always looked at again by a
\* retryDelivery, as long as timers are assigned before they expire.
\* RetryArmed is inductive given ArmedTimerExists: a step that
\* gives up its own responsibility has just seen retryTimer # nil.
THEOREM NoLostWakeup == PromptSpec => []RetryArmed
<1> USE RetryAssumption DEF RetryAssumption
<1>1. Init => RetryArmed
  BY DEF Init, RetryArmed, Inflight
<1>2. TypeOK /\ ArmedTimerExists /\ ArmedTimerExists' /\ RetryArmed
        /\ [Steps \/ PromptTick]_vars => RetryArmed'
  <2> SUFFICES ASSUME TypeOK, ArmedTimerExists, ArmedTimerExists', RetryArmed,
                      [Steps \/ PromptTick]_vars,
                      conn' # "nil", NEW k \in Msgs, Inflight(k)'
               PROVE  SomeoneWillRetry'
    BY DEF RetryArmed, SomeoneWillRetry
  <2> USE DEF TypeOK, SomeoneWillRetry, RunnerStates,
              subscriberVars, runnerVars, timerVars
  <2>1. ASSUME Inflight(k), conn # "nil" PROVE SomeoneWillRetry
    BY <2>1 DEF RetryArmed
  <2>2. ASSUME NEW m \in Msgs, PublishInflight(m) \/ PublishWrite(m)
        PROVE  SomeoneWillRetry'
    BY <2>2 DEF PublishInflight, PublishWrite
  <2>3. ASSUME NEW m \in Msgs, PublishCheckTimer(m) PROVE SomeoneWillRetry'
    <3>1. CASE retryTimer = "nil"
      BY <2>3, <3>1 DEF PublishCheckTimer
    <3>2. CASE retryTimer # "nil"
      BY <2>3, <3>2 DEF PublishCheckTimer, ArmedTimerExists
    <3>3. QED
      BY <3>1, <3>2
  <2>4. ASSUME NEW d \in 0..RetryInterval, StartTimer(d)
        PROVE  SomeoneWillRetry'
    BY <2>4 DEF StartTimer
  <2>5. ASSUME NEW m \in Msgs, PublishSetTimer(m) PROVE SomeoneWillRetry'
    BY <2>4, <2>5 DEF PublishSetTimer
  \* Whoever has assigned a timer may leave the rest to it.
  <2>17. ASSUME StoreTimer PROVE SomeoneWillRetry'
    <3>1. retryTimer' = "timer"
      BY <2>17 DEF StoreTimer
    <3>2. QED
      BY <3>1 DEF ArmedTimerExists
  <2>18. ASSUME NEW m \in Msgs, PublishStoreTimer(m) PROVE SomeoneWillRetry'
    BY <2>17, <2>18 DEF PublishStoreTimer
  <2>6. ASSUME NEW i \in Mids, ProcessPuback(i) \/ ProcessPubrecLookup(i)
        PROVE  SomeoneWillRetry'
    BY <2>1, <2>6 DEF ProcessPuback, ProcessPubrecLookup, Inflight
  <2>7. CASE ProcessPubrecUpdate
    BY <2>1, <2>7 DEF ProcessPubrecUpdate, Inflight
  <2>8. CASE Close
    BY <2>8 DEF Close
  <2>9. ASSUME NEW t \in Runners,
               \/ Fire(t) \/ ResetCheck(t) \/ ResetTimer(t) \/ LoopDone(t)
               \/ RetryStamp(t)
        PROVE  SomeoneWillRetry'
    <3>1. rpc'[t] # "free"
      BY <2>9 DEF Fire, ResetCheck, ResetTimer, LoopDone, RetryStamp, Goto
    <3>2. QED
      BY <3>1
  <2>10. ASSUME NEW t \in Runners, Scan(t) PROVE SomeoneWillRetry'
    <3>1. k \in {m \in Msgs : Inflight(m)} /\ conn # "nil"
      BY <2>10 DEF Scan, Inflight
    <3>2. rpc'[t] = "loop"
      BY <2>10, <3>1 DEF Scan, Goto
    <3>3. QED
      BY <3>2
  <2>11. ASSUME NEW t \in Runners, EndCheck(t) PROVE SomeoneWillRetry'
    <3>1. CASE retryTimer = "nil"
      BY <2>11, <3>1 DEF EndCheck, Goto
    <3>2. CASE retryTimer # "nil"
      BY <2>11, <3>2 DEF EndCheck, Goto, ArmedTimerExists
    <3>3. QED
      BY <3>1, <3>2
  <2>12. ASSUME NEW t \in Runners, RetryLaterSet(t) \/ EndSet(t)
         PROVE  SomeoneWillRetry'
    BY <2>4, <2>12 DEF RetryLaterSet, EndSet
  <2>19. ASSUME NEW t \in Runners, RetryLaterStore(t) \/ EndStore(t)
         PROVE  SomeoneWillRetry'
    BY <2>17, <2>19 DEF RetryLaterStore, EndStore
  <2>13. ASSUME NEW t \in Runners, NEW m \in Msgs,
                RetrySend(t, m) \/ RetryLater(t, m)
         PROVE  SomeoneWillRetry'
    <3>1. rpc'[t] # "free"
      BY <2>13 DEF RetrySend, RetryLater, Goto
    <3>2. QED
      BY <3>1
  <2>14. CASE PromptTick
    BY <2>1, <2>14, TickKeepsTimers DEF PromptTick, Tick, Advance, Inflight
  <2>15. CASE UNCHANGED vars
    BY <2>1, <2>15 DEF vars, Inflight
  <2>16. QED
    BY <2>2, <2>3, <2>5, <2>6, <2>7, <2>8, <2>9, <2>10, <2>11, <2>12, <2>13,
       <2>14, <2>15, <2>18, <2>19, StepCases
<1>3. QED
  BY <1>1, <1>2, TypeCorrect, ArmedTimer, PromptIsSpec, PTL DEF PromptSpec

-----------------------------------------------------------------------------

\* A retryDelivery that has still to visit the element of m.
WillVisit(t, m) ==
    \/ rpc[t] \in {"fired", "reset", "scan"}
    \/ rpc[t] \in {"loop", "stamp", "loopset", "loopstore"} /\ m \in todo[t]
    \/ rpc[t] = "stamp" /\ cur[t] = m

\* Why m is sent again in time: its last transmission is less than an interval
\* ago, or a timer is due before two intervals are over, or a retryDelivery
\* is about to visit it.
InTime(m) ==
    \/ elem[m].age < RetryInterval
    \/ \E d \in 0..RetryInterval :
          pending[d] > 0 /\ elem[m].age + d < 2 * RetryInterval
    \/ /\ elem[m].age < 2 * RetryInterval
       /\ \E t \in Runners : WillVisit(t, m)

\* The inductive form of RetransmitGapBound.
RetriedInTime == conn # "nil" => \A m \in Msgs : Inflight(m) => InTime(m)

\* With prompt goroutines no time passes within a retryDelivery.
NoLag == \A t \in Runners : lag[t] = 0

\* Prompt goroutines assign their timers promptly: what PromptSpec never does,
\* TimelySpec never does.
LEMMA TimelyIsPrompt == TimelySpec => PromptSpec
<1>1. [Steps \/ TimelyTick]_vars => [Steps \/ PromptTick]_vars
  BY DEF PromptTick, Tick, TimelyTick, InPass, Storing
<1>2. QED
  BY <1>1, PTL DEF TimelySpec, PromptSpec

\* The clock takes a tick from the timers and gives it to the elements.
LEMMA TickKeepsInTime ==
    ASSUME TypeOK, RetryArmed, RetriedInTime, TimelyTick,
           conn' # "nil", NEW m \in Msgs, Inflight(m)'
    PROVE  InTime(m)'
<1> USE RetryAssumption DEF RetryAssumption
<1>0. conn # "nil" /\ Inflight(m) /\ inflight' = inflight
  BY DEF TimelyTick, Advance, subscriberVars, Inflight
<1>1. /\ pending[0] = 0
      /\ \A t \in Runners : rpc[t] = "free"
      /\ \A k \in Msgs : ppc[k] = "idle"
  BY DEF TimelyTick
<1>2. elem[m].age \in 0..MaxAge /\ MaxAge \in Nat /\ 2 * RetryInterval <= MaxAge
  BY DEF TypeOK, InflightElement, MaxAge
<1>3. PICK d \in 0..RetryInterval :
          pending[d] > 0 /\ elem[m].age + d < 2 * RetryInterval
  <2>1. CASE elem[m].age < RetryInterval
    <3>1. PICK d \in 0..RetryInterval : pending[d] > 0
      BY <1>0, <1>1 DEF RetryArmed
    <3>2. elem[m].age + d < 2 * RetryInterval
      BY <1>2, <2>1
    <3>3. QED
      BY <3>1, <3>2
  <2>2. \A t \in Runners : ~ WillVisit(t, m)
    BY <1>1 DEF WillVisit
  <2>3. QED
    BY <1>0, <2>1, <2>2 DEF RetriedInTime, InTime
<1>4. d # 0
  BY <1>1, <1>3
<1>5. elem'[m].age = elem[m].age + 1
  <2>1. elem'[m] = Older(elem[m])
    BY <1>0 DEF TimelyTick, Advance, Unused
  <2>2. elem[m].age # MaxAge
    BY <1>2, <1>3
  <2>3. elem[m] \in InflightElement
    BY DEF TypeOK
  <2>4. QED
    BY <2>1, <2>2, <2>3 DEF Older, InflightElement
<1>6. pending' = Closer /\ pending \in [0..RetryInterval -> 0..MaxPending]
  BY DEF TimelyTick, Advance, TypeOK
<1>7. d - 1 \in 0..RetryInterval /\ d - 1 # RetryInterval
  BY <1>4
<1>8. pending'[d - 1] > 0
  <2>1. CASE d = 1
    <3>1. pending[1] \in 0..MaxPending /\ pending[1] > 0 /\ 0 \in 0..RetryInterval
      BY <1>3, <1>6, <2>1
    <3>2. pending'[0] = IF pending[0] + pending[1] > MaxPending THEN MaxPending
                        ELSE pending[0] + pending[1]
      BY <1>6, <3>1 DEF Closer
    <3>3. QED
      BY <1>1, <2>1, <3>1, <3>2
  <2>2. CASE d # 1
    <3>1. pending'[d - 1] = pending[d]
      BY <1>6, <1>7, <2>2 DEF Closer
    <3>2. QED
      BY <1>3, <3>1
  <2>3. QED
    BY <2>1, <2>2
<1>9. elem'[m].age + (d - 1) < 2 * RetryInterval
  BY <1>2, <1>3, <1>5
<1>10. QED
  BY <1>7, <1>8, <1>9 DEF InTime

\* With prompt goroutines a packet in flight is retransmitted within two retry
\* intervals: a timer that finds the element too young leaves another one
\* behind that is at most one interval away.
THEOREM GapBound == TimelySpec => []RetransmitGapBound
<1> USE RetryAssumption DEF RetryAssumption
<1>1. Init => NoLag /\ RetriedInTime
  BY DEF Init, NoLag, RetriedInTime, Inflight
<1>2. TypeOK /\ NoLag /\ [Steps \/ TimelyTick]_vars => NoLag'
  <2> SUFFICES ASSUME TypeOK, NoLag, [Steps \/ TimelyTick]_vars, NEW r \in Runners
               PROVE  lag'[r] = 0
    BY DEF NoLag
  <2>0. lag[r] = 0 /\ lag \in [Runners -> 0..MaxLag]
    BY DEF NoLag, TypeOK
  <2> USE DEF subscriberVars, runnerVars, timerVars
  <2>1. CASE lag' = lag
    BY <2>0, <2>1
  <2>2. ASSUME NEW t \in Runners, LoopDone(t)
        PROVE  lag'[r] = 0
    BY <2>0, <2>2 DEF LoopDone
  <2>3. CASE TimelyTick
    BY <2>0, <2>3 DEF TimelyTick, Advance, InPass
  <2>4. QED
    BY <2>1, <2>2, <2>3, StepCases
      DEF PublishInflight, PublishWrite, PublishCheckTimer, PublishSetTimer,
          PublishStoreTimer, RetryStamp, RetryLaterStore, EndStore,
          ProcessPuback, ProcessPubrecLookup, ProcessPubrecUpdate, Close, Fire,
          ResetCheck, ResetTimer, Scan, RetryLaterSet, EndCheck, EndSet,
          RetrySend, RetryLater, vars
<1>3. TypeOK /\ RetryArmed /\ NoLag /\ RetriedInTime /\ [Steps \/ TimelyTick]_vars
        => RetriedInTime'
  <2> SUFFICES ASSUME TypeOK, RetryArmed, NoLag, RetriedInTime,
                      [Steps \/ TimelyTick]_vars,
                      conn' # "nil", NEW m \in Msgs, Inflight(m)'
               PROVE  InTime(m)'
    BY DEF RetriedInTime
  <2> USE DEF subscriberVars, runnerVars, timerVars
  <2>0. /\ pending \in [0..RetryInterval -> 0..MaxPending]
        /\ elem \in [Msgs -> InflightElement]
        /\ rpc \in [Runners -> RunnerStates]
        /\ todo \in [Runners -> SUBSET Msgs]
        /\ cur \in [Runners -> Msgs \cup {NoMsg}]
        /\ inflight \in [Mids -> Msgs \cup {NoMsg}]
        /\ \A t \in Runners : lag[t] = 0
    BY DEF TypeOK, NoLag
  \* A young element needs nothing else.
  <2>1. ASSUME elem'[m].age < RetryInterval
        PROVE  InTime(m)'
    BY <2>1 DEF InTime
  \* A step that keeps the element, loses no timer and no visit.
  <2> DEFINE Old == conn # "nil" /\ Inflight(m)
             Timers == \A d \in 0..RetryInterval : pending[d] > 0 => pending'[d] > 0
             Visits == \A t \in Runners : WillVisit(t, m) => WillVisit(t, m)'
  <2>2. ASSUME Old, elem'[m] = elem[m], Timers, Visits
        PROVE  InTime(m)'
    BY <2>2 DEF RetriedInTime, InTime
  <2>3. ASSUME NEW d \in 0..RetryInterval, StartTimer(d) \/ StoreTimer
        PROVE  Timers
    BY <2>0, <2>3 DEF StartTimer, StoreTimer
  <2>4. ASSUME NEW k \in Msgs, PublishInflight(k)
        PROVE  InTime(m)'
    <3>1. CASE k = m
      BY <2>0, <2>1, <2>4, <3>1 DEF PublishInflight, NewElement
    <3>2. CASE k # m
      <4>1. Old
        BY <2>0, <2>4, <3>2 DEF PublishInflight, Inflight
      <4>2. elem'[m] = elem[m] /\ pending' = pending /\ UNCHANGED <<rpc, todo, cur>>
        BY <2>0, <2>4, <3>2 DEF PublishInflight
      <4>3. QED
        BY <2>2, <4>1, <4>2 DEF WillVisit
    <3>3. QED
      BY <3>1, <3>2
  <2>5. ASSUME NEW k \in Msgs, PublishWrite(k) \/ PublishCheckTimer(k)
        PROVE  InTime(m)'
    <3>1. Old /\ elem' = elem /\ pending' = pending /\ UNCHANGED <<rpc, todo, cur>>
      BY <2>5 DEF PublishWrite, PublishCheckTimer, Inflight
    <3>2. QED
      BY <2>2, <3>1 DEF WillVisit
  <2>6. ASSUME NEW k \in Msgs, PublishSetTimer(k) \/ PublishStoreTimer(k)
        PROVE  InTime(m)'
    <3>1. Old /\ elem' = elem /\ UNCHANGED <<rpc, todo, cur>>
      BY <2>6 DEF PublishSetTimer, PublishStoreTimer, Inflight
    <3>2. Timers
      BY <2>3, <2>6 DEF PublishSetTimer, PublishStoreTimer
    <3>3. QED
      BY <2>2, <3>1, <3>2 DEF WillVisit
  <2>7. ASSUME NEW i \in Mids, ProcessPuback(i) \/ ProcessPubrecLookup(i)
        PROVE  InTime(m)'
    <3>1. Old
      BY <2>0, <2>7 DEF ProcessPuback, ProcessPubrecLookup, Inflight
    <3>2. elem' = elem /\ pending' = pending /\ UNCHANGED <<rpc, todo, cur>>
      BY <2>7 DEF ProcessPuback, ProcessPubrecLookup
    <3>3. QED
      BY <2>2, <3>1, <3>2 DEF WillVisit
  <2>8. CASE ProcessPubrecUpdate
    <3>1. Old /\ pending' = pending /\ UNCHANGED <<rpc, todo, cur>>
      BY <2>8 DEF ProcessPubrecUpdate, Inflight
    <3>2. elem'[m] = elem[m] \/ elem'[m].age = 0
      BY <2>0, <2>8 DEF ProcessPubrecUpdate
    <3>3. QED
      BY <2>1, <2>2, <3>1, <3>2 DEF WillVisit
  <2>9. CASE Close
    BY <2>9 DEF Close
  <2>10. ASSUME NEW t \in Runners, Fire(t)
         PROVE  InTime(m)'
    <3>1. Old /\ elem' = elem
      BY <2>10 DEF Fire, Inflight
    <3>2. rpc'[t] = "fired"
      BY <2>0, <2>10 DEF Fire, Goto
    <3>3. WillVisit(t, m)'
      BY <3>2 DEF WillVisit
    <3>4. elem[m].age < 2 * RetryInterval
      <4>1. elem[m].age \in Nat
        BY <2>0 DEF InflightElement, MaxAge
      <4>2. InTime(m)
        BY <3>1 DEF RetriedInTime
      <4>3. QED
        BY <4>1, <4>2 DEF InTime
    <3>5. QED
      BY <3>1, <3>3, <3>4 DEF InTime
  <2>11. ASSUME NEW t \in Runners, ResetCheck(t) \/ ResetTimer(t)
         PROVE  InTime(m)'
    <3>1. /\ Old /\ elem' = elem /\ pending' = pending
          /\ UNCHANGED <<todo, cur>>
      BY <2>11 DEF ResetCheck, ResetTimer, Inflight
    <3>2. Visits
      BY <2>0, <2>11, <3>1 DEF ResetCheck, ResetTimer, Goto, WillVisit
    <3>3. QED
      BY <2>2, <3>1, <3>2
  <2>12. ASSUME NEW t \in Runners, Scan(t)
         PROVE  InTime(m)'
    <3>1. Old /\ elem' = elem /\ pending' = pending /\ cur' = cur
      BY <2>12 DEF Scan, Inflight
    <3>2. m \in {k \in Msgs : Inflight(k)}
      BY <3>1
    <3>3. /\ rpc' = [rpc EXCEPT ![t] = "loop"]
          /\ todo' = [todo EXCEPT ![t] = {k \in Msgs : Inflight(k)}]
      BY <2>12, <3>1, <3>2 DEF Scan, Goto
    <3>4. Visits
      BY <2>0, <2>12, <3>1, <3>2, <3>3 DEF Scan, WillVisit
    <3>5. QED
      BY <2>2, <3>1, <3>4
  <2>13. ASSUME NEW t \in Runners, \/ RetryLaterSet(t) \/ RetryLaterStore(t)
                                   \/ EndSet(t) \/ EndStore(t)
         PROVE  InTime(m)'
    <3>1. Old /\ elem' = elem /\ UNCHANGED <<todo, cur>>
      BY <2>13 DEF RetryLaterSet, RetryLaterStore, EndSet, EndStore, Inflight
    <3>2. \E d \in 0..RetryInterval : StartTimer(d) \/ StoreTimer
      BY <2>13 DEF RetryLaterSet, RetryLaterStore, EndSet, EndStore, TypeOK
    <3>3. Visits
      BY <2>0, <2>13, <3>1
        DEF RetryLaterSet, RetryLaterStore, EndSet, EndStore, Goto, WillVisit
    <3>4. QED
      BY <2>2, <2>3, <3>1, <3>2, <3>3
  <2>14. ASSUME NEW t \in Runners, LoopDone(t) \/ EndCheck(t)
         PROVE  InTime(m)'
    <3>1. /\ Old /\ elem' = elem /\ pending' = pending
          /\ UNCHANGED <<todo, cur>>
      BY <2>14 DEF LoopDone, EndCheck, Inflight
    <3>2. Visits
      BY <2>0, <2>14, <3>1 DEF LoopDone, EndCheck, Goto, WillVisit
    <3>3. QED
      BY <2>2, <3>1, <3>2
  \* Between the write and the stamp the element is the goroutine's cur.
  <2>15. ASSUME NEW t \in Runners, NEW k \in Msgs, RetrySend(t, k)
         PROVE  InTime(m)'
    <3>1. Old /\ elem' = elem /\ pending' = pending
      BY <2>15 DEF RetrySend, Inflight
    <3>2. /\ rpc[t] = "loop" /\ rpc' = [rpc EXCEPT ![t] = "stamp"]
          /\ todo' = [todo EXCEPT ![t] = @ \ {k}]
          /\ cur' = [cur EXCEPT ![t] = k]
      BY <2>15 DEF RetrySend, Goto
    <3>3. Visits
      BY <2>0, <3>2 DEF WillVisit
    <3>4. QED
      BY <2>2, <3>1, <3>3
  <2>16. ASSUME NEW t \in Runners, RetryStamp(t)
         PROVE  InTime(m)'
    <3>1. Old /\ pending' = pending /\ todo' = todo
      BY <2>16 DEF RetryStamp, Inflight
    <3>2. CASE cur[t] = m
      <4>1. elem'[m].age = 0
        BY <2>0, <2>16, <3>2 DEF RetryStamp, InflightElement
      <4>2. QED
        BY <2>1, <4>1
    <3>3. CASE cur[t] # m
      <4>1. elem'[m] = elem[m]
        BY <2>0, <2>16, <3>3 DEF RetryStamp
      <4>2. Visits
        BY <2>0, <2>16, <3>1, <3>3 DEF RetryStamp, Goto, WillVisit
      <4>3. QED
        BY <2>2, <3>1, <4>1, <4>2
    <3>4. QED
      BY <3>2, <3>3
  <2>17. ASSUME NEW t \in Runners, NEW k \in Msgs, RetryLater(t, k)
         PROVE  InTime(m)'
    <3>1. Old /\ elem' = elem /\ pending' = pending /\ cur' = cur
      BY <2>17 DEF RetryLater, Inflight
    <3>2. CASE k = m
      <4>1. elem[m].age - 0 < RetryInterval
        BY <2>0, <2>17, <3>2 DEF RetryLater, AgeSeenBy
      <4>2. elem[m].age \in Nat
        BY <2>0 DEF InflightElement, MaxAge
      <4>3. QED
        BY <2>1, <3>1, <4>1, <4>2
    <3>3. CASE k # m
      <4>1. /\ rpc' = rpc \/ rpc' = [rpc EXCEPT ![t] = "loopset"]
            /\ rpc[t] = "loop"
            /\ todo' = [todo EXCEPT ![t] = @ \ {k}]
        BY <2>17 DEF RetryLater, Goto
      <4>2. Visits
        BY <2>0, <3>1, <3>3, <4>1 DEF WillVisit
      <4>3. QED
        BY <2>2, <3>1, <4>2
    <3>4. QED
      BY <3>2, <3>3
  <2>18. CASE TimelyTick
    BY <2>18, TickKeepsInTime
  <2>19. CASE UNCHANGED vars
    <3>1. Old /\ elem' = elem /\ pending' = pending /\ UNCHANGED <<rpc, todo, cur>>
      BY <2>19 DEF vars, Inflight
    <3>2. QED
      BY <2>2, <3>1 DEF WillVisit
  <2>20. QED
    BY <2>4, <2>5, <2>6, <2>7, <2>8, <2>9, <2>10, <2>11, <2>12, <2>13, <2>14,
       <2>15, <2>16, <2>17, <2>18, <2>19, StepCases
<1>4. TypeOK /\ RetriedInTime => RetransmitGapBound
  <2> SUFFICES ASSUME TypeOK, RetriedInTime, conn # "nil", NEW m \in Msgs, Inflight(m)
               PROVE  elem[m].age < 2 * RetryInterval
    BY DEF RetransmitGapBound
  <2>1. InTime(m)
    BY DEF RetriedInTime
  <2>2. elem[m].age \in Nat
    BY DEF TypeOK, InflightElement, MaxAge
  <2>3. QED
    BY <2>1, <2>2 DEF InTime
<1>5. QED
  BY <1>1, <1>2, <1>3, <1>4, TimelyIsPrompt, PromptIsSpec, TypeCorrect,
     NoLostWakeup, PTL
    DEF TimelySpec
=============================================================================
