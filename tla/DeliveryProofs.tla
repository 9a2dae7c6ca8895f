---------------------------- MODULE DeliveryProofs ----------------------------
(***************************************************************************)
(* Proofs about Delivery for every number of jobs, workers, slots,         *)
(* attempts and faults: its invariant, and that it implements JobCustody.  *)
(***************************************************************************)
EXTENDS DeliveryInvariant, FiniteSetTheorems, TLAPS

\* A handler belongs to a worker, and NoMsg is no message.
LEMMA HandlerFacts ==
  /\ IsFiniteSet(Handlers)
  /\ \A h \in Handlers : Host(h) \in Workers
  /\ \A w \in Workers : HandlersOf(w) \subseteq Handlers
  /\ NoMsg \notin Msgs
<1>1. IsFiniteSet(Handlers)
  BY ConstantsAssumption, FS_Product DEF Handlers
<1>2. \A h \in Handlers : Host(h) \in Workers
  BY DEF Handlers, Host
<1>3. \A w \in Workers : HandlersOf(w) \subseteq Handlers
  BY DEF Handlers, HandlersOf
<1> QED
  BY <1>1, <1>2, <1>3, ConstantsAssumption

\* The messages of Enqueue, and the next attempt where the policy retries.
LEMMA MessageFacts ==
  /\ \A j \in Jobs : [job |-> j, attempt |-> 0] \in Msgs
  /\ \A m \in Msgs : m.job \in Jobs /\ m.attempt \in Attempts
  /\ \A m \in Msgs : CanRetry(m) =>
       /\ NextAttempt(m) \in Msgs
       /\ NextAttempt(m).job = m.job
       /\ NextAttempt(m).attempt = m.attempt + 1
       /\ NextAttempt(m).attempt \in Tiers
  /\ RateLimitDeferTier \in Tiers /\ BreakerDeferTier \in Tiers
BY ConstantsAssumption
DEF Msgs, Attempts, NextAttempt, CanRetry, Tiers, RateLimitDeferTier, BreakerDeferTier

\* A count that goes up is a count, also where the index is of no interest.
LEMMA CountType ==
  ASSUME NEW S, NEW q \in [S -> Nat], NEW x, NEW n \in Nat
  PROVE  [q EXCEPT ![x] = @ + n] \in [S -> Nat]
<1>1. CASE x \in S
  <2>1. q[x] + n \in Nat
    BY <1>1
  <2> QED
    BY <2>1
<1>2. CASE x \notin S
  BY <1>2
<1> QED
  BY <1>1, <1>2

\* A handler that is busy has a message.
LEMMA BusyFacts == TypeOK => \A h \in Handlers : pc[h] # "idle" => msg[h] \in Msgs
BY DEF TypeOK

\* What the broker takes back is queued again, and nothing else is.
LEMMA RequeueFacts ==
  ASSUME TypeOK, NEW hs \in SUBSET Handlers, Requeue(hs)
  PROVE  /\ mainQ' \in [Msgs -> Nat] /\ redelivered' \in [Jobs -> Nat]
         /\ \A m \in Msgs : mainQ'[m] >= mainQ[m]
         /\ \A h \in hs : held[h] /\ msg[h] \in Msgs => mainQ'[msg[h]] > 0
         /\ \A m \in Msgs : mainQ'[m] > 0 =>
              mainQ[m] > 0 \/ \E h \in hs : held[h] /\ msg[h] = m
<1> DEFINE Back(m) == {h \in hs : held[h] /\ msg[h] = m}
           BackOf(j) == {h \in hs : held[h] /\ msg[h].job = j}
<1>1. \A m : IsFiniteSet(Back(m)) /\ Cardinality(Back(m)) \in Nat
  <2> TAKE m
  <2>1. Back(m) \in SUBSET Handlers
    OBVIOUS
  <2> QED
    BY <2>1, HandlerFacts, FS_Subset, FS_CardinalityType
<1>2. \A j : IsFiniteSet(BackOf(j)) /\ Cardinality(BackOf(j)) \in Nat
  <2> TAKE j
  <2>1. BackOf(j) \in SUBSET Handlers
    OBVIOUS
  <2> QED
    BY <2>1, HandlerFacts, FS_Subset, FS_CardinalityType
<1>3. \A m : Cardinality(Back(m)) > 0 <=> \E h \in hs : held[h] /\ msg[h] = m
  <2> TAKE m
  <2>1. Cardinality(Back(m)) = 0 <=> Back(m) = {}
    BY <1>1, FS_EmptySet
  <2> QED
    BY <2>1, <1>1
<1>4. mainQ' = [m \in Msgs |-> mainQ[m] + Cardinality(Back(m))]
  BY DEF Requeue
<1>5. redelivered' = [j \in Jobs |-> redelivered[j] + Cardinality(BackOf(j))]
  BY DEF Requeue
<1>6. mainQ \in [Msgs -> Nat] /\ redelivered \in [Jobs -> Nat]
  BY DEF TypeOK
<1> HIDE DEF Back, BackOf
<1>7. mainQ' \in [Msgs -> Nat] /\ redelivered' \in [Jobs -> Nat]
  BY <1>1, <1>2, <1>4, <1>5, <1>6
<1>8. \A m \in Msgs : mainQ'[m] = mainQ[m] + Cardinality(Back(m)) /\ mainQ[m] \in Nat
  BY <1>4, <1>6
<1> QED
  BY <1>1, <1>3, <1>7, <1>8

\* The breaker's operations yield breakers.
LEMMA BreakerFacts ==
  /\ ClosedBreaker \in Breakers
  /\ \A b \in Breakers : recordFailure(b) \in Breakers
BY ConstantsAssumption DEF ClosedBreaker, Breakers, recordFailure

\* A publish changes counts, whatever it carries.
LEMMA RouteType ==
  ASSUME TypeOK, NEW h \in Handlers, Route(h)
  PROVE  /\ retryQ' \in [Tiers -> [Msgs -> Nat]]
         /\ dlq' \in [Msgs -> Nat]
         /\ statusQ' \in [Events -> Nat]
<1>1. \A t, m : PutTier(t, m) \in [Tiers -> [Msgs -> Nat]]
  <2> TAKE t, m
  <2>1. CASE t \in Tiers
    <3>1. Put(retryQ[t], m) \in [Msgs -> Nat]
      <4>1. retryQ[t] \in [Msgs -> Nat]
        BY <2>1 DEF TypeOK
      <4> QED
        BY <4>1, CountType DEF Put
    <3> QED
      BY <3>1 DEF TypeOK, PutTier
  <2>2. CASE t \notin Tiers
    BY <2>2 DEF TypeOK, PutTier
  <2> QED
    BY <2>1, <2>2
<1>2. retryQ' \in [Tiers -> [Msgs -> Nat]]
  BY <1>1 DEF TypeOK, Route
<1>3. dlq' \in [Msgs -> Nat]
  BY CountType DEF TypeOK, Route, Put
<1>4. \A e : Put(statusQ, e) \in [Events -> Nat]
  BY CountType DEF TypeOK, Put
<1>5. statusQ' \in [Events -> Nat]
  BY <1>4 DEF TypeOK, Route
<1> QED
  BY <1>2, <1>3, <1>5

\* So does a failed query, and a failed call counts against the breaker or not.
LEMMA CountFailureType ==
  ASSUME TypeOK, NEW h \in Handlers, CountFailure(h)
  PROVE  breaker' \in [Workers -> Breakers]
<1>1. breaker \in [Workers -> Breakers]
  BY DEF TypeOK
<1>2. Host(h) \in Workers
  BY HandlerFacts
<1>3. recordFailure(breaker[Host(h)]) \in Breakers
  BY <1>1, <1>2, BreakerFacts
<1> QED
  BY <1>1, <1>2, <1>3 DEF CountFailure

\* The budget of faults is never exceeded.
LEMMA FaultType == \A k : TypeOK /\ Fault(k) => faults' \in 0..MaxFaults
BY ConstantsAssumption DEF TypeOK, Fault

\* Released handlers are idle.
LEMMA ReleaseType ==
  ASSUME TypeOK, NEW hs \in SUBSET Handlers, Release(hs)
  PROVE  /\ pc' \in [Handlers -> Labels] /\ held' \in [Handlers -> BOOLEAN]
         /\ msg' \in [Handlers -> Msgs \cup {NoMsg}]
         /\ \A h \in Handlers : pc'[h] = "idle" <=> msg'[h] = NoMsg
BY DEF TypeOK, Release, Labels

\* The job of a busy handler is a job.
LEMMA BusyJob == TypeOK => \A h \in Handlers : pc[h] # "idle" => msg[h].job \in Jobs
BY BusyFacts, MessageFacts

\* A busy handler that moves to another await stays well typed.
LEMMA GotoType ==
  ASSUME TypeOK, NEW h \in Handlers, pc[h] # "idle",
         NEW l \in Labels \ {"idle"}, Goto(h, l), UNCHANGED <<msg, held>>
  PROVE  /\ pc' \in [Handlers -> Labels] /\ held' \in [Handlers -> BOOLEAN]
         /\ msg' \in [Handlers -> Msgs \cup {NoMsg}]
         /\ \A g \in Handlers : pc'[g] = "idle" <=> msg'[g] = NoMsg
BY DEF TypeOK, Goto

\* A message that is nacked leaves the queue, the handler and the counts well typed.
LEMMA NackType ==
  ASSUME TypeOK, NEW h \in Handlers, Nack(h)
  PROVE  /\ mainQ' \in [Msgs -> Nat] /\ redelivered' \in [Jobs -> Nat]
         /\ pc' \in [Handlers -> Labels] /\ held' \in [Handlers -> BOOLEAN]
         /\ msg' \in [Handlers -> Msgs \cup {NoMsg}]
         /\ \A g \in Handlers : pc'[g] = "idle" <=> msg'[g] = NoMsg
<1>1. Requeue({h}) /\ Release({h}) /\ {h} \in SUBSET Handlers
  BY DEF Nack
<1>2. mainQ' \in [Msgs -> Nat] /\ redelivered' \in [Jobs -> Nat]
  BY <1>1, RequeueFacts
<1> QED
  BY <1>1, <1>2, ReleaseType

\* Every step keeps every variable in its type.
LEMMA TypeStep == TypeOK /\ [Next]_vars => TypeOK'
<1> SUFFICES ASSUME TypeOK, [Next]_vars PROVE TypeOK'
  OBVIOUS
<1>1. ASSUME NEW j \in Jobs, Enqueue(j) PROVE TypeOK'
  BY <1>1, MessageFacts DEF TypeOK, Enqueue, Put, process, handler
<1>2. ASSUME NEW t \in Tiers, NEW m \in Msgs, Expire(t, m) PROVE TypeOK'
  BY <1>2 DEF TypeOK, Expire, Put, Take, process, handler
<1>3. ASSUME NEW h \in Handlers, NEW m \in Msgs, Deliver(h, m) PROVE TypeOK'
  BY <1>3, HandlerFacts DEF TypeOK, Deliver, Take, Goto, process, Labels, PublishLabels
<1>4. ASSUME NEW h \in Handlers, HandlerStep(h) PROVE TypeOK'
  <2>1. CASE RateLimited(h)
    BY <2>1 DEF TypeOK, RateLimited, Acquiring, Goto, queues, Labels, PublishLabels
  <2>2. CASE BreakerOpen(h)
    BY <2>2 DEF TypeOK, BreakerOpen, Acquiring, Goto, queues, Labels, PublishLabels
  <2>3. CASE Admit(h)
    <3>1. breaker' \in [Workers -> Breakers]
      BY <2>3, HandlerFacts DEF TypeOK, Admit, Breakers
    <3>2. pc[h] # "idle" /\ Goto(h, "insert") /\ UNCHANGED <<msg, held>>
      BY <2>3 DEF Admit, Acquiring
    <3>3. "insert" \in Labels \ {"idle"}
      BY DEF Labels, QueryLabels
    <3>4. UNCHANGED <<queues, ledger, worker, channel, submitted, sends, redelivered, orphaned,
                      faults>>
      BY <2>3 DEF Admit, Acquiring
    <3> QED
      BY <3>1, <3>2, <3>3, <3>4, GotoType DEF TypeOK, queues
  <2>4. CASE Insert(h)
    <3>1. ledger' \in [Msgs -> Outcomes]
      BY <2>4 DEF TypeOK, Insert, Outcomes
    <3>2. /\ pc[h] # "idle"
          /\ \E l \in {"completeDead", "send", "select"} : Goto(h, l)
          /\ UNCHANGED <<msg, held>>
      BY <2>4 DEF Insert, Granted
    <3>3. {"completeDead", "send", "select"} \subseteq Labels \ {"idle"}
      BY DEF Labels, QueryLabels, CompleteLabels
    <3>4. UNCHANGED <<queues, process, submitted, sends, redelivered, orphaned, faults>>
      BY <2>4 DEF Insert
    <3> QED
      BY <3>1, <3>2, <3>3, <3>4, GotoType DEF TypeOK, queues, process
  <2>5. CASE Select(h)
    BY <2>5 DEF TypeOK, Select, Granted, Goto, queues, process, Labels, QueryLabels,
                CompleteLabels
  <2>6. CASE SendAccepted(h)
    <3>1. sends' \in [Msgs -> Nat]
      BY <2>6, CountType DEF TypeOK, SendAccepted
    <3>2. breaker' \in [Workers -> Breakers]
      BY <2>6, BreakerFacts DEF TypeOK, SendAccepted
    <3> QED
      BY <2>6, <3>1, <3>2
      DEF TypeOK, SendAccepted, Sending, Goto, queues, Labels, QueryLabels, CompleteLabels
  <2>7. CASE SendTransient(h)
    <3>1. sends' \in [Msgs -> Nat]
      <4>1. PICK n \in {0, 1} : sends' = [sends EXCEPT ![msg[h]] = @ + n]
        BY <2>7 DEF SendTransient
      <4>2. n \in Nat /\ sends \in [Msgs -> Nat]
        BY DEF TypeOK
      <4>3. [sends EXCEPT ![msg[h]] = @ + n] \in [Msgs -> Nat]
        BY <4>2, CountType
      <4> QED
        BY <4>1, <4>3
    <3>2. breaker' \in [Workers -> Breakers]
      BY <2>7, BreakerFacts, HandlerFacts DEF TypeOK, SendTransient
    <3> QED
      BY <2>7, <3>1, <3>2
      DEF TypeOK, SendTransient, Sending, Goto, queues, Labels, QueryLabels, CompleteLabels
  <2>8. CASE SendPermanent(h)
    BY <2>8 DEF TypeOK, SendPermanent, Sending, Goto, queues, Labels, QueryLabels, CompleteLabels
  <2>9. CASE Complete(h)
    BY <2>9 DEF TypeOK, Complete, Goto, queues, process, Labels, PublishLabels, StatusLabels,
                CompleteLabels, AfterComplete, Update, Outcome, Outcomes, Completed
  <2>10. CASE Publish(h)
    BY <2>10, RouteType
    DEF TypeOK, Publish, Goto, AfterPublish, process, Labels, PublishLabels, StatusLabels
  <2>11. CASE Ack(h)
    BY <2>11 DEF TypeOK, Ack, Release, queues, process, Labels
  <2> QED
    BY <1>4, <2>1, <2>2, <2>3, <2>4, <2>5, <2>6, <2>7, <2>8, <2>9, <2>10, <2>11
    DEF HandlerStep
<1>5. ASSUME NEW h \in Handlers, HandlerFault(h) PROVE TypeOK'
  <2>1. CASE AcquireFails(h)
    BY <2>1, RequeueFacts, ReleaseType, FaultType DEF TypeOK, AcquireFails, Nack, process
  <2>2. CASE QueryFails(h)
    <3>1. ledger' \in [Msgs -> Outcomes]
      BY <2>2 DEF TypeOK, QueryFails, Update, Outcome, Outcomes, Completed
    <3>2. pc[h] # "idle" /\ orphaned' \subseteq orphaned \cup {msg[h].job}
      BY <2>2 DEF QueryFails, QueryLabels, CompleteLabels
    <3>3. breaker' \in [Workers -> Breakers]
      BY <2>2, CountFailureType DEF QueryFails
    <3> QED
      <4>1. Nack(h) /\ Fault("call")
        BY <2>2 DEF QueryFails
      <4>2. UNCHANGED <<retryQ, dlq, statusQ, worker, channel, submitted, sends>>
        BY <2>2 DEF QueryFails
      <4>3. orphaned' \subseteq Jobs
        BY <3>2, BusyJob DEF TypeOK
      <4> QED
        BY <3>1, <3>3, <4>1, <4>2, <4>3, NackType, FaultType DEF TypeOK
  <2>3. CASE PublishRejected(h)
    <3>1. /\ retryQ' \in [Tiers -> [Msgs -> Nat]]
          /\ dlq' \in [Msgs -> Nat]
          /\ statusQ' \in [Events -> Nat]
      BY <2>3, RouteType DEF TypeOK, PublishRejected
    <3>2. pc[h] # "idle" /\ orphaned' \subseteq orphaned \cup {msg[h].job}
      BY <2>3 DEF PublishRejected, PublishLabels, StatusLabels
    <3>3. breaker' \in [Workers -> Breakers] /\ faults' \in 0..MaxFaults
      BY <2>3, CountFailureType, FaultType DEF PublishRejected, TypeOK
    <3> QED
      <4>1. Nack(h)
        BY <2>3 DEF PublishRejected
      <4>2. UNCHANGED <<ledger, worker, channel, submitted, sends>>
        BY <2>3 DEF PublishRejected
      <4>3. orphaned' \subseteq Jobs
        BY <3>2, BusyJob DEF TypeOK
      <4> QED
        BY <3>1, <3>3, <4>1, <4>2, <4>3, NackType DEF TypeOK
  <2> QED
    BY <1>5, <2>1, <2>2, <2>3 DEF HandlerFault
<1>6. ASSUME NEW w \in Workers, Terminate(w), UNCHANGED faults \/ Fault("crash") PROVE TypeOK'
  <2>1. orphaned' \subseteq Jobs
    BY <1>6, BusyJob, HandlerFacts DEF TypeOK, Terminate, HandOffLabels
  <2>2. breaker' \in [Workers -> Breakers]
    BY <1>6, BreakerFacts DEF TypeOK, Terminate
  <2>3. faults' \in 0..MaxFaults
    BY <1>6, FaultType DEF TypeOK
  <2> QED
    BY <1>6, <2>1, <2>2, <2>3, RequeueFacts, ReleaseType, HandlerFacts DEF TypeOK, Terminate
<1>7. ASSUME NEW w \in Workers,
             Start(w) \/ Connect(w) \/ Stop(w) \/ Exit(w) \/ ChannelLost(w) \/ Crash(w)
      PROVE  TypeOK'
  <2>1. CASE Start(w)
    BY <2>1 DEF TypeOK, Start, queues, handler
  <2>2. CASE Connect(w)
    BY <2>2 DEF TypeOK, Connect, queues, handler
  <2>3. CASE Stop(w)
    BY <2>3, FaultType DEF TypeOK, Stop, queues, handler
  <2>4. CASE ChannelLost(w)
    BY <2>4, RequeueFacts, HandlerFacts, FaultType DEF TypeOK, ChannelLost
  <2> QED
    BY <1>6, <1>7, <2>1, <2>2, <2>3, <2>4 DEF Exit, Crash
<1>8. CASE UNCHANGED vars
  BY <1>8 DEF TypeOK, vars, queues, process, handler
<1> QED
  BY <1>1, <1>2, <1>3, <1>4, <1>5, <1>7, <1>8 DEF Next, Quiescent

\* The variables have their types before anything has happened.
LEMMA TypeInit == Init => TypeOK
BY ConstantsAssumption DEF Init, TypeOK, Labels, Outcomes, ClosedBreaker, Breakers

\* Every variable keeps its type, in every behaviour of the worker tier.
THEOREM TypeCorrect == Spec => []TypeOK
<1>1. Init => TypeOK
  BY TypeInit
<1>2. TypeOK /\ [Next]_vars => TypeOK'
  BY TypeStep
<1> QED
  BY <1>1, <1>2, PTL DEF Spec

(***************************************************************************)
(* What is recorded stays recorded.                                        *)
(***************************************************************************)
Mono ==
  /\ \A m \in Msgs : sends[m] > 0 => sends'[m] > 0
  /\ \A m \in Msgs : dlq[m] > 0 => dlq'[m] > 0
  /\ \A m \in Msgs : ledger[m] # "NONE" => ledger'[m] # "NONE"
  /\ \A m \in Msgs : ledger[m] \in Completed => ledger'[m] \in Completed
  /\ orphaned \subseteq orphaned'
  /\ submitted \subseteq submitted'

\* A queue that holds a message holds it after anything is added.
LEMMA PutGrows ==
  ASSUME NEW S, NEW q \in [S -> Nat], NEW x, NEW n \in Nat, NEW y \in S, q[y] > 0
  PROVE  [q EXCEPT ![x] = @ + n][y] > 0
<1>1. CASE x = y
  BY <1>1
<1>2. CASE x # y
  BY <1>2
<1> QED
  BY <1>1, <1>2

\* No publish takes a dead letter away.
LEMMA RouteMono ==
  ASSUME TypeOK, NEW h \in Handlers, Route(h)
  PROVE  \A m \in Msgs : dlq[m] > 0 => dlq'[m] > 0
BY PutGrows DEF TypeOK, Route, Put

\* Completing an attempt neither removes a row nor reopens one.
LEMMA UpdateMono ==
  ASSUME TypeOK, NEW n \in Msgs, NEW o \in Completed, ledger' = Update(n, o)
  PROVE  /\ \A m \in Msgs : ledger[m] # "NONE" => ledger'[m] # "NONE"
         /\ \A m \in Msgs : ledger[m] \in Completed => ledger'[m] \in Completed
BY DEF TypeOK, Update, Completed

\* No step takes back a send, a dead letter, a row or its completion.
LEMMA MonoStep == TypeOK /\ [Next]_vars => Mono
<1> SUFFICES ASSUME TypeOK, [Next]_vars PROVE Mono
  OBVIOUS
<1>1. CASE UNCHANGED <<sends, dlq, ledger, orphaned, submitted>>
  BY <1>1 DEF Mono
<1>2. ASSUME NEW j \in Jobs, Enqueue(j) PROVE Mono
  BY <1>2 DEF Mono, Enqueue
<1>3. ASSUME NEW t \in Tiers, NEW m \in Msgs, Expire(t, m) PROVE Mono
  BY <1>3, <1>1 DEF Expire
<1>4. ASSUME NEW h \in Handlers, NEW m \in Msgs, Deliver(h, m) PROVE Mono
  BY <1>4, <1>1 DEF Deliver
<1>5. ASSUME NEW h \in Handlers, HandlerStep(h) PROVE Mono
  <2>1. CASE RateLimited(h) \/ BreakerOpen(h) \/ Admit(h)
    BY <2>1, <1>1 DEF RateLimited, BreakerOpen, Admit, Acquiring, queues
  <2>2. CASE Insert(h)
    BY <2>2 DEF Mono, Insert, TypeOK, Completed, queues
  <2>3. CASE Select(h) \/ SendPermanent(h) \/ Ack(h)
    BY <2>3, <1>1 DEF Select, SendPermanent, Sending, Ack, queues
  <2>4. CASE SendAccepted(h)
    BY <2>4, PutGrows DEF Mono, SendAccepted, Sending, TypeOK, queues
  <2>5. CASE SendTransient(h)
    <3>1. PICK n \in {0, 1} : sends' = [sends EXCEPT ![msg[h]] = @ + n]
      BY <2>5 DEF SendTransient
    <3>2. n \in Nat /\ sends \in [Msgs -> Nat]
      BY DEF TypeOK
    <3> QED
      BY <2>5, <3>1, <3>2, PutGrows DEF Mono, SendTransient, Sending, queues
  <2>6. CASE Complete(h)
    <3>1. msg[h] \in Msgs /\ Outcome(pc[h]) \in Completed
      BY <2>6, BusyFacts DEF Complete, CompleteLabels, Outcome, Completed
    <3> QED
      BY <2>6, <3>1, UpdateMono DEF Mono, Complete, queues
  <2>7. CASE Publish(h)
    BY <2>7, RouteMono DEF Mono, Publish
  <2> QED
    BY <1>5, <2>1, <2>2, <2>3, <2>4, <2>5, <2>6, <2>7 DEF HandlerStep
<1>6. ASSUME NEW h \in Handlers, HandlerFault(h) PROVE Mono
  <2>1. CASE AcquireFails(h)
    BY <2>1, <1>1 DEF AcquireFails
  <2>2. CASE QueryFails(h)
    <3>1. msg[h] \in Msgs /\ Outcome(pc[h]) \in Completed
      BY <2>2, BusyFacts DEF QueryFails, QueryLabels, CompleteLabels, Outcome, Completed
    <3>2. CASE UNCHANGED ledger
      BY <2>2, <3>2 DEF Mono, QueryFails
    <3>3. CASE ledger' = Update(msg[h], Outcome(pc[h]))
      BY <2>2, <3>1, <3>3, UpdateMono DEF Mono, QueryFails
    <3>4. CASE ledger[msg[h]] = "NONE" /\ ledger' = [ledger EXCEPT ![msg[h]] = "PENDING"]
      BY <2>2, <3>4 DEF Mono, QueryFails, TypeOK, Completed
    <3> QED
      BY <2>2, <3>2, <3>3, <3>4 DEF QueryFails
  <2>3. CASE PublishRejected(h)
    BY <2>3, RouteMono DEF Mono, PublishRejected
  <2> QED
    BY <1>6, <2>1, <2>2, <2>3 DEF HandlerFault
<1>7. ASSUME NEW w \in Workers,
             Start(w) \/ Connect(w) \/ Stop(w) \/ Exit(w) \/ ChannelLost(w) \/ Crash(w)
      PROVE  Mono
  <2>1. CASE Start(w) \/ Connect(w) \/ Stop(w) \/ ChannelLost(w)
    BY <2>1, <1>1 DEF Start, Connect, Stop, ChannelLost, queues
  <2>2. CASE Terminate(w)
    BY <2>2 DEF Mono, Terminate
  <2> QED
    BY <1>7, <2>1, <2>2 DEF Exit, Crash
<1>8. CASE UNCHANGED vars
  BY <1>8, <1>1 DEF vars, queues
<1> QED
  BY <1>2, <1>3, <1>4, <1>5, <1>6, <1>7, <1>8 DEF Next, Quiescent

(***************************************************************************)
(* What a handler has done where it is stays done.                         *)
(***************************************************************************)
LEMMA ProgressFrame ==
  ASSUME TypeOK, Mono, NEW h \in Handlers, Progress(h),
         pc'[h] = pc[h], msg'[h] = msg[h], held'[h] => held[h]
  PROVE  Progress(h)'
<1>1. pc[h] = "idle" \/ msg[h] \in Msgs
  BY BusyFacts
<1> QED
  BY <1>1 DEF Progress, Mono, HandOffLabels, StatusLabels, CompleteLabels

\* Releasing handlers leaves the others where they were.
LEMMA ProgressRelease ==
  ASSUME TypeOK, Mono, HandlersProgress, NEW hs \in SUBSET Handlers, Release(hs)
  PROVE  HandlersProgress'
<1> SUFFICES ASSUME NEW h \in Handlers PROVE Progress(h)'
  BY DEF HandlersProgress
<1>1. CASE h \in hs
  BY <1>1 DEF Release, Progress, HandOffLabels, StatusLabels, CompleteLabels
<1>2. CASE h \notin hs
  BY <1>2, ProgressFrame DEF Release, HandlersProgress
<1> QED
  BY <1>1, <1>2

\* A step of one handler that reaches its next label having done what that takes.
LEMMA ProgressGoto ==
  ASSUME TypeOK, Mono, HandlersProgress, NEW h \in Handlers, NEW l, Goto(h, l),
         UNCHANGED <<msg, held>>, Progress(h)'
  PROVE  HandlersProgress'
<1> SUFFICES ASSUME NEW g \in Handlers, g # h PROVE Progress(g)'
  BY DEF HandlersProgress
<1>1. pc'[g] = pc[g]
  BY DEF Goto, TypeOK
<1> QED
  BY <1>1, ProgressFrame DEF HandlersProgress

\* Every step of a handler does what Progress says is done at its next label, and no
\* other step undoes it.
LEMMA ProgressStep == TypeOK /\ HandlersProgress /\ [Next]_vars => HandlersProgress'
<1> SUFFICES ASSUME TypeOK, HandlersProgress, [Next]_vars PROVE HandlersProgress'
  OBVIOUS
<1>m. Mono
  BY MonoStep
<1>f. CASE UNCHANGED <<pc, msg>> /\ \A h \in Handlers : held'[h] => held[h]
  BY <1>f, <1>m, ProgressFrame DEF HandlersProgress
<1>1. ASSUME NEW j \in Jobs, Enqueue(j) PROVE HandlersProgress'
  BY <1>1, <1>f DEF Enqueue, handler
<1>2. ASSUME NEW t \in Tiers, NEW m \in Msgs, Expire(t, m) PROVE HandlersProgress'
  BY <1>2, <1>f DEF Expire, handler
<1>3. ASSUME NEW h \in Handlers, NEW m \in Msgs, Deliver(h, m) PROVE HandlersProgress'
  <2> SUFFICES ASSUME NEW g \in Handlers PROVE Progress(g)'
    BY DEF HandlersProgress
  <2>1. CASE g = h
    BY <1>3, <2>1
    DEF Deliver, Goto, TypeOK, Progress, HandOffLabels, StatusLabels, CompleteLabels
  <2>2. CASE g # h
    BY <1>3, <2>2, <1>m, ProgressFrame DEF Deliver, Goto, TypeOK, HandlersProgress
  <2> QED
    BY <2>1, <2>2
<1>4. ASSUME NEW h \in Handlers, HandlerStep(h) PROVE HandlersProgress'
  <2> USE DEF HandOffLabels, StatusLabels, CompleteLabels, Goto
  <2>p. Progress(h) /\ pc \in [Handlers -> Labels]
    BY DEF HandlersProgress, TypeOK
  <2>1. CASE RateLimited(h)
    <3>1. Progress(h)'
      BY <2>1, <2>p DEF RateLimited, Acquiring, Progress
    <3> QED
      BY <2>1, <3>1, <1>m, ProgressGoto DEF RateLimited, Acquiring
  <2>2. CASE BreakerOpen(h)
    <3>1. Progress(h)'
      BY <2>2, <2>p DEF BreakerOpen, Acquiring, Progress
    <3> QED
      BY <2>2, <3>1, <1>m, ProgressGoto DEF BreakerOpen, Acquiring
  <2>3. CASE Admit(h)
    <3>1. Progress(h)'
      BY <2>3, <2>p DEF Admit, Acquiring, Progress
    <3> QED
      BY <2>3, <3>1, <1>m, ProgressGoto DEF Admit, Acquiring
  <2>4. CASE Insert(h)
    <3>1. msg[h] \in Msgs /\ ledger'[msg[h]] # "NONE"
      BY <2>4, BusyFacts DEF Insert, TypeOK
    <3>2. Progress(h)'
      BY <2>4, <2>p, <3>1 DEF Insert, Granted, Progress
    <3> QED
      BY <2>4, <3>2, <1>m, ProgressGoto DEF Insert, Granted
  <2>5. CASE Select(h)
    <3>1. Progress(h)'
      BY <2>5, <2>p DEF Select, Granted, Progress
    <3> QED
      BY <2>5, <3>1, <1>m, ProgressGoto DEF Select, Granted
  <2>6. CASE SendAccepted(h)
    <3>1. msg[h] \in Msgs /\ sends'[msg[h]] > 0
      BY <2>6, BusyFacts DEF SendAccepted, Sending, TypeOK
    <3>2. Progress(h)'
      BY <2>6, <2>p, <3>1 DEF SendAccepted, Sending, Progress
    <3> QED
      BY <2>6, <3>2, <1>m, ProgressGoto DEF SendAccepted, Sending
  <2>7. CASE SendTransient(h)
    <3>1. Progress(h)'
      BY <2>7, <2>p DEF SendTransient, Sending, Progress
    <3> QED
      BY <2>7, <3>1, <1>m, ProgressGoto DEF SendTransient, Sending
  <2>8. CASE SendPermanent(h)
    <3>1. Progress(h)'
      BY <2>8, <2>p DEF SendPermanent, Sending, Progress
    <3> QED
      BY <2>8, <3>1, <1>m, ProgressGoto DEF SendPermanent, Sending
  <2>9. CASE Complete(h)
    <3>1. msg[h] \in Msgs /\ ledger[msg[h]] # "NONE"
      BY <2>9, <2>p, BusyFacts DEF Complete, Progress
    <3>2. ledger'[msg[h]] \in Completed
      BY <2>9, <3>1 DEF Complete, Update, Outcome, Completed, TypeOK
    <3>3. Progress(h)'
      BY <2>9, <2>p, <3>2 DEF Complete, AfterComplete, Progress, Completed
    <3> QED
      BY <2>9, <3>3, <1>m, ProgressGoto DEF Complete
  <2>10. CASE Publish(h)
    <3>1. msg[h] \in Msgs /\ (pc[h] = "publishDead" => dlq'[msg[h]] > 0)
      BY <2>10, BusyFacts DEF Publish, PublishLabels, Route, Put, TypeOK
    <3>2. Progress(h)'
      BY <2>10, <2>p, <3>1 DEF Publish, AfterPublish, Progress
    <3> QED
      BY <2>10, <3>2, <1>m, ProgressGoto DEF Publish
  <2>11. CASE Ack(h)
    BY <2>11, <1>m, ProgressRelease DEF Ack
  <2> QED
    BY <1>4, <2>1, <2>2, <2>3, <2>4, <2>5, <2>6, <2>7, <2>8, <2>9, <2>10, <2>11
    DEF HandlerStep
<1>5. ASSUME NEW h \in Handlers, HandlerFault(h) PROVE HandlersProgress'
  BY <1>5, <1>m, ProgressRelease
  DEF HandlerFault, AcquireFails, QueryFails, PublishRejected, Nack
<1>6. ASSUME NEW w \in Workers,
             Start(w) \/ Connect(w) \/ Stop(w) \/ Exit(w) \/ ChannelLost(w) \/ Crash(w)
      PROVE  HandlersProgress'
  <2>1. CASE Start(w) \/ Connect(w) \/ Stop(w)
    BY <2>1, <1>f DEF Start, Connect, Stop, handler
  <2>2. CASE ChannelLost(w)
    BY <2>2, <1>f DEF ChannelLost
  <2>3. CASE Terminate(w)
    BY <2>3, <1>m, ProgressRelease, HandlerFacts DEF Terminate
  <2> QED
    BY <1>6, <2>1, <2>2, <2>3 DEF Exit, Crash
<1>7. CASE UNCHANGED vars
  BY <1>7, <1>f DEF vars, handler
<1> QED
  BY <1>1, <1>2, <1>3, <1>4, <1>5, <1>6, <1>7 DEF Next, Quiescent

(***************************************************************************)
(* Where rows, events and copies come from.                                *)
(***************************************************************************)

\* A row changes when it is reserved, or when a handler completes it; a handler
\* that recorded a failure goes on to the hand-off or leaves its job orphaned.
RowStep(m) ==
  \/ ledger'[m] = ledger[m]
  \/ ledger'[m] = "PENDING"
  \/ \E h \in Handlers :
       /\ pc[h] \in CompleteLabels /\ msg[h] = m
       /\ ledger'[m] = Outcome(pc[h])
       /\ \/ pc[h] = "completeDelivered"
          \/ pc'[h] \in HandOffLabels /\ msg'[h] = m
          \/ m.job \in orphaned'

\* A row is opened by its first handler, and completed by one that then hands the job
\* on, has sent its email or is interrupted.
LEMMA RowOrigin == TypeOK /\ [Next]_vars => \A m \in Msgs : RowStep(m)
<1> SUFFICES ASSUME TypeOK, [Next]_vars, NEW m \in Msgs PROVE RowStep(m)
  OBVIOUS
<1>1. CASE UNCHANGED ledger
  BY <1>1 DEF RowStep
<1>2. ASSUME NEW h \in Handlers, Insert(h) PROVE RowStep(m)
  BY <1>2 DEF Insert, RowStep, TypeOK
<1>3. ASSUME NEW h \in Handlers, Complete(h) PROVE RowStep(m)
  BY <1>3
  DEF Complete, Update, Goto, AfterComplete, CompleteLabels, HandOffLabels, RowStep, TypeOK
<1>4. ASSUME NEW h \in Handlers, QueryFails(h) PROVE RowStep(m)
  BY <1>4 DEF QueryFails, Update, RowStep, TypeOK
<1> QED
  BY <1>1, <1>2, <1>3, <1>4
  DEF Next, HandlerStep, HandlerFault, Quiescent, vars, queues,
      Enqueue, Expire, Deliver, RateLimited, BreakerOpen, Admit, Acquiring, Select,
      SendAccepted, SendTransient, SendPermanent, Sending, Publish, Ack,
      AcquireFails, PublishRejected, Start, Connect, Stop, Exit, ChannelLost, Crash, Terminate

\* The row of a job's attempt says DELIVERED only after its email was taken.
LEMMA LedgerTruthfulStep ==
  TypeOK /\ HandlersProgress /\ LedgerTruthful /\ [Next]_vars => LedgerTruthful'
<1> SUFFICES ASSUME TypeOK, HandlersProgress, LedgerTruthful, [Next]_vars,
                    NEW m \in Msgs, ledger'[m] = "DELIVERED"
             PROVE  sends'[m] > 0
  BY DEF LedgerTruthful
<1>1. sends[m] > 0
  <2>1. RowStep(m)
    BY RowOrigin
  <2>2. CASE ledger[m] = "DELIVERED"
    BY <2>2 DEF LedgerTruthful
  <2>3. ASSUME NEW h \in Handlers, msg[h] = m, pc[h] = "completeDelivered" PROVE sends[m] > 0
    BY <2>3 DEF HandlersProgress, Progress
  <2> QED
    BY <2>1, <2>2, <2>3 DEF RowStep, Outcome, CompleteLabels
<1> QED
  BY <1>1, MonoStep DEF Mono

\* Events are published by handlers at a status label.
LEMMA EventOrigin ==
  TypeOK /\ [Next]_vars => \A e \in Events : statusQ'[e] > 0 =>
    \/ statusQ[e] > 0
    \/ \E h \in Handlers : pc[h] \in StatusLabels /\ e = EventOf(h)
<1> SUFFICES ASSUME TypeOK, [Next]_vars, NEW e \in Events, statusQ'[e] > 0
             PROVE  \/ statusQ[e] > 0
                    \/ \E h \in Handlers : pc[h] \in StatusLabels /\ e = EventOf(h)
  OBVIOUS
<1>1. CASE UNCHANGED statusQ
  BY <1>1
<1>2. ASSUME NEW h \in Handlers, Route(h)
      PROVE  statusQ[e] > 0 \/ (pc[h] \in StatusLabels /\ e = EventOf(h))
  BY <1>2 DEF Route, Put, TypeOK
<1> QED
  BY <1>1, <1>2
  DEF Next, HandlerStep, HandlerFault, Quiescent, vars, queues,
      Enqueue, Expire, Deliver, RateLimited, BreakerOpen, Admit, Acquiring, Insert, Select,
      SendAccepted, SendTransient, SendPermanent, Sending, Complete, Publish, Ack,
      AcquireFails, QueryFails, PublishRejected,
      Start, Connect, Stop, Exit, ChannelLost, Crash, Terminate

\* The operand of StatusTruthful for one event.
EventTrue(e) ==
  LET m == [job |-> e.job, attempt |-> e.attempt]
  IN  CASE e.status = "DELIVERED" -> sends[m] > 0
        [] e.status = "DEAD_LETTERED" -> dlq[m] > 0
        [] OTHER -> \E n \in Msgs :
             CanRetry(n) /\ NextAttempt(n) = m /\ ledger[n] \in Completed

\* What an event says stays true.
LEMMA EventTrueStays == TypeOK /\ Mono => \A e \in Events : EventTrue(e) => EventTrue(e)'
<1> SUFFICES ASSUME TypeOK, Mono, NEW e \in Events, EventTrue(e) PROVE EventTrue(e)'
  OBVIOUS
<1>1. [job |-> e.job, attempt |-> e.attempt] \in Msgs
  BY DEF Events, Msgs
<1>2. CASE e.status = "DELIVERED"
  BY <1>1, <1>2 DEF EventTrue, Mono
<1>3. CASE e.status = "DEAD_LETTERED"
  BY <1>1, <1>3 DEF EventTrue, Mono
<1>4. CASE e.status \notin {"DELIVERED", "DEAD_LETTERED"}
  BY <1>1, <1>4 DEF EventTrue, Mono, CanRetry, NextAttempt
<1> QED
  BY <1>2, <1>3, <1>4

\* Every event is published after what it says was done.
LEMMA StatusTruthfulStep ==
  TypeOK /\ HandlersProgress /\ StatusTruthful /\ [Next]_vars => StatusTruthful'
<1> SUFFICES ASSUME TypeOK, HandlersProgress, StatusTruthful, [Next]_vars,
                    NEW e \in Events, statusQ'[e] > 0
             PROVE  EventTrue(e)'
  BY DEF StatusTruthful, EventTrue
<1>1. Mono
  BY MonoStep
<1>2. CASE statusQ[e] > 0
  <2>1. EventTrue(e)
    BY <1>2 DEF StatusTruthful, EventTrue
  <2> QED
    BY <2>1, <1>1, EventTrueStays
<1>3. ASSUME NEW h \in Handlers, pc[h] \in StatusLabels, e = EventOf(h) PROVE EventTrue(e)
  <2>1. msg[h] \in Msgs /\ msg[h] = [job |-> msg[h].job, attempt |-> msg[h].attempt]
    BY <1>3, BusyFacts DEF StatusLabels, Msgs
  <2>2. Progress(h)
    BY DEF HandlersProgress
  <2>3. CASE pc[h] = "statusDelivered"
    BY <1>3, <2>1, <2>2, <2>3 DEF EventTrue, EventOf, StatusOf, Progress
  <2>4. CASE pc[h] = "statusDead"
    BY <1>3, <2>1, <2>2, <2>4 DEF EventTrue, EventOf, StatusOf, Progress
  <2>5. CASE pc[h] = "statusRetry"
    <3>1. CanRetry(msg[h]) /\ ledger[msg[h]] \in Completed
      BY <2>2, <2>5 DEF Progress, StatusLabels
    <3>2. /\ e.status = "RETRY_SCHEDULED"
          /\ [job |-> e.job, attempt |-> e.attempt] = NextAttempt(msg[h])
      BY <1>3, <2>5 DEF EventOf, StatusOf, NextAttempt
    <3> QED
      BY <2>1, <3>1, <3>2 DEF EventTrue
  <2> QED
    BY <1>3, <2>3, <2>4, <2>5 DEF StatusLabels
<1>4. EventTrue(e)
  BY <1>2, <1>3, EventOrigin DEF StatusTruthful, EventTrue
<1> QED
  BY <1>1, <1>4, EventTrueStays

\* A message no one has seen comes from the API or from a retry.
LEMMA TraceOrigin ==
  TypeOK /\ [Next]_vars => \A n \in Msgs : Traced(n)' =>
    \/ Traced(n)
    \/ n.attempt = 0
    \/ \E h \in Handlers : pc[h] = "publishRetry" /\ n = NextAttempt(msg[h])
<1> SUFFICES ASSUME TypeOK, [Next]_vars, NEW n \in Msgs, Traced(n)',
                    ~Traced(n), n.attempt # 0
             PROVE  \E h \in Handlers : pc[h] = "publishRetry" /\ n = NextAttempt(msg[h])
  OBVIOUS
<1>0. /\ ~Queued(n) /\ ledger[n] = "NONE" /\ ~(sends[n] > 0) /\ ~(dlq[n] > 0)
      /\ \A h \in Handlers : msg[h] # n
  BY DEF Traced
<1>f. ASSUME NEW hs \in SUBSET Handlers, Requeue(hs) PROVE ~(mainQ'[n] > 0)
  BY <1>f, <1>0, RequeueFacts DEF Queued
<1>r. ASSUME NEW h \in Handlers, Route(h), pc[h] # "publishRetry" \/ n # NextAttempt(msg[h])
      PROVE  (\A t \in Tiers : ~(retryQ'[t][n] > 0)) /\ ~(dlq'[n] > 0)
  BY <1>r, <1>0 DEF Route, PutTier, Put, Queued, TypeOK
<1>1. ASSUME NEW j \in Jobs, Enqueue(j) PROVE FALSE
  BY <1>0, <1>1 DEF Enqueue, Put, Traced, Queued, handler, TypeOK
<1>2. ASSUME NEW t \in Tiers, NEW m \in Msgs, Expire(t, m) PROVE FALSE
  BY <1>0, <1>2 DEF Expire, Put, Take, Traced, Queued, handler, TypeOK
<1>3. ASSUME NEW h \in Handlers, NEW m \in Msgs, Deliver(h, m) PROVE FALSE
  BY <1>0, <1>3 DEF Deliver, Take, Traced, Queued, TypeOK
<1>4. ASSUME NEW h \in Handlers, HandlerStep(h), pc[h] # "publishRetry" \/ n # NextAttempt(msg[h])
      PROVE  FALSE
  <2>1. CASE RateLimited(h) \/ BreakerOpen(h) \/ Admit(h)
    BY <2>1, <1>0 DEF RateLimited, BreakerOpen, Admit, Acquiring, queues, Traced, Queued
  <2>2. CASE Insert(h)
    BY <2>2, <1>0 DEF Insert, queues, Traced, Queued, TypeOK
  <2>3. CASE Select(h) \/ SendPermanent(h)
    BY <2>3, <1>0 DEF Select, SendPermanent, Sending, queues, Traced, Queued
  <2>4. CASE SendAccepted(h)
    BY <2>4, <1>0 DEF SendAccepted, Sending, queues, Traced, Queued, TypeOK
  <2>5. CASE SendTransient(h)
    BY <2>5, <1>0 DEF SendTransient, Sending, queues, Traced, Queued, TypeOK
  <2>6. CASE Complete(h)
    BY <2>6, <1>0 DEF Complete, Update, queues, Traced, Queued, TypeOK
  <2>7. CASE Publish(h)
    BY <2>7, <1>0, <1>4, <1>r DEF Publish, Traced, Queued
  <2>8. CASE Ack(h)
    BY <2>8, <1>0, HandlerFacts DEF Ack, Release, queues, Traced, Queued
  <2> QED
    BY <1>4, <2>1, <2>2, <2>3, <2>4, <2>5, <2>6, <2>7, <2>8 DEF HandlerStep
<1>5. ASSUME NEW h \in Handlers, HandlerFault(h), pc[h] # "publishRetry" \/ n # NextAttempt(msg[h])
      PROVE  FALSE
  <2>1. ~(mainQ'[n] > 0) /\ \A g \in Handlers : msg'[g] # n
    BY <1>5, <1>f, <1>0, HandlerFacts
    DEF HandlerFault, AcquireFails, QueryFails, PublishRejected, Nack, Release
  <2>2. CASE AcquireFails(h)
    BY <2>1, <2>2, <1>0 DEF AcquireFails, Traced, Queued
  <2>3. CASE QueryFails(h)
    <3>1. ledger'[n] = "NONE"
      BY <2>3, <1>0 DEF QueryFails, Update, TypeOK
    <3> QED
      BY <2>1, <2>3, <3>1, <1>0 DEF QueryFails, Traced, Queued
  <2>4. CASE PublishRejected(h)
    BY <2>1, <2>4, <1>0, <1>5, <1>r DEF PublishRejected, Traced, Queued
  <2> QED
    BY <1>5, <2>2, <2>3, <2>4 DEF HandlerFault
<1>6. ASSUME NEW w \in Workers,
             Start(w) \/ Connect(w) \/ Stop(w) \/ Exit(w) \/ ChannelLost(w) \/ Crash(w)
      PROVE  FALSE
  <2>1. CASE Start(w) \/ Connect(w) \/ Stop(w)
    BY <2>1, <1>0 DEF Start, Connect, Stop, queues, handler, Traced, Queued
  <2>2. CASE ChannelLost(w)
    BY <2>2, <1>f, <1>0, HandlerFacts DEF ChannelLost, Traced, Queued
  <2>3. CASE Terminate(w)
    BY <2>3, <1>f, <1>0, HandlerFacts DEF Terminate, Release, Traced, Queued
  <2> QED
    BY <1>6, <2>1, <2>2, <2>3 DEF Exit, Crash
<1>7. CASE UNCHANGED vars
  BY <1>7, <1>0 DEF vars, queues, handler, Traced, Queued
<1> QED
  BY <1>1, <1>2, <1>3, <1>4, <1>5, <1>6, <1>7 DEF Next, Quiescent

\* An attempt leaves its first trace when the one before it hands the job on, which is
\* after that one was completed.
LEMMA AttemptsInOrderStep ==
  TypeOK /\ HandlersProgress /\ AttemptsInOrder /\ [Next]_vars => AttemptsInOrder'
<1> SUFFICES ASSUME TypeOK, HandlersProgress, AttemptsInOrder, [Next]_vars,
                    NEW m \in Msgs, CanRetry(m), Traced(NextAttempt(m))'
             PROVE  ledger'[m] \in Completed
  BY DEF AttemptsInOrder, CanRetry, NextAttempt
<1> DEFINE n == NextAttempt(m)
<1>1. n \in Msgs /\ n.attempt # 0
  BY MessageFacts DEF Msgs, Attempts, NextAttempt
<1>2. ASSUME NEW h \in Handlers, pc[h] = "publishRetry", n = NextAttempt(msg[h])
      PROVE  ledger[m] \in Completed
  <2>1. msg[h] \in Msgs
    BY <1>2, BusyFacts
  <2>2. msg[h] = m
    BY <1>2, <2>1 DEF NextAttempt, Msgs, Attempts
  <2> QED
    BY <1>2, <2>2 DEF HandlersProgress, Progress, HandOffLabels
<1>3. ledger[m] \in Completed
  BY <1>1, <1>2, TraceOrigin DEF AttemptsInOrder
<1> QED
  BY <1>3, MonoStep DEF Mono

(***************************************************************************)
(* Whatever answers for a job is replaced by something at least as late.   *)
(***************************************************************************)

\* What a publish puts somewhere is there, and nothing leaves a retry tier.
LEMMA RouteDelivers ==
  ASSUME TypeOK, NEW h \in Handlers, NEW m \in Msgs, msg[h] = m, Progress(h), Route(h)
  PROVE  /\ pc[h] \in {"deferRate", "deferBreaker"} => Queued(m)'
         /\ pc[h] = "publishRetry" => CanRetry(m) /\ Queued(NextAttempt(m))'
         /\ pc[h] \in {"malformed", "publishDead"} => dlq'[m] > 0
         /\ \A t \in Tiers, n \in Msgs : retryQ[t][n] > 0 => retryQ'[t][n] > 0
<1>1. ASSUME NEW t \in Tiers, NEW n \in Msgs, retryQ' = PutTier(t, n)
      PROVE  Queued(n)'
  <2>1. retryQ'[t][n] > 0
    BY <1>1 DEF PutTier, Put, TypeOK
  <2> QED
    BY <2>1 DEF Queued
<1>2. pc[h] \in {"deferRate", "deferBreaker"} => Queued(m)'
  BY <1>1, MessageFacts DEF Route
<1>3. pc[h] = "publishRetry" => CanRetry(m)
  BY DEF Progress
<1>4. pc[h] = "publishRetry" => Queued(NextAttempt(m))'
  <2> SUFFICES ASSUME pc[h] = "publishRetry" PROVE Queued(NextAttempt(m))'
    OBVIOUS
  <2>1. NextAttempt(m) \in Msgs /\ NextAttempt(m).attempt \in Tiers
    BY <1>3, MessageFacts
  <2>2. retryQ' = PutTier(NextAttempt(m).attempt, NextAttempt(m))
    BY DEF Route
  <2> QED
    BY <1>1, <2>1, <2>2
<1>5. pc[h] \in {"malformed", "publishDead"} => dlq'[m] > 0
  BY DEF Route, Put, TypeOK
<1>6. ASSUME NEW t \in Tiers, NEW n \in Msgs, retryQ[t][n] > 0 PROVE retryQ'[t][n] > 0
  <2>1. ASSUME NEW u, NEW x PROVE PutTier(u, x)[t][n] > 0
    BY <1>6 DEF PutTier, Put, TypeOK
  <2> QED
    BY <2>1, <1>6 DEF Route
<1> QED
  BY <1>2, <1>3, <1>4, <1>5, <1>6

\* A handler's step leaves the others where they are.
LEMMA OtherHandlers ==
  ASSUME TypeOK, NEW g \in Handlers, HandlerStep(g) \/ HandlerFault(g), NEW h \in Handlers, h # g
  PROVE  pc'[h] = pc[h] /\ msg'[h] = msg[h] /\ held'[h] = held[h]
<1>1. CASE \E l : Goto(g, l) /\ UNCHANGED <<msg, held>>
  BY <1>1 DEF TypeOK, Goto
<1>2. CASE Release({g})
  BY <1>2 DEF TypeOK, Release
<1>3. CASE HandlerFault(g)
  BY <1>2, <1>3 DEF HandlerFault, AcquireFails, QueryFails, PublishRejected, Nack
<1>4. CASE RateLimited(g) \/ BreakerOpen(g) \/ Admit(g) \/ Insert(g) \/ Select(g)
  BY <1>1, <1>4 DEF RateLimited, BreakerOpen, Admit, Acquiring, Insert, Select, Granted
<1>5. CASE SendAccepted(g) \/ SendTransient(g) \/ SendPermanent(g)
  BY <1>1, <1>5 DEF SendAccepted, SendTransient, SendPermanent, Sending
<1>6. CASE Complete(g) \/ Publish(g)
  BY <1>1, <1>6 DEF Complete, Publish
<1>7. CASE Ack(g)
  BY <1>2, <1>7 DEF Ack
<1> QED
  BY <1>3, <1>4, <1>5, <1>6, <1>7 DEF HandlerStep

\* A queued message stays queued or is delivered to a handler.
LEMMA QueuedStep ==
  TypeOK /\ HandlersProgress /\ [Next]_vars =>
    \A m \in Msgs : Queued(m) => Present(m)'
<1> SUFFICES ASSUME TypeOK, HandlersProgress, [Next]_vars, NEW m \in Msgs, Queued(m)
             PROVE  Present(m)'
  OBVIOUS
<1>n. mainQ[m] \in Nat /\ mainQ'[m] \in Nat
  BY TypeStep DEF TypeOK
<1>q. CASE Queued(m)'
  BY <1>q DEF Present
<1>u. CASE UNCHANGED <<mainQ, retryQ>>
  BY <1>u, <1>q DEF Queued
<1>r. ASSUME NEW hs \in SUBSET Handlers, Requeue(hs) PROVE mainQ'[m] >= mainQ[m]
  BY <1>r, RequeueFacts
<1>t. ASSUME mainQ'[m] >= mainQ[m], retryQ' = retryQ PROVE Queued(m)'
  BY <1>t, <1>n DEF Queued
<1>1. ASSUME NEW j \in Jobs, Enqueue(j) PROVE Present(m)'
  <2>1. mainQ'[m] >= mainQ[m]
    BY <1>1 DEF Enqueue, Put, TypeOK
  <2> QED
    BY <1>1, <2>1, <1>t, <1>q DEF Enqueue
<1>2. ASSUME NEW t \in Tiers, NEW n \in Msgs, Expire(t, n) PROVE Present(m)'
  <2>1. CASE n = m
    BY <1>2, <2>1, <1>q DEF Expire, Put, Queued, TypeOK
  <2>2. CASE n # m
    BY <1>2, <2>2, <1>q DEF Expire, Put, Take, Queued, TypeOK
  <2> QED
    BY <2>1, <2>2
<1>3. ASSUME NEW h \in Handlers, NEW n \in Msgs, Deliver(h, n) PROVE Present(m)'
  <2>1. CASE n = m
    <3>1. held'[h] /\ msg'[h] = m /\ pc'[h] \in WorkingLabels
      BY <1>3, <2>1 DEF Deliver, Goto, TypeOK, WorkingLabels
    <3> QED
      BY <3>1 DEF Present, Held
  <2>2. CASE n # m
    BY <1>3, <2>2, <1>q DEF Deliver, Take, Queued, TypeOK
  <2> QED
    BY <2>1, <2>2
<1>4. ASSUME NEW h \in Handlers, Route(h), pc[h] # "idle", mainQ'[m] >= mainQ[m] PROVE Queued(m)'
  <2>1. \A t \in Tiers : retryQ[t][m] > 0 => retryQ'[t][m] > 0
    BY <1>4, RouteDelivers, BusyFacts DEF HandlersProgress
  <2> QED
    BY <1>4, <2>1, <1>n DEF Queued
<1>5. ASSUME NEW h \in Handlers, HandlerStep(h) PROVE Present(m)'
  <2>1. CASE Publish(h)
    <3>1. mainQ'[m] >= mainQ[m]
      BY <2>1 DEF Publish, TypeOK
    <3>2. pc[h] # "idle" /\ Route(h)
      BY <2>1 DEF Publish, PublishLabels, StatusLabels
    <3> QED
      BY <3>1, <3>2, <1>4, <1>q
  <2>2. CASE ~Publish(h)
    BY <1>5, <2>2, <1>u
    DEF HandlerStep, queues, RateLimited, BreakerOpen, Admit, Acquiring, Insert, Select,
        SendAccepted, SendTransient, SendPermanent, Sending, Complete, Ack
  <2> QED
    BY <2>1, <2>2
<1>6. ASSUME NEW h \in Handlers, HandlerFault(h) PROVE Present(m)'
  <2>1. mainQ'[m] >= mainQ[m]
    BY <1>6, <1>r DEF HandlerFault, AcquireFails, QueryFails, PublishRejected, Nack
  <2>2. CASE PublishRejected(h)
    <3>1. pc[h] # "idle"
      BY <2>2 DEF PublishRejected, PublishLabels, StatusLabels
    <3> QED
      BY <2>1, <2>2, <3>1, <1>4, <1>t, <1>q DEF PublishRejected
  <2>3. CASE ~PublishRejected(h)
    BY <1>6, <2>1, <2>3, <1>t, <1>q DEF HandlerFault, AcquireFails, QueryFails
  <2> QED
    BY <2>2, <2>3
<1>7. ASSUME NEW w \in Workers,
             Start(w) \/ Connect(w) \/ Stop(w) \/ Exit(w) \/ ChannelLost(w) \/ Crash(w)
      PROVE  Present(m)'
  <2>1. CASE Start(w) \/ Connect(w) \/ Stop(w)
    BY <2>1, <1>u DEF Start, Connect, Stop, queues
  <2>2. CASE ChannelLost(w)
    BY <2>2, <1>r, <1>t, <1>q, HandlerFacts DEF ChannelLost
  <2>3. CASE Terminate(w)
    BY <2>3, <1>r, <1>t, <1>q, HandlerFacts DEF Terminate
  <2> QED
    BY <1>7, <2>1, <2>2, <2>3 DEF Exit, Crash
<1>8. CASE UNCHANGED vars
  BY <1>8, <1>u DEF vars, queues
<1> QED
  BY <1>1, <1>2, <1>3, <1>5, <1>6, <1>7, <1>8 DEF Next, Quiescent

\* A held message is kept, taken back, handed off or settled, unless its handler
\* finds the row completed.
Answered(m) == Settled(m.job) \/ Present(m) \/ HandedOff(m)

\* What is enough for a message to be answered for.
LEMMA AnsweredBy ==
  \A m \in Msgs :
    /\ sends'[m] > 0 \/ dlq'[m] > 0 \/ m.job \in orphaned' \/ Queued(m)' => Answered(m)'
    /\ \A h \in Handlers : msg'[h] = m /\ pc'[h] \in WorkingLabels /\ held'[h] => Answered(m)'
    /\ \A h \in Handlers : msg'[h] = m /\ pc'[h] \in HandOffLabels => Answered(m)'
BY DEF Answered, Settled, Accepted, DeadLettered, Present, HandedOff, Held

\* Every step of a handler keeps its message, hands it on, settles it or returns it to
\* the broker; only a duplicate is dropped, and its row is completed.
LEMMA HeldStep ==
  TypeOK /\ HandlersProgress /\ [Next]_vars =>
    \A h \in Handlers, m \in Msgs : Held(h) /\ msg[h] = m =>
      Answered(m)' \/ (Select(h) /\ ledger[m] # "PENDING")
<1> SUFFICES ASSUME TypeOK, HandlersProgress, [Next]_vars,
                    NEW h \in Handlers, NEW m \in Msgs, Held(h), msg[h] = m,
                    ~(Select(h) /\ ledger[m] # "PENDING")
             PROVE  Answered(m)'
  OBVIOUS
<1>h. held[h] /\ pc[h] \in WorkingLabels
  BY DEF Held
<1>k. CASE pc'[h] = pc[h] /\ msg'[h] = m /\ held'[h]
  BY <1>k, <1>h, AnsweredBy
<1>r. ASSUME NEW hs \in SUBSET Handlers, h \in hs, Requeue(hs) PROVE Answered(m)'
  <2>1. mainQ'[m] > 0
    BY <1>r, <1>h, RequeueFacts
  <2> QED
    BY <2>1, AnsweredBy DEF Queued
<1>w. ASSUME pc'[h] \in WorkingLabels \cup HandOffLabels, UNCHANGED <<msg, held>>
      PROVE  Answered(m)'
  BY <1>w, <1>h, AnsweredBy
<1>1. ASSUME NEW j \in Jobs, Enqueue(j) PROVE Answered(m)'
  BY <1>1, <1>h, <1>k DEF Enqueue, handler
<1>2. ASSUME NEW t \in Tiers, NEW n \in Msgs, Expire(t, n) PROVE Answered(m)'
  BY <1>2, <1>h, <1>k DEF Expire, handler
<1>3. ASSUME NEW g \in Handlers, NEW n \in Msgs, Deliver(g, n) PROVE Answered(m)'
  BY <1>3, <1>h, <1>k DEF Deliver, Goto, TypeOK, WorkingLabels
<1>4. ASSUME NEW g \in Handlers, g # h, HandlerStep(g) \/ HandlerFault(g) PROVE Answered(m)'
  BY <1>4, <1>h, <1>k, OtherHandlers
<1>5. ASSUME HandlerStep(h) PROVE Answered(m)'
  <2> USE DEF Goto
  <2>p. pc \in [Handlers -> Labels]
    BY DEF TypeOK
  <2>1. CASE RateLimited(h) \/ BreakerOpen(h) \/ Admit(h)
    BY <2>1, <2>p, <1>w DEF RateLimited, BreakerOpen, Admit, Acquiring, WorkingLabels
  <2>2. CASE Insert(h)
    BY <2>2, <2>p, <1>w DEF Insert, Granted, WorkingLabels
  <2>3. CASE Select(h)
    BY <2>3, <2>p, <1>w DEF Select, Granted, WorkingLabels
  <2>4. CASE SendAccepted(h)
    <3>1. sends'[m] > 0
      BY <2>4 DEF SendAccepted, TypeOK
    <3> QED
      BY <3>1, AnsweredBy
  <2>5. CASE SendTransient(h) \/ SendPermanent(h)
    BY <2>5, <2>p, <1>w DEF SendTransient, SendPermanent, Sending, WorkingLabels
  <2>6. CASE Complete(h)
    BY <2>6, <2>p, <1>h, <1>w
    DEF Complete, AfterComplete, CompleteLabels, WorkingLabels, HandOffLabels
  <2>7. CASE Publish(h)
    <3>1. pc[h] \in {"deferRate", "deferBreaker", "malformed"}
      BY <2>7, <1>h DEF Publish, PublishLabels, StatusLabels, WorkingLabels
    <3>2. Queued(m)' \/ dlq'[m] > 0
      BY <2>7, <3>1, RouteDelivers DEF Publish, HandlersProgress
    <3> QED
      BY <3>2, AnsweredBy
  <2>8. CASE Ack(h)
    BY <2>8, <1>h DEF Ack, WorkingLabels
  <2> QED
    BY <1>5, <2>1, <2>2, <2>3, <2>4, <2>5, <2>6, <2>7, <2>8 DEF HandlerStep
<1>6. ASSUME HandlerFault(h) PROVE Answered(m)'
  BY <1>6, <1>r DEF HandlerFault, AcquireFails, QueryFails, PublishRejected, Nack
<1>7. ASSUME NEW w \in Workers,
             Start(w) \/ Connect(w) \/ Stop(w) \/ Exit(w) \/ ChannelLost(w) \/ Crash(w)
      PROVE  Answered(m)'
  <2>1. CASE Start(w) \/ Connect(w) \/ Stop(w)
    BY <2>1, <1>h, <1>k DEF Start, Connect, Stop, handler
  <2>2. CASE ChannelLost(w)
    BY <2>2, <1>h, <1>k, <1>r, HandlerFacts DEF ChannelLost
  <2>3. CASE Terminate(w)
    BY <2>3, <1>h, <1>k, <1>r, HandlerFacts DEF Terminate, Release
  <2> QED
    BY <1>7, <2>1, <2>2, <2>3 DEF Exit, Crash
<1>8. CASE UNCHANGED vars
  BY <1>8, <1>h, <1>k DEF vars, handler
<1> QED
  BY <1>1, <1>2, <1>3, <1>4, <1>5, <1>6, <1>7, <1>8 DEF Next, Quiescent

\* A hand-off goes on, ends with the next attempt queued or the job settled, or
\* leaves the job orphaned.
Kept(m) == Settled(m.job) \/ HandedOff(m)

\* What is enough for a hand-off to be kept.
LEMMA KeptBy ==
  \A m \in Msgs :
    /\ dlq'[m] > 0 \/ m.job \in orphaned' => Kept(m)'
    /\ \A h \in Handlers : msg'[h] = m /\ pc'[h] \in HandOffLabels => Kept(m)'
BY DEF Kept, Settled, DeadLettered, HandedOff

\* A hand-off ends with the next attempt in a retry tier, a dead letter or an orphan.
LEMMA HandOffStep ==
  TypeOK /\ HandlersProgress /\ [Next]_vars =>
    \A m \in Msgs : HandedOff(m) =>
      Kept(m)' \/ (CanRetry(m) /\ Queued(NextAttempt(m))')
<1> SUFFICES ASSUME TypeOK, HandlersProgress, [Next]_vars, NEW m \in Msgs,
                    NEW h \in Handlers, pc[h] \in HandOffLabels, msg[h] = m
             PROVE  Kept(m)' \/ (CanRetry(m) /\ Queued(NextAttempt(m))')
  BY DEF HandedOff
<1>k. ASSUME pc'[h] = pc[h], msg'[h] = m PROVE Kept(m)'
  BY <1>k, KeptBy
<1>o. ASSUME m.job \in orphaned' PROVE Kept(m)'
  BY <1>o, KeptBy
<1>t. ASSUME Route(h) PROVE Kept(m)' \/ (CanRetry(m) /\ Queued(NextAttempt(m))')
  BY <1>t, RouteDelivers, KeptBy DEF HandlersProgress, HandOffLabels
<1>1. ASSUME NEW j \in Jobs, Enqueue(j) PROVE Kept(m)'
  BY <1>1, <1>k DEF Enqueue, handler
<1>2. ASSUME NEW t \in Tiers, NEW n \in Msgs, Expire(t, n) PROVE Kept(m)'
  BY <1>2, <1>k DEF Expire, handler
<1>3. ASSUME NEW g \in Handlers, NEW n \in Msgs, Deliver(g, n) PROVE Kept(m)'
  BY <1>3, <1>k DEF Deliver, Goto, TypeOK, HandOffLabels
<1>4. ASSUME NEW g \in Handlers, g # h, HandlerStep(g) \/ HandlerFault(g) PROVE Kept(m)'
  BY <1>4, <1>k, OtherHandlers
<1>5. ASSUME HandlerStep(h) PROVE Route(h)
  BY <1>5
  DEF HandlerStep, HandOffLabels, RateLimited, BreakerOpen, Admit, Acquiring, Insert, Select,
      SendAccepted, SendTransient, SendPermanent, Sending, Complete, CompleteLabels, Publish, Ack
<1>6. ASSUME HandlerFault(h) PROVE Route(h) \/ m.job \in orphaned'
  BY <1>6
  DEF HandlerFault, HandOffLabels, AcquireFails, QueryFails, QueryLabels, CompleteLabels,
      PublishRejected
<1>7. ASSUME NEW w \in Workers,
             Start(w) \/ Connect(w) \/ Stop(w) \/ Exit(w) \/ ChannelLost(w) \/ Crash(w)
      PROVE  Kept(m)'
  <2>1. CASE Start(w) \/ Connect(w) \/ Stop(w) \/ ChannelLost(w)
    BY <2>1, <1>k DEF Start, Connect, Stop, ChannelLost, handler
  <2>2. CASE Terminate(w)
    <3>1. CASE h \in HandlersOf(w)
      BY <2>2, <3>1, <1>o DEF Terminate
    <3>2. CASE h \notin HandlersOf(w)
      BY <2>2, <3>2, <1>k DEF Terminate, Release
    <3> QED
      BY <3>1, <3>2
  <2> QED
    BY <1>7, <2>1, <2>2 DEF Exit, Crash
<1>8. CASE UNCHANGED vars
  BY <1>8, <1>k DEF vars, handler
<1> QED
  BY <1>o, <1>t, <1>1, <1>2, <1>3, <1>4, <1>5, <1>6, <1>7, <1>8 DEF Next, Quiescent

(***************************************************************************)
(* NeverStranded is inductive.                                             *)
(***************************************************************************)
\* A step answers for what the messages and hand-offs before it answered for.
LEMMA BeyondStep ==
  ASSUME TypeOK, HandlersProgress, LedgerTruthful, NeverStranded, [Next]_vars,
         NEW j \in Jobs, NEW a \in Int, Beyond(j, a)
  PROVE  Beyond(j, a)'
<1>s. ASSUME Settled(j) PROVE Settled(j)'
  BY <1>s, MonoStep DEF Settled, Accepted, DeadLettered, Mono
<1>a. \A m \in Msgs : m.attempt \in Int
  BY ConstantsAssumption DEF Msgs, Attempts
<1>1. ASSUME NEW m \in Msgs, m.job = j, m.attempt > a, Answered(m)' PROVE Beyond(j, a)'
  BY <1>1 DEF Answered, Beyond, Msgs, Attempts
<1>2. ASSUME NEW m \in Msgs, m.job = j, m.attempt >= a, HandedOff(m) PROVE Beyond(j, a)'
  <2>1. CASE Kept(m)'
    BY <1>2, <2>1, <1>a DEF Kept, Beyond
  <2>2. CASE CanRetry(m) /\ Queued(NextAttempt(m))'
    <3>1. /\ NextAttempt(m) \in Msgs /\ NextAttempt(m).job = j
          /\ NextAttempt(m).attempt > a
      BY <1>2, <2>2, <1>a, MessageFacts
    <3> QED
      BY <2>2, <3>1 DEF Beyond, Present
  <2> QED
    BY <1>2, <2>1, <2>2, HandOffStep
<1>3. ASSUME NEW m \in Msgs, m.job = j, m.attempt > a, Present(m),
             ~ \E h \in Handlers : Select(h) /\ msg[h] = m /\ ledger[m] # "PENDING"
      PROVE  Beyond(j, a)'
  <2>1. Answered(m)'
    <3>1. CASE Queued(m)
      BY <3>1, QueuedStep DEF Answered
    <3>2. CASE ~Queued(m)
      BY <1>3, <3>2, HeldStep DEF Present
    <3> QED
      BY <3>1, <3>2
  <2> QED
    BY <1>1, <1>3, <2>1
<1>4. ASSUME NEW m \in Msgs, m.job = j, m.attempt > a,
             NEW h \in Handlers, Select(h), msg[h] = m, ledger[m] # "PENDING"
      PROVE  Beyond(j, a)'
  <2>1. ledger[m] \in Completed
    BY <1>4 DEF HandlersProgress, Progress, Select, TypeOK, Outcomes
  <2>2. CASE ledger[m] = "DELIVERED"
    <3>1. Settled(j)
      BY <1>4, <2>2 DEF LedgerTruthful, Settled, Accepted
    <3> QED
      BY <3>1, <1>s DEF Beyond
  <2>3. CASE ledger[m] = "FAILED"
    <3>1. Beyond(j, m.attempt)
      BY <1>4, <2>3 DEF NeverStranded
    <3>2. ASSUME NEW n \in Msgs, n.job = j, n.attempt > m.attempt, Present(n)
          PROVE  Beyond(j, a)'
      <4>1. ASSUME NEW g \in Handlers, Select(g), msg[g] = n PROVE FALSE
        <5>1. g # h
          BY <4>1, <1>4, <3>2, <1>a
        <5>2. pc[g] = "select" /\ pc'[g] # "select"
          BY <4>1 DEF Select, Granted, Goto, TypeOK
        <5> QED
          BY <5>1, <5>2, <1>4 DEF Select, Granted, Goto, TypeOK
      <4>2. n.attempt > a
        BY <3>2, <1>4, <1>a
      <4> QED
        BY <3>2, <4>1, <4>2, <1>3
    <3>3. ASSUME NEW n \in Msgs, n.job = j, n.attempt >= m.attempt, HandedOff(n)
          PROVE  Beyond(j, a)'
      <4>1. n.attempt >= a
        BY <3>3, <1>4, <1>a
      <4> QED
        BY <3>3, <4>1, <1>2
    <3>4. ASSUME Settled(j) PROVE Beyond(j, a)'
      BY <3>4, <1>s DEF Beyond
    <3> QED
      BY <3>1, <3>2, <3>3, <3>4 DEF Beyond
  <2> QED
    BY <2>1, <2>2, <2>3 DEF Completed
<1>5. ASSUME Settled(j) PROVE Beyond(j, a)'
  BY <1>5, <1>s DEF Beyond
<1> QED
  BY <1>2, <1>3, <1>4, <1>5 DEF Beyond

\* The custody of every job is passed on: a duplicate may be dropped because the row it
\* finds completed is itself answered for.
LEMMA NeverStrandedStep ==
  TypeOK /\ HandlersProgress /\ LedgerTruthful /\ NeverStranded /\ [Next]_vars => NeverStranded'
<1> SUFFICES ASSUME TypeOK, HandlersProgress, LedgerTruthful, NeverStranded, [Next]_vars
             PROVE  NeverStranded'
  OBVIOUS
<1>1. ASSUME NEW j \in submitted' PROVE Beyond(j, -1)'
  <2>1. CASE j \in submitted
    BY <2>1, BeyondStep DEF NeverStranded, TypeOK
  <2>2. CASE j \notin submitted
    <3>1. j \in Jobs /\ Enqueue(j)
      BY <1>1, <2>2
      DEF Next, HandlerStep, HandlerFault, Quiescent, vars,
          Enqueue, Expire, Deliver, RateLimited, BreakerOpen, Admit, Acquiring, Insert, Select,
          SendAccepted, SendTransient, SendPermanent, Sending, Complete, Publish, Ack,
          AcquireFails, QueryFails, PublishRejected,
          Start, Connect, Stop, Exit, ChannelLost, Crash, Terminate
    <3>2. [job |-> j, attempt |-> 0] \in Msgs /\ mainQ'[[job |-> j, attempt |-> 0]] > 0
      BY <3>1, MessageFacts DEF Enqueue, Put, TypeOK
    <3> QED
      BY <3>2 DEF Beyond, Present, Queued
  <2> QED
    BY <2>1, <2>2
<1>2. ASSUME NEW m \in Msgs, ledger'[m] = "FAILED" PROVE Beyond(m.job, m.attempt)'
  <2>a. m.job \in Jobs /\ m.attempt \in Int
    BY MessageFacts, ConstantsAssumption DEF Attempts
  <2>1. CASE ledger[m] = "FAILED"
    <3>1. Beyond(m.job, m.attempt)
      BY <2>1 DEF NeverStranded
    <3> QED
      BY <2>a, <3>1, BeyondStep
  <2>2. ASSUME NEW h \in Handlers, pc'[h] \in HandOffLabels, msg'[h] = m
        PROVE  Beyond(m.job, m.attempt)'
    BY <2>2, <2>a DEF Beyond, HandedOff
  <2>3. ASSUME m.job \in orphaned' PROVE Beyond(m.job, m.attempt)'
    BY <2>3 DEF Beyond, Settled
  <2> QED
    BY <1>2, <2>1, <2>2, <2>3, RowOrigin DEF RowStep, Outcome
<1> QED
  BY <1>1, <1>2 DEF NeverStranded

(***************************************************************************)
(* The theorems.                                                           *)
(***************************************************************************)
LEMMA InvariantInit == Init => IInv
<1> SUFFICES ASSUME Init PROVE IInv
  OBVIOUS
<1>1. TypeOK
  BY TypeInit
<1>2. HandlersProgress
  BY DEF Init, HandlersProgress, Progress, HandOffLabels, StatusLabels, CompleteLabels
<1>3. LedgerTruthful /\ StatusTruthful
  BY DEF Init, LedgerTruthful, StatusTruthful
<1>4. \A m \in Msgs : ~Traced(m)
  BY HandlerFacts DEF Init, Traced, Queued
<1>5. AttemptsInOrder
  BY <1>4, MessageFacts DEF AttemptsInOrder
<1>6. NeverStranded
  BY DEF Init, NeverStranded
<1> QED
  BY <1>1, <1>2, <1>3, <1>5, <1>6 DEF IInv

\* The conjuncts of the invariant hold in every reachable state.
THEOREM Invariant == Spec => []IInv
<1>1. IInv /\ [Next]_vars => IInv'
  BY TypeStep, ProgressStep, LedgerTruthfulStep, StatusTruthfulStep, AttemptsInOrderStep,
     NeverStrandedStep
  DEF IInv
<1> QED
  BY InvariantInit, <1>1, PTL DEF Spec

\* No published job is dropped, but for a hand-off interrupted after its attempt
\* was recorded as FAILED: with any number of workers, slots, retries and faults.
THEOREM NoJobIsDropped == Spec => []NoSilentLoss
<1>1. IInv => NoSilentLoss
  <2> SUFFICES ASSUME IInv, NEW j \in submitted PROVE InCustody(j) \/ Settled(j)
    BY DEF NoSilentLoss
  <2>1. Beyond(j, -1) /\ TypeOK
    BY DEF IInv, NeverStranded
  <2>2. ASSUME NEW m \in Msgs, m.job = j, Present(m) PROVE InCustody(j)
    BY <2>1, <2>2, HandlerFacts DEF Present, Held, InCustody
  <2>3. ASSUME NEW m \in Msgs, m.job = j, HandedOff(m) PROVE InCustody(j)
    BY <2>1, <2>3, HandlerFacts DEF HandedOff, InCustody
  <2> QED
    BY <2>1, <2>2, <2>3 DEF Beyond
<1> QED
  BY Invariant, <1>1, PTL

\* A DELIVERED row is of an attempt whose email the provider took.
THEOREM LedgerIsTruthful == Spec => []LedgerTruthful
<1>1. IInv => LedgerTruthful
  BY DEF IInv
<1> QED
  BY Invariant, <1>1, PTL

\* What a status event tells the API is so.
THEOREM StatusIsTruthful == Spec => []StatusTruthful
<1>1. IInv => StatusTruthful
  BY DEF IInv
<1> QED
  BY Invariant, <1>1, PTL

\* No attempt starts, or is even scheduled, before the one before it is recorded as
\* completed.
THEOREM AttemptsComeInOrder == Spec => []AttemptsInOrder
<1>1. IInv => AttemptsInOrder
  BY DEF IInv
<1> QED
  BY Invariant, <1>1, PTL

(***************************************************************************)
(* Where custody comes from: nothing but the publication of the job.       *)
(***************************************************************************)
\* The labels of a handler that has neither to dispose of its message nor to hand
\* its job on, and what follows them.
LEMMA RestLabels ==
  ASSUME NEW l \in Labels \ {"idle"}, l \notin WorkingLabels \cup HandOffLabels
  PROVE  l \in {"completeDelivered", "ack"} \cup StatusLabels
BY DEF Labels, WorkingLabels, HandOffLabels, StatusLabels, PublishLabels, QueryLabels, CompleteLabels

\* A publish queues nothing of a job that the publishing handler has no custody of.
LEMMA RouteOrigin ==
  ASSUME TypeOK, NEW h \in Handlers, pc[h] \in PublishLabels, Route(h),
         NEW j \in Jobs, msg[h].job = j => pc[h] \notin WorkingLabels \cup HandOffLabels,
         NEW m \in Msgs, m.job = j, NEW t \in Tiers, retryQ'[t][m] > 0
  PROVE  retryQ[t][m] > 0
<1>1. CASE pc[h] \in {"deferRate", "deferBreaker"}
  <2>1. msg[h] # m
    BY <1>1 DEF WorkingLabels
  <2> QED
    BY <1>1, <2>1 DEF Route, PutTier, Put, TypeOK
<1>2. CASE pc[h] = "publishRetry"
  <2>1. NextAttempt(msg[h]) # m
    BY <1>2 DEF HandOffLabels, NextAttempt
  <2> QED
    BY <1>2, <2>1 DEF Route, PutTier, Put, TypeOK
<1>3. CASE pc[h] \notin {"deferRate", "deferBreaker", "publishRetry"}
  BY <1>3 DEF Route
<1> QED
  BY <1>1, <1>2, <1>3

\* A handler keeps its message or lets it go, and never goes back to work.
LEMMA RestStep ==
  ASSUME TypeOK, NEW h \in Handlers, HandlerStep(h) \/ HandlerFault(h),
         ~held[h], pc[h] \notin WorkingLabels \cup HandOffLabels, msg'[h] # NoMsg
  PROVE  msg'[h] = msg[h] /\ ~held'[h] /\ pc'[h] \notin WorkingLabels \cup HandOffLabels
<1>1. ASSUME NEW l, Goto(h, l), UNCHANGED <<msg, held>>, l \in {"ack", "statusDelivered"}
      PROVE  msg'[h] = msg[h] /\ ~held'[h] /\ pc'[h] \notin WorkingLabels \cup HandOffLabels
  BY <1>1 DEF Goto, TypeOK, WorkingLabels, HandOffLabels
<1>2. CASE Release({h})
  BY <1>2 DEF Release
<1>3. CASE HandlerFault(h)
  BY <1>2, <1>3 DEF HandlerFault, AcquireFails, QueryFails, PublishRejected, Nack
<1>4. pc[h] \notin {"acquire", "insert", "select", "send"}
  BY DEF WorkingLabels
<1>5. CASE HandlerStep(h)
  <2>1. ~(RateLimited(h) \/ BreakerOpen(h) \/ Admit(h) \/ Insert(h) \/ Select(h))
    BY <1>4 DEF RateLimited, BreakerOpen, Admit, Acquiring, Insert, Select
  <2>2. ~(SendAccepted(h) \/ SendTransient(h) \/ SendPermanent(h))
    BY <1>4 DEF SendAccepted, SendTransient, SendPermanent, Sending
  <2>3. CASE Complete(h)
    <3>1. pc[h] = "completeDelivered"
      BY <2>3 DEF Complete, CompleteLabels, WorkingLabels
    <3>2. AfterComplete(pc[h]) = "statusDelivered"
      BY <3>1 DEF AfterComplete
    <3> QED
      BY <1>1, <2>3, <3>2 DEF Complete
  <2>4. CASE Publish(h)
    <3>1. pc[h] \notin {"publishRetry", "publishDead"}
      BY DEF HandOffLabels
    <3>2. AfterPublish(pc[h]) = "ack"
      BY <3>1 DEF AfterPublish
    <3> QED
      BY <1>1, <2>4, <3>2 DEF Publish
  <2>5. CASE Ack(h)
    BY <1>2, <2>5 DEF Ack
  <2> QED
    BY <1>5, <2>1, <2>2, <2>3, <2>4, <2>5 DEF HandlerStep
<1> QED
  BY <1>3, <1>5

LEMMA CustodyOrigin ==
  ASSUME TypeOK, [Next]_vars, NEW j \in Jobs, InCustody(j)'
  PROVE  InCustody(j) \/ Enqueue(j)
<1> SUFFICES ASSUME ~InCustody(j), ~Enqueue(j) PROVE FALSE
  OBVIOUS
<1>0. /\ \A m \in Msgs : m.job = j => ~(mainQ[m] > 0) /\ \A t \in Tiers : ~(retryQ[t][m] > 0)
      /\ \A h \in Handlers : msg[h] # NoMsg /\ msg[h].job = j =>
           ~held[h] /\ pc[h] \notin WorkingLabels \cup HandOffLabels
  BY DEF InCustody, Queued
<1>f. ASSUME NEW hs \in SUBSET Handlers, Requeue(hs)
      PROVE  \A m \in Msgs : m.job = j => ~(mainQ'[m] > 0)
  BY <1>f, <1>0, RequeueFacts, HandlerFacts
<1>q. ASSUME \A m \in Msgs : m.job = j => ~(mainQ'[m] > 0),
             \A m \in Msgs, t \in Tiers : m.job = j => ~(retryQ'[t][m] > 0),
             \A h \in Handlers : msg'[h] # NoMsg /\ msg'[h].job = j =>
               ~held'[h] /\ pc'[h] \notin WorkingLabels \cup HandOffLabels
      PROVE  FALSE
  BY <1>q DEF InCustody, Queued
<1>1. ASSUME NEW i \in Jobs, Enqueue(i) PROVE FALSE
  <2>1. i # j
    BY <1>1
  <2>2. \A m \in Msgs : m.job = j => ~(mainQ'[m] > 0)
    BY <1>0, <1>1, <2>1 DEF Enqueue, Put, TypeOK
  <2> QED
    BY <1>0, <1>1, <1>q, <2>2 DEF Enqueue, handler
<1>2. ASSUME NEW t \in Tiers, NEW n \in Msgs, Expire(t, n) PROVE FALSE
  <2>1. n.job # j
    BY <1>0, <1>2 DEF Expire
  <2>2. /\ \A m \in Msgs : m.job = j => ~(mainQ'[m] > 0)
        /\ \A m \in Msgs, u \in Tiers : m.job = j => ~(retryQ'[u][m] > 0)
    BY <1>0, <1>2, <2>1 DEF Expire, Put, Take, TypeOK
  <2> QED
    BY <1>0, <1>2, <1>q, <2>2 DEF Expire, handler
<1>3. ASSUME NEW h \in Handlers, NEW n \in Msgs, Deliver(h, n) PROVE FALSE
  <2>1. n.job # j
    BY <1>0, <1>3 DEF Deliver
  <2>2. \A m \in Msgs : m.job = j => ~(mainQ'[m] > 0)
    BY <1>0, <1>3, <2>1 DEF Deliver, Take, TypeOK
  <2>3. \A g \in Handlers : msg'[g] # NoMsg /\ msg'[g].job = j =>
          ~held'[g] /\ pc'[g] \notin WorkingLabels \cup HandOffLabels
    BY <1>0, <1>3, <2>1 DEF Deliver, Goto, TypeOK
  <2> QED
    BY <1>0, <1>3, <1>q, <2>2, <2>3 DEF Deliver
<1>4. ASSUME NEW h \in Handlers, HandlerStep(h) \/ HandlerFault(h) PROVE FALSE
  <2>1. \A g \in Handlers : msg'[g] # NoMsg /\ msg'[g].job = j =>
          ~held'[g] /\ pc'[g] \notin WorkingLabels \cup HandOffLabels
    <3> SUFFICES ASSUME NEW g \in Handlers, msg'[g] # NoMsg, msg'[g].job = j
                 PROVE  ~held'[g] /\ pc'[g] \notin WorkingLabels \cup HandOffLabels
      OBVIOUS
    <3>1. CASE g # h
      BY <1>0, <1>4, <3>1, OtherHandlers
    <3>2. CASE g = h
      <4>1. msg'[h] = msg[h]
        BY <1>4, <3>2
        DEF HandlerStep, RateLimited, BreakerOpen, Admit, Acquiring, Insert, Select, SendAccepted,
            SendTransient, SendPermanent, Sending, Complete, Publish, Ack, HandlerFault,
            AcquireFails, QueryFails, PublishRejected, Nack, Release
      <4>2. ~held[h] /\ pc[h] \notin WorkingLabels \cup HandOffLabels
        BY <1>0, <3>2, <4>1
      <4> QED
        BY <1>4, <3>2, <4>2, RestStep
    <3> QED
      BY <3>1, <3>2
  <2>2. pc[h] # "idle" => msg[h] # NoMsg
    BY DEF TypeOK
  <2>3. ASSUME Route(h), pc[h] \in PublishLabels
        PROVE  \A m \in Msgs, t \in Tiers : m.job = j => ~(retryQ'[t][m] > 0)
    <3>1. msg[h].job = j => pc[h] \notin WorkingLabels \cup HandOffLabels
      BY <1>0, <2>2, <2>3 DEF PublishLabels, StatusLabels
    <3> QED
      BY <1>0, <2>3, <3>1, RouteOrigin
  <2>4. \A m \in Msgs, t \in Tiers : m.job = j => ~(retryQ'[t][m] > 0)
    BY <1>0, <1>4, <2>3
    DEF HandlerStep, RateLimited, BreakerOpen, Admit, Acquiring, Insert, Select, SendAccepted,
        SendTransient, SendPermanent, Sending, Complete, Publish, Ack, HandlerFault,
        AcquireFails, QueryFails, PublishRejected, queues
  <2>5. \A m \in Msgs : m.job = j => ~(mainQ'[m] > 0)
    <3>1. CASE HandlerStep(h)
      BY <1>0, <3>1
      DEF HandlerStep, RateLimited, BreakerOpen, Admit, Acquiring, Insert, Select, SendAccepted,
          SendTransient, SendPermanent, Sending, Complete, Publish, Ack, queues
    <3>2. CASE HandlerFault(h)
      <4>1. Requeue({h})
        BY <3>2 DEF HandlerFault, AcquireFails, QueryFails, PublishRejected, Nack
      <4> QED
        BY <4>1, <1>f
    <3> QED
      BY <1>4, <3>1, <3>2
  <2> QED
    BY <1>q, <2>1, <2>4, <2>5
<1>5. ASSUME NEW w \in Workers,
             Start(w) \/ Connect(w) \/ Stop(w) \/ Exit(w) \/ ChannelLost(w) \/ Crash(w)
      PROVE  FALSE
  <2>1. CASE Start(w) \/ Connect(w) \/ Stop(w)
    BY <2>1, <1>0, <1>q DEF Start, Connect, Stop, queues, handler
  <2>2. CASE ChannelLost(w)
    <3>1. \A m \in Msgs : m.job = j => ~(mainQ'[m] > 0)
      BY <1>f, <2>2, HandlerFacts DEF ChannelLost
    <3> QED
      BY <1>0, <1>q, <2>2, <3>1 DEF ChannelLost
  <2>3. CASE Terminate(w)
    <3>1. \A m \in Msgs : m.job = j => ~(mainQ'[m] > 0)
      BY <1>f, <2>3, HandlerFacts DEF Terminate
    <3> QED
      BY <1>0, <1>q, <2>3, <3>1 DEF Terminate, Release
  <2> QED
    BY <1>5, <2>1, <2>2, <2>3 DEF Exit, Crash
<1>6. CASE UNCHANGED vars
  BY <1>6, <1>0, <1>q DEF vars, queues, handler
<1> QED
  BY <1>1, <1>2, <1>3, <1>4, <1>5, <1>6 DEF Next, Quiescent

\* A handler's step leaves the custody of all jobs but that of its message as it was.
LEMMA OtherJobs ==
  ASSUME TypeOK, HandlersProgress, [Next]_vars,
         NEW h \in Handlers, HandlerStep(h) \/ HandlerFault(h),
         NEW i \in Jobs, msg[h].job # i, InCustody(i)
  PROVE  InCustody(i)'
<1>1. CASE \E m \in Msgs : m.job = i /\ Queued(m)
  <2>1. PICK m \in Msgs : m.job = i /\ Queued(m)
    BY <1>1
  <2>2. Present(m)'
    BY <2>1, QueuedStep
  <2> QED
    BY <2>1, <2>2, HandlerFacts DEF Present, Held, InCustody
<1>2. CASE \E g \in Handlers : /\ msg[g] # NoMsg /\ msg[g].job = i
                               /\ held[g] \/ pc[g] \in WorkingLabels \cup HandOffLabels
  <2>1. PICK g \in Handlers : /\ msg[g] # NoMsg /\ msg[g].job = i
                              /\ held[g] \/ pc[g] \in WorkingLabels \cup HandOffLabels
    BY <1>2
  <2>2. pc'[g] = pc[g] /\ msg'[g] = msg[g] /\ held'[g] = held[g]
    BY <2>1, OtherHandlers
  <2> QED
    BY <2>1, <2>2 DEF InCustody
<1> QED
  BY <1>1, <1>2 DEF InCustody

\* A hand-off is interrupted only while its handler has custody.
LEMMA OrphanOrigin ==
  ASSUME TypeOK, [Next]_vars, NEW j \in Jobs, j \in orphaned'
  PROVE  j \in orphaned \/ InCustody(j)
<1>1. ASSUME NEW h \in Handlers, pc[h] \in {"completeRetry", "completeDead"} \cup HandOffLabels
      PROVE  InCustody(msg[h].job)
  <2>1. msg[h] # NoMsg
    BY <1>1 DEF TypeOK, HandOffLabels
  <2> QED
    BY <1>1, <2>1 DEF InCustody, WorkingLabels
<1>2. ASSUME NEW h \in Handlers, HandlerFault(h) PROVE j \in orphaned \/ InCustody(j)
  <2>1. CASE AcquireFails(h)
    BY <2>1 DEF AcquireFails
  <2>2. CASE QueryFails(h)
    BY <1>1, <2>2 DEF QueryFails, CompleteLabels
  <2>3. CASE PublishRejected(h)
    BY <1>1, <2>3 DEF PublishRejected
  <2> QED
    BY <1>2, <2>1, <2>2, <2>3 DEF HandlerFault
<1>3. ASSUME NEW w \in Workers, Terminate(w) PROVE j \in orphaned \/ InCustody(j)
  BY <1>1, <1>3, HandlerFacts DEF Terminate
<1>4. CASE \E w \in Workers : Exit(w) \/ Crash(w)
  BY <1>3, <1>4 DEF Exit, Crash
<1>5. CASE orphaned' = orphaned
  BY <1>5
<1>6. ASSUME NEW h \in Handlers, HandlerStep(h) PROVE orphaned' = orphaned
  BY <1>6
  DEF HandlerStep, RateLimited, BreakerOpen, Admit, Acquiring, Insert, Select, SendAccepted,
      SendTransient, SendPermanent, Sending, Complete, Publish, Ack
<1>7. ASSUME \/ \E i \in Jobs : Enqueue(i)
             \/ \E t \in Tiers, m \in Msgs : Expire(t, m)
             \/ \E h \in Handlers, m \in Msgs : Deliver(h, m)
             \/ \E w \in Workers : Start(w) \/ Connect(w) \/ Stop(w) \/ ChannelLost(w)
             \/ UNCHANGED vars
      PROVE  orphaned' = orphaned
  BY <1>7 DEF Enqueue, Expire, Deliver, Start, Connect, Stop, ChannelLost, vars
<1> QED
  BY <1>2, <1>4, <1>5, <1>6, <1>7 DEF Next, Quiescent

(***************************************************************************)
(* The steps.                                                              *)
(***************************************************************************)
\* Only published jobs are in custody.
CustodyIsPublished == \A j \in Jobs : InCustody(j) => j \in submitted

LEMMA CustodyIsPublishedStep ==
  TypeOK /\ CustodyIsPublished /\ [Next]_vars => CustodyIsPublished'
<1> SUFFICES ASSUME TypeOK, CustodyIsPublished, [Next]_vars, NEW j \in Jobs, InCustody(j)'
             PROVE  j \in submitted'
  BY DEF CustodyIsPublished
<1>1. CASE InCustody(j)
  BY <1>1, MonoStep DEF CustodyIsPublished, Mono
<1>2. CASE Enqueue(j)
  BY <1>2 DEF Enqueue
<1> QED
  BY <1>1, <1>2, CustodyOrigin

\* A step that settles nothing lets custody go or changes nothing.
LEMMA LetsGo ==
  ASSUME TypeOK, CustodyIsPublished, NoSilentLoss', [Next]_vars,
         UNCHANGED <<sends, dlq, submitted>>
  PROVE  Custody!LetGo
<1>1. \A j \in Jobs : ~Enqueue(j)
  BY DEF Enqueue
<1>2. \A j \in Jobs : InCustody(j)' => InCustody(j)
  BY <1>1, CustodyOrigin
<1>3. \A j \in Jobs : (Accepted(j)' <=> Accepted(j)) /\ (DeadLettered(j)' <=> DeadLettered(j))
  BY DEF Accepted, DeadLettered
<1>4. /\ orphaned \subseteq orphaned' /\ orphaned' \subseteq Jobs
      /\ orphaned' \subseteq orphaned \cup {j \in Jobs : InCustody(j)}
  <2>1. orphaned \subseteq orphaned'
    BY MonoStep DEF Mono
  <2>2. orphaned' \subseteq Jobs
    BY TypeStep DEF TypeOK
  <2> QED
    BY <2>1, <2>2, OrphanOrigin
<1>5. ASSUME NEW j \in Jobs, InCustody(j), ~InCustody(j)'
      PROVE  Accepted(j) \/ DeadLettered(j) \/ j \in orphaned'
  <2>1. j \in submitted'
    BY <1>5 DEF CustodyIsPublished
  <2>2. Settled(j)'
    BY <1>5, <2>1 DEF NoSilentLoss
  <2> QED
    BY <1>3, <2>2 DEF Settled
<1> QED
  BY <1>2, <1>3, <1>4, <1>5 DEF Custody!LetGo

\* A handler that leaves a mark for its job settles it, and no other.
LEMMA Settles ==
  ASSUME TypeOK, HandlersProgress, [Next]_vars, UNCHANGED <<submitted, orphaned>>,
         NEW h \in Handlers, HandlerStep(h) \/ HandlerFault(h),
         msg[h] \in Msgs, InCustody(msg[h].job),
         \/ dlq' = dlq /\ sends' = [sends EXCEPT ![msg[h]] = @ + 1]
         \/ sends' = sends /\ dlq' = [dlq EXCEPT ![msg[h]] = @ + 1]
  PROVE  \E j \in Jobs : Custody!Settle(j)
<1> DEFINE j == msg[h].job
<1>1. j \in Jobs
  BY MessageFacts
<1>2. \A i \in Jobs : ~Enqueue(i)
  BY DEF Enqueue
<1>3. \A i \in Jobs \ {j} : InCustody(i)' <=> InCustody(i)
  BY <1>2, CustodyOrigin, OtherJobs
<1>4. InCustody(j)' => InCustody(j)
  BY <1>1, <1>2, CustodyOrigin
<1>5. {i \in Jobs : InCustody(i)}' \in {{i \in Jobs : InCustody(i)}, {i \in Jobs : InCustody(i)} \ {j}}
  BY <1>1, <1>3, <1>4
<1>6. CASE dlq' = dlq /\ sends' = [sends EXCEPT ![msg[h]] = @ + 1]
  <2>1. \A i \in Jobs : Accepted(i)' <=> Accepted(i) \/ i = j
    BY <1>6 DEF Accepted, TypeOK
  <2>2. \A i \in Jobs : DeadLettered(i)' <=> DeadLettered(i)
    BY <1>6 DEF DeadLettered
  <2>3. Custody!Settle(j)
    BY <1>1, <1>5, <2>1, <2>2 DEF Custody!Settle
  <2> QED
    BY <1>1, <2>3
<1>7. CASE sends' = sends /\ dlq' = [dlq EXCEPT ![msg[h]] = @ + 1]
  <2>1. \A i \in Jobs : DeadLettered(i)' <=> DeadLettered(i) \/ i = j
    BY <1>7 DEF DeadLettered, TypeOK
  <2>2. \A i \in Jobs : Accepted(i)' <=> Accepted(i)
    BY <1>7 DEF Accepted
  <2>3. Custody!Settle(j)
    BY <1>1, <1>5, <2>1, <2>2 DEF Custody!Settle
  <2> QED
    BY <1>1, <2>3
<1> QED
  BY <1>6, <1>7

LEMMA PublicationIsSubmit ==
  ASSUME TypeOK, [Next]_vars, NEW j \in Jobs, Enqueue(j)
  PROVE  Custody!Submit(j)
<1>1. \A i \in Jobs : InCustody(i)' => InCustody(i) \/ i = j
  <2> SUFFICES ASSUME NEW i \in Jobs, InCustody(i)', i # j PROVE InCustody(i)
    OBVIOUS
  <2>1. ~Enqueue(i)
    BY DEF Enqueue
  <2> QED
    BY <2>1, CustodyOrigin
<1>2. \A m \in Msgs : Queued(m) => Queued(m)'
  BY DEF Enqueue, Put, Queued, TypeOK
<1>3. \A i \in Jobs : InCustody(i) => InCustody(i)'
  BY <1>2 DEF Enqueue, handler, InCustody
<1>4. InCustody(j)'
  <2> DEFINE m == [job |-> j, attempt |-> 0]
  <2>1. m \in Msgs /\ m.job = j
    BY MessageFacts
  <2>2. mainQ'[m] > 0
    BY <2>1 DEF Enqueue, Put, TypeOK
  <2>3. Queued(m)'
    BY <2>2 DEF Queued
  <2> QED
    BY <2>1, <2>3 DEF InCustody
<1>5. \A i \in Jobs : (Accepted(i)' <=> Accepted(i)) /\ (DeadLettered(i)' <=> DeadLettered(i))
  BY DEF Enqueue, Accepted, DeadLettered
<1> QED
  BY <1>1, <1>3, <1>4, <1>5 DEF Custody!Submit, Enqueue

LEMMA CustodyStep ==
  ASSUME TypeOK, HandlersProgress, CustodyIsPublished, NoSilentLoss', [Next]_vars
  PROVE  [Custody!Next]_Custody!vars
<1>l. CASE UNCHANGED <<sends, dlq, submitted>>
  BY <1>l, LetsGo DEF Custody!Next
<1>s. ASSUME NEW h \in Handlers, HandlerStep(h) \/ HandlerFault(h),
             pc[h] \in WorkingLabels \cup HandOffLabels, UNCHANGED <<submitted, orphaned>>,
             \/ dlq' = dlq /\ sends' = [sends EXCEPT ![msg[h]] = @ + 1]
             \/ sends' = sends /\ dlq' = [dlq EXCEPT ![msg[h]] = @ + 1]
      PROVE  Custody!Next
  <2>1. pc[h] # "idle"
    BY <1>s DEF WorkingLabels, HandOffLabels
  <2>2. msg[h] \in Msgs /\ msg[h] # NoMsg
    BY <2>1, BusyFacts, HandlerFacts
  <2>3. InCustody(msg[h].job)
    BY <1>s, <2>2 DEF InCustody
  <2> QED
    BY <1>s, <2>2, <2>3, Settles DEF Custody!Next
<1>r. ASSUME NEW h \in Handlers, Route(h)
      PROVE  \/ dlq' = dlq
             \/ /\ pc[h] \in WorkingLabels \cup HandOffLabels
                /\ dlq' = [dlq EXCEPT ![msg[h]] = @ + 1]
  BY <1>r DEF Route, Put, WorkingLabels, HandOffLabels
<1>1. CASE \E j \in Jobs : Enqueue(j)
  BY <1>1, PublicationIsSubmit DEF Custody!Next
<1>2. CASE \/ \E t \in Tiers, m \in Msgs : Expire(t, m)
           \/ \E h \in Handlers, m \in Msgs : Deliver(h, m)
           \/ UNCHANGED vars
  BY <1>2, <1>l DEF Expire, Deliver, vars, queues
<1>3. ASSUME NEW h \in Handlers, HandlerStep(h) PROVE [Custody!Next]_Custody!vars
  <2>1. CASE SendAccepted(h)
    <3>1. /\ pc[h] \in WorkingLabels /\ UNCHANGED <<submitted, orphaned>> /\ dlq' = dlq
          /\ sends' = [sends EXCEPT ![msg[h]] = @ + 1]
      BY <2>1 DEF SendAccepted, Sending, queues, WorkingLabels
    <3> QED
      BY <1>3, <1>s, <3>1
  <2>2. CASE SendTransient(h)
    <3>1. /\ pc[h] \in WorkingLabels /\ UNCHANGED <<submitted, orphaned>> /\ dlq' = dlq
      BY <2>2 DEF SendTransient, Sending, queues, WorkingLabels
    <3>2. PICK a \in {0, 1} : sends' = [sends EXCEPT ![msg[h]] = @ + a]
      BY <2>2 DEF SendTransient
    <3>3. CASE a = 0
      <4>1. sends' = sends
        BY <3>2, <3>3 DEF TypeOK
      <4> QED
        BY <1>l, <3>1, <4>1
    <3>4. CASE a = 1
      BY <1>3, <1>s, <3>1, <3>2, <3>4
    <3> QED
      BY <3>3, <3>4
  <2>3. CASE Publish(h)
    <3>1. UNCHANGED <<submitted, orphaned, sends>> /\ Route(h)
      BY <2>3 DEF Publish
    <3>2. CASE dlq' = dlq
      BY <1>l, <3>1, <3>2
    <3>3. CASE dlq' # dlq
      BY <1>3, <1>r, <1>s, <3>1, <3>3
    <3> QED
      BY <3>2, <3>3
  <2>4. CASE RateLimited(h) \/ BreakerOpen(h) \/ Admit(h) \/ Insert(h) \/ Select(h)
             \/ SendPermanent(h) \/ Complete(h) \/ Ack(h)
    BY <2>4, <1>l
    DEF RateLimited, BreakerOpen, Admit, Acquiring, Insert, Select, SendPermanent, Sending,
        Complete, Ack, queues
  <2> QED
    BY <1>3, <2>1, <2>2, <2>3, <2>4 DEF HandlerStep
<1>4. ASSUME NEW h \in Handlers, HandlerFault(h) PROVE [Custody!Next]_Custody!vars
  <2>1. CASE AcquireFails(h) \/ QueryFails(h)
    BY <2>1, <1>l DEF AcquireFails, QueryFails
  <2>2. CASE PublishRejected(h)
    <3>1. CASE dlq' = dlq
      BY <1>l, <2>2, <3>1 DEF PublishRejected
    <3>2. CASE dlq' # dlq
      <4>1. UNCHANGED <<submitted, orphaned, sends>> /\ Route(h)
        BY <2>2, <3>2 DEF PublishRejected
      <4> QED
        BY <1>4, <1>r, <1>s, <3>2, <4>1
    <3> QED
      BY <3>1, <3>2
  <2> QED
    BY <1>4, <2>1, <2>2 DEF HandlerFault
<1>5. CASE \E w \in Workers :
             Start(w) \/ Connect(w) \/ Stop(w) \/ Exit(w) \/ ChannelLost(w) \/ Crash(w)
  BY <1>5, <1>l DEF Start, Connect, Stop, Exit, ChannelLost, Crash, Terminate, queues
<1> QED
  BY <1>1, <1>2, <1>3, <1>4, <1>5 DEF Next, Quiescent

(***************************************************************************)
(* The theorems.                                                           *)
(***************************************************************************)
LEMMA CustodyInit == Init => Custody!Init /\ CustodyIsPublished
<1> SUFFICES ASSUME Init PROVE Custody!Init /\ CustodyIsPublished
  OBVIOUS
<1>1. \A j \in Jobs : ~InCustody(j) /\ ~Accepted(j) /\ ~DeadLettered(j)
  BY DEF Init, InCustody, Queued, Accepted, DeadLettered
<1> QED
  BY <1>1 DEF Init, Custody!Init, CustodyIsPublished

\* The worker tier implements the custody of jobs: a job is given up only when it is
\* accepted, dead-lettered or its hand-off was interrupted, is settled only by who
\* has custody of it, and is never taken up again.
THEOREM RefinesCustody == Spec => ImplementsCustody
<1>1. IInv => TypeOK /\ HandlersProgress
  BY DEF IInv
<1>2. TypeOK /\ HandlersProgress /\ CustodyIsPublished /\ NoSilentLoss' /\ [Next]_vars
        => [Custody!Next]_Custody!vars
  BY CustodyStep
<1> QED
  BY <1>1, <1>2, CustodyInit, CustodyIsPublishedStep, Invariant, NoJobIsDropped, PTL
  DEF Spec, ImplementsCustody, Custody!Spec

\* What JobCustody says of unpublished jobs, of every behaviour of the workers.
LEMMA OnlySubmittedJobs == Custody!Spec => []Custody!OnlySubmitted
<1>1. Custody!Init => Custody!OnlySubmitted
  BY DEF Custody!Init, Custody!OnlySubmitted
<1>2. Custody!OnlySubmitted /\ [Custody!Next]_(Custody!vars) => Custody!OnlySubmitted'
  BY DEF Custody!OnlySubmitted, Custody!Next, Custody!Submit, Custody!Settle, Custody!LetGo, Custody!vars
<1> QED
  BY <1>1, <1>2, PTL DEF Custody!Spec

\* A job is queued, handled, sent or dead-lettered only once it was published.
OnlyPublished ==
  \A j \in Jobs : InCustody(j) \/ Accepted(j) \/ DeadLettered(j) => j \in submitted

\* Workers send and bury nothing the API did not publish: read off the refinement.
THEOREM NothingFromNowhere == Spec => []OnlyPublished
<1>1. Custody!OnlySubmitted => OnlyPublished
  BY DEF Custody!OnlySubmitted, OnlyPublished
<1> QED
  BY <1>1, RefinesCustody, OnlySubmittedJobs, PTL DEF ImplementsCustody

=============================================================================
