------------------------------- MODULE Delivery -------------------------------
(***************************************************************************)
(* The worker tier of the node pipeline: the consumers of email.queue, the *)
(* delivery service with its idempotency ledger, retry policy and circuit  *)
(* breaker, and the part of RabbitMQ they work against (the work queue,    *)
(* the retry tiers, the dead-letter queue and the status queue).           *)
(*                                                                         *)
(* A worker is a Node.js process that handles several messages at once: up *)
(* to CONSUMER_PREFETCH of its channel, and those of channels it lost,     *)
(* whose handlers run on.  Handlers interleave at every await, so an       *)
(* action of a handler is the code between two awaits.                     *)
(***************************************************************************)
EXTENDS Integers, FiniteSets

CONSTANTS
  Jobs,          \* the jobs the API publishes, one message each
  Malformed,     \* jobs whose message fails JSON or schema parsing
  Unregistered,  \* jobs that name a provider with no adapter (gmail, outlook)
  Workers,       \* worker processes
  Slots,         \* bound: handlers of a worker at once, lost channels' included
  MaxAttempts,   \* TOPOLOGY.maxAttempts
  NumTiers,      \* number of retry queues declared from retryDelaysSeconds
  Threshold,     \* BREAKER_FAILURE_THRESHOLD
  FaultKinds,    \* which faults a behaviour may have: see Fault
  MaxFaults,     \* bound: how many of them
  NoMsg          \* content of an idle handler

RateLimitDeferTier == 1
BreakerDeferTier == 2

Tiers == 1..NumTiers
Attempts == 0..MaxAttempts
Msgs == [job : Jobs, attempt : Attempts]
Handlers == Workers \X Slots
HandlersOf(w) == {w} \X Slots

ASSUME ConstantsAssumption ==
  /\ Malformed \subseteq Jobs
  /\ Unregistered \subseteq Jobs
  /\ IsFiniteSet(Workers) /\ IsFiniteSet(Slots)
  /\ MaxAttempts \in Nat
  /\ NumTiers \in Nat /\ MaxAttempts <= NumTiers /\ BreakerDeferTier <= NumTiers
  /\ Threshold \in Nat \ {0}
  /\ FaultKinds \subseteq {"call", "channel", "stop", "crash"}
  /\ MaxFaults \in Nat
  /\ NoMsg \notin Msgs

(***************************************************************************)
(* Statuses of email.status events and of ledger rows.                     *)
(***************************************************************************)
Statuses == {"DELIVERED", "RETRY_SCHEDULED", "DEAD_LETTERED"}
Events == [job : Jobs, attempt : Attempts, status : Statuses]
Completed == {"DELIVERED", "FAILED"}
Outcomes == Completed \cup {"NONE", "PENDING"}

(***************************************************************************)
(* Where a handler is: the await it is suspended in.                       *)
(***************************************************************************)
CompleteLabels == {"completeDelivered", "completeRetry", "completeDead"}
QueryLabels == {"insert", "select"} \cup CompleteLabels
StatusLabels == {"statusDelivered", "statusRetry", "statusDead"}
PublishLabels ==
  {"malformed", "deferRate", "deferBreaker", "publishRetry", "publishDead"} \cup StatusLabels
Labels == {"idle", "acquire", "send", "ack"} \cup QueryLabels \cup PublishLabels

\* A handler here has recorded its attempt as FAILED and not yet handed the job on.
HandOffLabels == {"publishRetry", "publishDead"}

VARIABLES
  \* RabbitMQ: how many copies of a message each queue holds
  mainQ, retryQ, dlq, statusQ,
  \* the worker database: delivery_attempts rows by (job, attempt)
  ledger,
  \* worker processes and their connections
  worker, channel, breaker,
  \* handlers: label, message, and whether the broker still counts the message
  \* as delivered to this handler (its delivery tag is on a live channel)
  pc, msg, held,
  \* history: jobs published, emails the provider accepted by attempt, messages
  \* the broker took back by job, jobs whose hand-off was interrupted, faults
  submitted, sends, redelivered, orphaned, faults

queues == <<mainQ, retryQ, dlq, statusQ>>
process == <<worker, channel, breaker>>
handler == <<pc, msg, held>>
vars == <<queues, ledger, process, handler, submitted, sends, redelivered, orphaned, faults>>

(***************************************************************************)
(* The circuit breaker of one worker, for the one registered provider.     *)
(* The count saturates at the threshold: the code only compares with >=.   *)
(* The cooldown is a clock the model abstracts: whether it has elapsed is  *)
(* chosen when isOpen looks.                                               *)
(***************************************************************************)
Breakers == [state : {"CLOSED", "OPEN", "HALF_OPEN"}, failures : 0..Threshold]
ClosedBreaker == [state |-> "CLOSED", failures |-> 0]

recordFailure(b) ==
  LET n == IF b.failures < Threshold THEN b.failures + 1 ELSE Threshold
  IN  [state    |-> IF b.state = "HALF_OPEN" \/ n >= Threshold THEN "OPEN" ELSE b.state,
       failures |-> n]

(***************************************************************************)
(* The retry policy.                                                       *)
(***************************************************************************)
NextAttempt(m) == [job |-> m.job, attempt |-> m.attempt + 1]
\* Mutant: the bound is off by one, and the last retry names a tier nobody declared.
CanRetryOnceMore(m) == m.attempt <= MaxAttempts
CanRetry(m) == m.attempt + 1 <= MaxAttempts

(***************************************************************************)
(* Queues.                                                                 *)
(***************************************************************************)
Put(q, m) == [q EXCEPT ![m] = @ + 1]
Take(q, m) == [q EXCEPT ![m] = @ - 1]

PutTier(t, m) == [retryQ EXCEPT ![t] = Put(@, m)]

\* The broker takes back what the handlers hs hold.
Requeue(hs) ==
  /\ mainQ' = [m \in Msgs |-> mainQ[m] + Cardinality({h \in hs : held[h] /\ msg[h] = m})]
  /\ redelivered' = [j \in Jobs |->
       redelivered[j] + Cardinality({h \in hs : held[h] /\ msg[h].job = j})]

Host(h) == h[1]
Goto(h, l) == pc' = [pc EXCEPT ![h] = l]
\* Mutant: the handler ends without forgetting its message.
ReleaseKeepingMessage(hs) ==
  /\ pc' = [h \in Handlers |-> IF h \in hs THEN "idle" ELSE pc[h]]
  /\ held' = [h \in Handlers |-> IF h \in hs THEN FALSE ELSE held[h]]
  /\ UNCHANGED msg
Release(hs) ==
  /\ pc' = [h \in Handlers |-> IF h \in hs THEN "idle" ELSE pc[h]]
  /\ msg' = [h \in Handlers |-> IF h \in hs THEN NoMsg ELSE msg[h]]
  /\ held' = [h \in Handlers |-> IF h \in hs THEN FALSE ELSE held[h]]

\* A fault of kind k happens: a call to Redis, the database or the broker fails, a
\* connection drops, a worker is told to stop, a worker is killed.
Fault(k) == k \in FaultKinds /\ faults < MaxFaults /\ faults' = faults + 1

Init ==
  /\ mainQ = [m \in Msgs |-> 0]
  /\ retryQ = [t \in Tiers |-> [m \in Msgs |-> 0]]
  /\ dlq = [m \in Msgs |-> 0]
  /\ statusQ = [e \in Events |-> 0]
  /\ ledger = [m \in Msgs |-> "NONE"]
  /\ worker = [w \in Workers |-> "down"]
  /\ channel = [w \in Workers |-> "none"]
  /\ breaker = [w \in Workers |-> ClosedBreaker]
  /\ pc = [h \in Handlers |-> "idle"]
  /\ msg = [h \in Handlers |-> NoMsg]
  /\ held = [h \in Handlers |-> FALSE]
  /\ submitted = {}
  /\ sends = [m \in Msgs |-> 0]
  /\ redelivered = [j \in Jobs |-> 0]
  /\ orphaned = {}
  /\ faults = 0

(***************************************************************************)
(* The broker and the API around the workers.                              *)
(***************************************************************************)

\* The API publishes a job's message, once: a second submission of the job is
\* refused by its database before it reaches the broker.
Enqueue(j) ==
  /\ j \notin submitted
  /\ submitted' = submitted \cup {j}
  /\ mainQ' = Put(mainQ, [job |-> j, attempt |-> 0])
  /\ UNCHANGED <<retryQ, dlq, statusQ, ledger, process, handler,
                 sends, redelivered, orphaned, faults>>

\* The message TTL of a retry tier runs out: dead-lettered back to email.queue.
Expire(t, m) ==
  /\ retryQ[t][m] > 0
  /\ retryQ' = [retryQ EXCEPT ![t] = Take(@, m)]
  /\ mainQ' = Put(mainQ, m)
  /\ UNCHANGED <<dlq, statusQ, ledger, process, handler,
                 submitted, sends, redelivered, orphaned, faults>>

\* EmailConsumer.handle is called with a delivery.  The prefetch of each channel is
\* left out: it only delays deliveries, and nothing here depends on their number.
Deliver(h, m) ==
  /\ channel[Host(h)] = "consuming"
  /\ pc[h] = "idle" /\ mainQ[m] > 0
  /\ mainQ' = Take(mainQ, m)
  /\ msg' = [msg EXCEPT ![h] = m]
  /\ held' = [held EXCEPT ![h] = TRUE]
  /\ Goto(h, IF m.job \in Malformed THEN "malformed" ELSE "acquire")
  /\ UNCHANGED <<retryQ, dlq, statusQ, ledger, process,
                 submitted, sends, redelivered, orphaned, faults>>

(***************************************************************************)
(* DeliveryService.process up to the provider call.                        *)
(***************************************************************************)
Acquiring(h) ==
  /\ pc[h] = "acquire"
  /\ UNCHANGED <<queues, ledger, worker, channel, msg, held,
                 submitted, sends, redelivered, orphaned, faults>>

\* The token bucket is empty.
RateLimited(h) == Acquiring(h) /\ Goto(h, "deferRate") /\ UNCHANGED breaker

\* A token was taken, and isOpen answers true: the cooldown is running.
BreakerOpen(h) ==
  /\ Acquiring(h)
  /\ msg[h].job \notin Unregistered /\ breaker[Host(h)].state = "OPEN"
  /\ Goto(h, "deferBreaker")
  /\ UNCHANGED breaker

\* Mutant: an open breaker never becomes half-open.
AdmitWhenClosed(h) ==
  /\ Acquiring(h)
  /\ msg[h].job \in Unregistered \/ breaker[Host(h)].state # "OPEN"
  /\ Goto(h, "insert")
  /\ UNCHANGED breaker

\* A token was taken, and isOpen answers false: the breaker is not open, or its
\* cooldown is over and this handler is a probe.  A name with no adapter has a
\* breaker of its own, which nothing ever opens.
Admit(h) ==
  /\ Acquiring(h)
  /\ Goto(h, "insert")
  /\ breaker' = IF msg[h].job \in Unregistered THEN breaker
                ELSE [breaker EXCEPT ![Host(h)].state =
                        IF @ = "OPEN" THEN "HALF_OPEN" ELSE @]

Granted(h) == Goto(h, IF msg[h].job \in Unregistered THEN "completeDead" ELSE "send")

\* reserve: INSERT ... ON CONFLICT DO NOTHING.
Insert(h) ==
  /\ pc[h] = "insert"
  /\ IF ledger[msg[h]] = "NONE"
     THEN ledger' = [ledger EXCEPT ![msg[h]] = "PENDING"] /\ Granted(h)
     ELSE Goto(h, "select") /\ UNCHANGED ledger
  /\ UNCHANGED <<queues, process, msg, held, submitted, sends, redelivered, orphaned, faults>>

\* reserve: a PENDING row is taken over, a completed one is a duplicate.
Select(h) ==
  /\ pc[h] = "select"
  /\ IF ledger[msg[h]] = "PENDING" THEN Granted(h) ELSE Goto(h, "ack")
  /\ UNCHANGED <<queues, ledger, process, msg, held,
                 submitted, sends, redelivered, orphaned, faults>>

(***************************************************************************)
(* The provider call and what follows it in the same turn of the event     *)
(* loop: the breaker's count and the retry decision.                       *)
(***************************************************************************)
Sending(h) ==
  /\ pc[h] = "send"
  /\ UNCHANGED <<queues, ledger, worker, channel, msg, held,
                 submitted, redelivered, orphaned, faults>>

SendAccepted(h) ==
  /\ Sending(h)
  /\ sends' = [sends EXCEPT ![msg[h]] = @ + 1]
  /\ breaker' = [breaker EXCEPT ![Host(h)] = ClosedBreaker]
  /\ Goto(h, "completeDelivered")

\* Mutant: the retry is published without recording the attempt as FAILED.
SendTransientUnrecorded(h) ==
  /\ Sending(h)
  /\ \E accepted \in {0, 1} : sends' = [sends EXCEPT ![msg[h]] = @ + accepted]
  /\ breaker' = [breaker EXCEPT ![Host(h)] = recordFailure(@)]
  /\ Goto(h, IF CanRetry(msg[h]) THEN "publishRetry" ELSE "completeDead")

\* A timeout or a broken connection: the server may have taken the email.
SendTransient(h) ==
  /\ Sending(h)
  /\ \E accepted \in {0, 1} : sends' = [sends EXCEPT ![msg[h]] = @ + accepted]
  /\ breaker' = [breaker EXCEPT ![Host(h)] = recordFailure(@)]
  /\ Goto(h, IF CanRetry(msg[h]) THEN "completeRetry" ELSE "completeDead")

\* Mutant: the job is dead-lettered before its attempt is recorded as FAILED.
SendPermanentUnrecorded(h) ==
  /\ Sending(h)
  /\ Goto(h, "publishDead")
  /\ UNCHANGED <<sends, breaker>>

SendPermanent(h) ==
  /\ Sending(h)
  /\ Goto(h, "completeDead")
  /\ UNCHANGED <<sends, breaker>>

(***************************************************************************)
(* After the provider call: complete, publish, publish the status, settle. *)
(***************************************************************************)
\* Mutant: an attempt that will be retried is recorded like one that succeeded.
OutcomeUnlessDead(l) == IF l = "completeDead" THEN "FAILED" ELSE "DELIVERED"
Outcome(l) == IF l = "completeDelivered" THEN "DELIVERED" ELSE "FAILED"
Update(m, o) == [ledger EXCEPT ![m] = IF @ = "NONE" THEN @ ELSE o]

\* Mutant: the DEAD_LETTERED event is published instead of the dead letter.
AfterCompleteEventOnly(l) ==
  CASE l = "completeDelivered" -> "statusDelivered"
    [] l = "completeRetry" -> "publishRetry"
    [] l = "completeDead" -> "statusDead"

AfterComplete(l) ==
  CASE l = "completeDelivered" -> "statusDelivered"
    [] l = "completeRetry" -> "publishRetry"
    [] l = "completeDead" -> "publishDead"

Complete(h) ==
  /\ pc[h] \in CompleteLabels
  /\ ledger' = Update(msg[h], Outcome(pc[h]))
  /\ Goto(h, AfterComplete(pc[h]))
  /\ UNCHANGED <<queues, process, msg, held, submitted, sends, redelivered, orphaned, faults>>

\* The status event of a handler; a retry event names the attempt to come.
StatusOf(l) ==
  CASE l = "statusDelivered" -> "DELIVERED"
    [] l = "statusRetry" -> "RETRY_SCHEDULED"
    [] l = "statusDead" -> "DEAD_LETTERED"
EventOf(h) ==
  [job |-> msg[h].job, status |-> StatusOf(pc[h]),
   attempt |-> IF pc[h] = "statusRetry" THEN NextAttempt(msg[h]).attempt ELSE msg[h].attempt]

\* Where the broker puts what the handler publishes.
Route(h) ==
  /\ retryQ' = CASE pc[h] = "deferRate" -> PutTier(RateLimitDeferTier, msg[h])
                 [] pc[h] = "deferBreaker" -> PutTier(BreakerDeferTier, msg[h])
                 [] pc[h] = "publishRetry" ->
                      PutTier(NextAttempt(msg[h]).attempt, NextAttempt(msg[h]))
                 [] OTHER -> retryQ
  /\ dlq' = IF pc[h] \in {"malformed", "publishDead"} THEN Put(dlq, msg[h]) ELSE dlq
  /\ statusQ' = IF pc[h] \in StatusLabels THEN Put(statusQ, EventOf(h)) ELSE statusQ

\* Mutant: process goes on after it has deferred the message.
AfterPublishGoesOn(l) ==
  CASE l = "publishRetry" -> "statusRetry" [] l = "publishDead" -> "statusDead"
    [] l = "deferRate" -> "insert" [] OTHER -> "ack"

AfterPublish(l) ==
  CASE l = "publishRetry" -> "statusRetry" [] l = "publishDead" -> "statusDead" [] OTHER -> "ack"

\* The publish is confirmed.  A handler publishes on the channel its worker has
\* by then, which need not be the one its message came from.
Publish(h) ==
  /\ pc[h] \in PublishLabels /\ channel[Host(h)] # "none"
  /\ Route(h)
  /\ Goto(h, AfterPublish(pc[h]))
  /\ UNCHANGED <<mainQ, ledger, process, msg, held,
                 submitted, sends, redelivered, orphaned, faults>>

\* settle(ack); on a channel that was lost it does nothing.
Ack(h) ==
  /\ pc[h] = "ack"
  /\ Release({h})
  /\ UNCHANGED <<queues, ledger, process, submitted, sends, redelivered, orphaned, faults>>

(***************************************************************************)
(* Failures of a handler's calls: the message is nacked back to the queue. *)
(***************************************************************************)
\* Mutant: a message whose handling failed is acknowledged.
NackAsAck(h) == Release({h}) /\ UNCHANGED <<mainQ, redelivered>>

Nack(h) == Requeue({h}) /\ Release({h})

\* An error that reaches the catch of process, rather than one thrown before its
\* try or from handleFailure, is counted against the provider.
CountFailure(h) ==
  breaker' = IF pc[h] \in {"completeDelivered", "statusDelivered"}
             THEN [breaker EXCEPT ![Host(h)] = recordFailure(@)] ELSE breaker

\* Redis does not answer.
AcquireFails(h) ==
  /\ pc[h] = "acquire" /\ Fault("call")
  /\ Nack(h)
  /\ UNCHANGED <<retryQ, dlq, statusQ, ledger, process, submitted, sends, orphaned>>

\* The database fails a statement, or executes it and its answer is lost.
QueryFails(h) ==
  /\ pc[h] \in QueryLabels /\ Fault("call")
  /\ \/ UNCHANGED <<ledger, orphaned>>
     \/ /\ pc[h] = "insert" /\ ledger[msg[h]] = "NONE"
        /\ ledger' = [ledger EXCEPT ![msg[h]] = "PENDING"]
        /\ UNCHANGED orphaned
     \/ /\ pc[h] \in CompleteLabels
        /\ ledger' = Update(msg[h], Outcome(pc[h]))
        /\ orphaned' = IF pc[h] = "completeDelivered" THEN orphaned
                       ELSE orphaned \cup {msg[h].job}
  /\ CountFailure(h)
  /\ Nack(h)
  /\ UNCHANGED <<retryQ, dlq, statusQ, worker, channel, submitted, sends>>

\* The broker refuses a publish, there is no channel, or the confirm is lost with
\* the channel and the broker may have stored the message.
PublishRejected(h) ==
  /\ pc[h] \in PublishLabels
  /\ IF channel[Host(h)] = "none" THEN UNCHANGED faults ELSE Fault("call")
  /\ \/ Route(h) /\ UNCHANGED orphaned
     \/ /\ UNCHANGED <<retryQ, dlq, statusQ>>
        /\ orphaned' = IF pc[h] \in HandOffLabels THEN orphaned \cup {msg[h].job} ELSE orphaned
  /\ CountFailure(h)
  /\ Nack(h)
  /\ UNCHANGED <<ledger, worker, channel, submitted, sends>>

(***************************************************************************)
(* Worker processes and their connections.                                 *)
(***************************************************************************)
Start(w) ==
  /\ worker[w] = "down"
  /\ worker' = [worker EXCEPT ![w] = "running"]
  /\ UNCHANGED <<queues, ledger, channel, breaker, handler,
                 submitted, sends, redelivered, orphaned, faults>>

\* connect, and the channel-ready callback that starts the consumer.  Nothing
\* tells the callback that the worker is draining.  The steps are in Connection,
\* which is shown to be no more than this: see WorkerChannel.
Connect(w) ==
  /\ worker[w] # "down" /\ channel[w] = "none"
  /\ channel' = [channel EXCEPT ![w] = "consuming"]
  /\ UNCHANGED <<queues, ledger, worker, breaker, handler,
                 submitted, sends, redelivered, orphaned, faults>>

\* onModuleDestroy: cancel the consumer, unless the tag of the one that is starting is
\* not known yet; then wait for the handlers in flight.
Stop(w) ==
  /\ worker[w] = "running" /\ Fault("stop")
  /\ worker' = [worker EXCEPT ![w] = "draining"]
  /\ \/ channel' = [channel EXCEPT ![w] = IF @ = "consuming" THEN "open" ELSE @]
     \/ UNCHANGED channel
  /\ UNCHANGED <<queues, ledger, breaker, handler, submitted, sends, redelivered, orphaned>>

\* The connection drops.  The broker takes back every unsettled message; the
\* handlers of the worker run on.
ChannelLost(w) ==
  /\ channel[w] # "none" /\ Fault("channel")
  /\ channel' = [channel EXCEPT ![w] = "none"]
  /\ Requeue(HandlersOf(w))
  /\ held' = [h \in Handlers |-> IF h \in HandlersOf(w) THEN FALSE ELSE held[h]]
  /\ UNCHANGED <<retryQ, dlq, statusQ, ledger, worker, breaker, pc, msg,
                 submitted, sends, orphaned>>

\* The process is gone, with its handlers wherever they were.
Terminate(w) ==
  /\ worker' = [worker EXCEPT ![w] = "down"]
  /\ channel' = [channel EXCEPT ![w] = "none"]
  /\ breaker' = [breaker EXCEPT ![w] = ClosedBreaker]
  /\ orphaned' = orphaned \cup {msg[h].job : h \in {g \in HandlersOf(w) : pc[g] \in HandOffLabels}}
  /\ Requeue(HandlersOf(w))
  /\ Release(HandlersOf(w))
  /\ UNCHANGED <<retryQ, dlq, statusQ, ledger, submitted, sends>>

\* The end of a drain: nothing is in flight, or the deadline has passed.
Exit(w) == worker[w] = "draining" /\ Terminate(w) /\ UNCHANGED faults

Crash(w) == worker[w] # "down" /\ Fault("crash") /\ Terminate(w)

(***************************************************************************)
(* The specification.                                                      *)
(***************************************************************************)
Drained ==
  /\ submitted = Jobs
  /\ \A m \in Msgs : mainQ[m] = 0 /\ \A t \in Tiers : retryQ[t][m] = 0
  /\ \A h \in Handlers : pc[h] = "idle"

\* Nothing is left to do: the consumers wait.
Quiescent == Drained /\ UNCHANGED vars

\* A step of a handler that does not fail.
HandlerStep(h) ==
  \/ RateLimited(h) \/ BreakerOpen(h) \/ Admit(h)
  \/ Insert(h) \/ Select(h)
  \/ SendAccepted(h) \/ SendTransient(h) \/ SendPermanent(h)
  \/ Complete(h) \/ Publish(h) \/ Ack(h)

HandlerFault(h) == AcquireFails(h) \/ QueryFails(h) \/ PublishRejected(h)

Next ==
  \/ \E j \in Jobs : Enqueue(j)
  \/ \E t \in Tiers, m \in Msgs : Expire(t, m)
  \/ \E h \in Handlers, m \in Msgs : Deliver(h, m)
  \/ \E h \in Handlers : HandlerStep(h) \/ HandlerFault(h)
  \/ \E w \in Workers :
       \/ Start(w) \/ Connect(w) \/ Stop(w) \/ Exit(w)
       \/ ChannelLost(w) \/ Crash(w)
  \/ Quiescent

Spec == Init /\ [][Next]_vars

\* Fairness.  Every await ends, every TTL runs out, workers are restarted and
\* reconnect, a drain ends at its deadline, and the API publishes its jobs.
\* email.queue is first in, first out, so a message that can be delivered again
\* and again is delivered; the bucket refills and the cooldown is shorter than
\* the deferrals, so a job that asks again and again is admitted.
Fairness ==
  /\ \A j \in Jobs : WF_vars(Enqueue(j))
  /\ \A t \in Tiers, m \in Msgs : WF_vars(Expire(t, m))
  /\ \A m \in Msgs : SF_vars(\E h \in Handlers : Deliver(h, m))
  /\ \A h \in Handlers : WF_vars(HandlerStep(h) \/ PublishRejected(h))
  /\ \A j \in Jobs : SF_vars(\E h \in Handlers : Admit(h) /\ msg[h].job = j)
  /\ \A w \in Workers : WF_vars(Start(w)) /\ WF_vars(Connect(w)) /\ WF_vars(Exit(w))

FairSpec == Spec /\ Fairness

(***************************************************************************)
(* Properties.                                                             *)
(***************************************************************************)
TypeOK ==
  /\ mainQ \in [Msgs -> Nat] /\ retryQ \in [Tiers -> [Msgs -> Nat]]
  /\ dlq \in [Msgs -> Nat] /\ statusQ \in [Events -> Nat]
  /\ ledger \in [Msgs -> Outcomes]
  /\ worker \in [Workers -> {"running", "draining", "down"}]
  /\ channel \in [Workers -> {"none", "open", "consuming"}]
  /\ breaker \in [Workers -> Breakers]
  /\ pc \in [Handlers -> Labels] /\ held \in [Handlers -> BOOLEAN]
  /\ msg \in [Handlers -> Msgs \cup {NoMsg}]
  /\ \A h \in Handlers : pc[h] = "idle" <=> msg[h] = NoMsg
  /\ submitted \subseteq Jobs /\ orphaned \subseteq Jobs
  /\ sends \in [Msgs -> Nat] /\ redelivered \in [Jobs -> Nat]
  /\ faults \in 0..MaxFaults

Queued(m) == mainQ[m] > 0 \/ \E t \in Tiers : retryQ[t][m] > 0

\* A handler here still has to dispose of its message.
WorkingLabels ==
  {"acquire", "malformed", "deferRate", "deferBreaker", "insert", "select", "send",
   "completeRetry", "completeDead"}

\* Somebody still answers for the job: a queue, the broker's memory of an
\* unsettled delivery, or a handler that runs on without its channel.
InCustody(j) ==
  \/ \E m \in Msgs : m.job = j /\ Queued(m)
  \/ \E h \in Handlers :
       /\ msg[h] # NoMsg /\ msg[h].job = j
       /\ held[h] \/ pc[h] \in WorkingLabels \cup HandOffLabels

Accepted(j) == \E m \in Msgs : m.job = j /\ sends[m] > 0
DeadLettered(j) == \E m \in Msgs : m.job = j /\ dlq[m] > 0
Settled(j) == Accepted(j) \/ DeadLettered(j) \/ j \in orphaned

\* A published job is never dropped by a deferral, a duplicate, a drain, a lost
\* channel, a failed call or a crash: until the provider took its email or it is
\* in the dead-letter queue, somebody answers for it.  The one exception the code
\* has is a hand-off interrupted after its attempt was recorded as FAILED.
NoSilentLoss == \A j \in submitted : InCustody(j) \/ Settled(j)

\* A row says DELIVERED only of an attempt whose email the provider took.
LedgerTruthful == \A m \in Msgs : ledger[m] = "DELIVERED" => sends[m] > 0

\* Attempt n + 1 of a job leaves a trace (a copy in a queue or in a handler, a
\* row, a send) only after attempt n was recorded as completed: a deferral, a
\* requeue or a takeover never moves a job past an open attempt.
Traced(m) ==
  \/ Queued(m) \/ ledger[m] # "NONE" \/ sends[m] > 0 \/ dlq[m] > 0
  \/ \E h \in Handlers : msg[h] = m
AttemptsInOrder ==
  \A m \in Msgs : CanRetry(m) /\ Traced(NextAttempt(m)) => ledger[m] \in Completed

\* What the API is told is so: a DELIVERED event follows a send of that attempt, a
\* DEAD_LETTERED event follows the dead-lettering, and a RETRY_SCHEDULED event
\* follows the completion of the attempt before the one it names.
StatusTruthful ==
  \A e \in Events : statusQ[e] > 0 =>
    LET m == [job |-> e.job, attempt |-> e.attempt]
    IN  CASE e.status = "DELIVERED" -> sends[m] > 0
          [] e.status = "DEAD_LETTERED" -> dlq[m] > 0
          [] OTHER -> \E n \in Msgs :
               CanRetry(n) /\ NextAttempt(n) = m /\ ledger[n] \in Completed

\* The status events a handler of m publishes.
EventsFrom(m) ==
  LET About(n, s) == statusQ[[job |-> n.job, attempt |-> n.attempt, status |-> s]]
  IN  About(m, "DELIVERED") + About(m, "DEAD_LETTERED")
        + IF CanRetry(m) THEN About(NextAttempt(m), "RETRY_SCHEDULED") ELSE 0

\* Everything an attempt brings forth beyond the first, an email, a dead letter or a
\* status event, is paid for by a message of its job the broker took back: deferrals,
\* duplicates, takeovers and retries move the one message of a job and never double it.
OutputsPaidFor ==
  \A m \in Msgs :
    /\ sends[m] <= 1 + redelivered[m.job]
    /\ dlq[m] <= 1 + redelivered[m.job]
    /\ EventsFrom(m) <= 1 + redelivered[m.job]

\* Once the faults stop, every published job leaves the queues for good.
EventuallyDrained == <>[]Drained

(***************************************************************************)
(* What the worker tier promises, abstractly: see JobCustody.              *)
(***************************************************************************)
Custody == INSTANCE JobCustody WITH
  custody <- {j \in Jobs : InCustody(j)},
  accepted <- {j \in Jobs : Accepted(j)},
  dead <- {j \in Jobs : DeadLettered(j)},
  lost <- orphaned

\* The worker tier implements the custody of jobs: every step of a handler, a
\* worker or the broker is one of its steps or changes nothing it speaks of.
ImplementsCustody == Custody!Spec

(***************************************************************************)
(* What the README claims, and when the code keeps it.                     *)
(***************************************************************************)

\* README.md:92 "Zero loss", README.md:38 "Killed workers' unacknowledged messages
\* are redelivered": a published job is in custody, sent or dead-lettered.
ZeroLoss == \A j \in submitted : InCustody(j) \/ Accepted(j) \/ DeadLettered(j)

\* README.md:36 "completed attempts are never re-sent": no email goes out for an
\* attempt whose row is completed.
NeverResendCompleted ==
  [][\A m \in Msgs : sends'[m] > sends[m] => ledger[m] = "PENDING"]_vars

\* The README's claims hold of a job as long as the broker has taken none of its
\* messages back: it is not lost (see ZeroLoss), and a completed attempt of it is not
\* sent again (see NeverResendCompleted).
ClaimsHoldUndisturbed ==
  [][\A j \in Jobs : redelivered'[j] = 0 =>
       /\ j \notin orphaned'
       /\ \A m \in Msgs : m.job = j /\ sends'[m] > sends[m] => ledger[m] = "PENDING"]_vars

=============================================================================
