--------------------------- MODULE StatusProjection ---------------------------
(***************************************************************************)
(* The API's projection of job states: StatusConsumer, run by every API    *)
(* replica against email.status.queue, and the two writes of a submission  *)
(* to the same rows.  The worker tier appears as the publisher of a job's  *)
(* events, in order and each once, which is the easiest case for the API.  *)
(*                                                                         *)
(* A replica handles up to its prefetch of events at once; an action of a  *)
(* handler is the code between two awaits.                                 *)
(***************************************************************************)
EXTENDS Integers

CONSTANTS
  Jobs,
  Replicas,    \* API processes
  Slots,       \* concurrent handlers of a replica: its prefetch
  MaxRetries,  \* RETRY_SCHEDULED events of a job
  FaultKinds,  \* which faults a behaviour may have: see Fault
  MaxFaults,   \* bound: how many of them
  None         \* no replica, no event

Final == {"DELIVERED", "DEAD_LETTERED"}
Statuses == Final \cup {"RETRY_SCHEDULED"}

\* The n-th event of a job.
Events == [job : Jobs, n : 1..(MaxRetries + 1), status : Statuses]
Handlers == Replicas \X Slots
Host(h) == h[1]

ASSUME ProjectionAssumption ==
  /\ MaxRetries \in Nat
  /\ None \notin Replicas \cup Events
  /\ FaultKinds \subseteq {"call", "channel", "crash"}
  /\ MaxFaults \in Nat

VARIABLES
  row,         \* the status column of email_jobs
  api,         \* a job's submission: the await it is suspended in
  home,        \* the replica that runs it
  published,   \* jobs whose message the broker has stored
  emitted,     \* the events the worker tier has published
  queue,       \* email.status.queue
  replica,     \* a replica, and whether its channel is up and consuming
  pc, event, held,  \* handlers: label, event, and whether its delivery can be settled
  applied,     \* history: events whose update reached the row
  disturbed,   \* history: jobs with an event published before an update was settled
  faults

broker == <<emitted, queue>>
handler == <<pc, event, held>>
vars == <<row, api, home, published, broker, replica, handler, applied, disturbed, faults>>

Init ==
  /\ row = [j \in Jobs |-> "NONE"]
  /\ api = [j \in Jobs |-> "new"] /\ home = [j \in Jobs |-> None]
  /\ published = {} /\ emitted = {} /\ queue = {}
  /\ replica = [r \in Replicas |-> "down"]
  /\ pc = [h \in Handlers |-> "idle"]
  /\ event = [h \in Handlers |-> None]
  /\ held = [h \in Handlers |-> FALSE]
  /\ applied = {} /\ disturbed = {} /\ faults = 0

\* A fault of kind k happens: a call to the database or the broker fails, a
\* connection drops, a replica dies.
Fault(k) == k \in FaultKinds /\ faults < MaxFaults /\ faults' = faults + 1

(***************************************************************************)
(* A submission: the row is created, the message published, the row        *)
(* marked.                                                                 *)
(***************************************************************************)
Create(j, r) ==
  /\ api[j] = "new" /\ replica[r] # "down"
  /\ api' = [api EXCEPT ![j] = "publish"]
  /\ home' = [home EXCEPT ![j] = r]
  /\ row' = [row EXCEPT ![j] = "QUEUED"]
  /\ UNCHANGED <<published, broker, replica, handler, applied, disturbed, faults>>

\* The broker stores the message, and the confirm is on its way.
Publish(j) ==
  /\ api[j] = "publish"
  /\ api' = [api EXCEPT ![j] = "mark"]
  /\ published' = published \cup {j}
  /\ UNCHANGED <<row, home, broker, replica, handler, applied, disturbed, faults>>

MarkPublished(j) ==
  /\ api[j] = "mark"
  /\ api' = [api EXCEPT ![j] = "done"]
  /\ row' = [row EXCEPT ![j] = "PUBLISHED"]
  /\ UNCHANGED <<home, published, broker, replica, handler, applied, disturbed, faults>>

\* A call of the submission fails, with or without its effect.
SubmissionFails(j) ==
  /\ api[j] \in {"publish", "mark"} /\ Fault("call")
  /\ api' = [api EXCEPT ![j] = "done"]
  /\ \/ UNCHANGED <<row, published>>
     \/ api[j] = "publish" /\ published' = published \cup {j} /\ UNCHANGED row
     \/ api[j] = "mark" /\ row' = [row EXCEPT ![j] = "PUBLISHED"] /\ UNCHANGED published
  /\ UNCHANGED <<home, broker, replica, handler, applied, disturbed>>

(***************************************************************************)
(* The worker tier's events.                                               *)
(***************************************************************************)
EventsOf(j) == {e \in emitted : e.job = j}
Latest(e) == e \in emitted /\ \A d \in EventsOf(e.job) : d.n <= e.n

\* An update of the job's row is on its way: an event in the queue or in a handler,
\* or the submission's own.
Unsettled(j) ==
  \/ api[j] = "mark"
  \/ \E e \in queue : e.job = j
  \/ \E h \in Handlers : event[h] # None /\ event[h].job = j

\* The job's next event: a retry, or the end of the job.
Emit(e) ==
  /\ e.job \in published
  /\ \A d \in EventsOf(e.job) : d.n < e.n /\ d.status \notin Final
  /\ e.n = 1 \/ \E d \in EventsOf(e.job) : e.n = d.n + 1
  /\ e.status = "RETRY_SCHEDULED" => e.n <= MaxRetries
  /\ emitted' = emitted \cup {e}
  /\ queue' = queue \cup {e}
  /\ disturbed' = IF Unsettled(e.job) THEN disturbed \cup {e.job} ELSE disturbed
  /\ UNCHANGED <<row, api, home, published, replica, handler, applied, faults>>

(***************************************************************************)
(* StatusConsumer.                                                         *)
(***************************************************************************)
Start(r) ==
  /\ replica[r] = "down"
  /\ replica' = [replica EXCEPT ![r] = "up"]
  /\ UNCHANGED <<row, api, home, published, broker, handler, applied, disturbed, faults>>

Connect(r) ==
  /\ replica[r] = "up"
  /\ replica' = [replica EXCEPT ![r] = "consuming"]
  /\ UNCHANGED <<row, api, home, published, broker, handler, applied, disturbed, faults>>

\* Mutant: the consumer is registered with noAck.
DeliverNoAck(h, e) ==
  /\ replica[Host(h)] = "consuming" /\ pc[h] = "idle"
  /\ e \in queue /\ \A d \in queue : d.job = e.job => d.n >= e.n
  /\ queue' = queue \ {e}
  /\ pc' = [pc EXCEPT ![h] = "apply"]
  /\ event' = [event EXCEPT ![h] = e]
  /\ UNCHANGED <<row, api, home, published, emitted, replica, held, applied, disturbed, faults>>

\* The queue is first in, first out; what is requeued goes back to its place.
Deliver(h, e) ==
  /\ replica[Host(h)] = "consuming" /\ pc[h] = "idle"
  /\ e \in queue /\ \A d \in queue : d.job = e.job => d.n >= e.n
  /\ queue' = queue \ {e}
  /\ pc' = [pc EXCEPT ![h] = "apply"]
  /\ event' = [event EXCEPT ![h] = e]
  /\ held' = [held EXCEPT ![h] = TRUE]
  /\ UNCHANGED <<row, api, home, published, emitted, replica, applied, disturbed, faults>>

\* Mutant: the update has a condition on the status it replaces.
WriteIfPublished(e) ==
  /\ row' = [row EXCEPT ![e.job] = IF @ = "PUBLISHED" THEN e.status ELSE @]
  /\ applied' = applied \cup {e}
Write(e) == row' = [row EXCEPT ![e.job] = e.status] /\ applied' = applied \cup {e}

\* UPDATE ... WHERE id = job, whatever the row says.
Apply(h) ==
  /\ pc[h] = "apply"
  /\ Write(event[h])
  /\ pc' = [pc EXCEPT ![h] = "ack"]
  /\ UNCHANGED <<api, home, published, broker, replica, event, held, disturbed, faults>>

\* The broker takes back what the handlers hs hold.
Requeue(hs) == queue' = queue \cup {event[h] : h \in {g \in hs : held[g]}}

\* Mutant: the handler ends without forgetting its event.
ReleaseKeepingEvent(hs) ==
  /\ pc' = [h \in Handlers |-> IF h \in hs THEN "idle" ELSE pc[h]]
  /\ held' = [h \in Handlers |-> IF h \in hs THEN FALSE ELSE held[h]]
  /\ UNCHANGED event

Release(hs) ==
  /\ pc' = [h \in Handlers |-> IF h \in hs THEN "idle" ELSE pc[h]]
  /\ event' = [h \in Handlers |-> IF h \in hs THEN None ELSE event[h]]
  /\ held' = [h \in Handlers |-> IF h \in hs THEN FALSE ELSE held[h]]

\* The replica's process is gone, with the handlers and submissions it ran.
Terminate(r) ==
  /\ replica' = [replica EXCEPT ![r] = "down"]
  /\ Requeue({r} \X Slots) /\ Release({r} \X Slots)
  /\ api' = [j \in Jobs |-> IF home[j] = r /\ api[j] # "new" THEN "done" ELSE api[j]]
  /\ UNCHANGED <<home, published, emitted, disturbed>>

Ack(h) ==
  /\ pc[h] = "ack" /\ held[h]
  /\ Release({h})
  /\ UNCHANGED <<row, api, home, published, broker, replica, applied, disturbed, faults>>

\* On a channel that was lost ack throws, the nack in the catch throws again, and
\* nothing awaits the handler: the rejection ends the process.
AckThrows(h) ==
  /\ pc[h] = "ack" /\ ~held[h]
  /\ Terminate(Host(h))
  /\ UNCHANGED <<row, applied, faults>>

\* Mutant: the event is not requeued.
NackForGood(h) == Release({h}) /\ UNCHANGED queue
Nack(h) == Requeue({h}) /\ Release({h})

\* The update fails, with or without its effect: nack, or its exception.
ApplyFails(h) ==
  /\ pc[h] = "apply" /\ Fault("call")
  /\ Write(event[h]) \/ UNCHANGED <<row, applied>>
  /\ IF held[h]
     THEN Nack(h) /\ UNCHANGED <<api, home, published, emitted, replica, disturbed>>
     ELSE Terminate(Host(h))

\* The connection drops; the handlers run on.
ChannelLost(r) ==
  /\ replica[r] = "consuming" /\ Fault("channel")
  /\ replica' = [replica EXCEPT ![r] = "up"]
  /\ Requeue({r} \X Slots)
  /\ held' = [h \in Handlers |-> IF Host(h) = r THEN FALSE ELSE held[h]]
  /\ UNCHANGED <<row, api, home, published, emitted, pc, event, applied, disturbed>>

Crash(r) ==
  /\ replica[r] # "down" /\ Fault("crash")
  /\ Terminate(r)
  /\ UNCHANGED <<row, applied>>

(***************************************************************************)
(* The specification.                                                      *)
(***************************************************************************)
Finished(j) == \E e \in EventsOf(j) : e.status \in Final

\* Every job is finished or was not published, and every event is settled.
Quiet(j) == api[j] = "done" /\ ~Unsettled(j)
Quiescent ==
  /\ \A j \in Jobs : Quiet(j) /\ (Finished(j) \/ j \notin published)
  /\ UNCHANGED vars

HandlerStep(h) == Apply(h) \/ Ack(h) \/ AckThrows(h)

Next ==
  \/ \E j \in Jobs : Publish(j) \/ MarkPublished(j) \/ SubmissionFails(j)
  \/ \E j \in Jobs, r \in Replicas : Create(j, r)
  \/ \E e \in Events : Emit(e)
  \/ \E h \in Handlers : HandlerStep(h) \/ ApplyFails(h)
  \/ \E h \in Handlers, e \in Events : Deliver(h, e)
  \/ \E r \in Replicas : Start(r) \/ Connect(r) \/ ChannelLost(r) \/ Crash(r)
  \/ Quiescent

Spec == Init /\ [][Next]_vars

\* Fairness.  Replicas are restarted and reconnect, every await ends, and the queue
\* is delivered to whoever consumes.
FairSpec ==
  /\ Spec
  /\ \A r \in Replicas : WF_vars(Start(r)) /\ WF_vars(Connect(r))
  /\ \A h \in Handlers : WF_vars(HandlerStep(h))
  /\ \A e \in Events : WF_vars(\E h \in Handlers : Deliver(h, e))

(***************************************************************************)
(* Properties.                                                             *)
(***************************************************************************)
TypeOK ==
  /\ row \in [Jobs -> Statuses \cup {"NONE", "QUEUED", "PUBLISHED"}]
  /\ api \in [Jobs -> {"new", "publish", "mark", "done"}]
  /\ home \in [Jobs -> Replicas \cup {None}]
  /\ published \subseteq Jobs /\ disturbed \subseteq Jobs
  /\ emitted \subseteq Events /\ queue \subseteq Events /\ applied \subseteq Events
  /\ replica \in [Replicas -> {"down", "up", "consuming"}]
  /\ pc \in [Handlers -> {"idle", "apply", "ack"}]
  /\ event \in [Handlers -> Events \cup {None}]
  /\ held \in [Handlers -> BOOLEAN]
  /\ \A h \in Handlers : (pc[h] = "idle" <=> event[h] = None) /\ (held[h] => event[h] # None)
  /\ faults \in 0..MaxFaults

\* An event the broker has stored is in the queue, held by a handler the broker
\* waits for, or has reached the row: no failed update, lost channel or crash of a
\* replica in mid-handling drops it.
NoEventLost ==
  \A e \in emitted : e \in queue \/ e \in applied \/ \E h \in Handlers : held[h] /\ event[h] = e

\* The row of a job is exact once its last event is settled, whatever was redelivered
\* or applied by handlers that had lost their channel, provided that no event of
\* the job was published while an earlier update of its row was still on its way.
ExactUnlessDisturbed ==
  \A e \in emitted :
    Latest(e) /\ ~Unsettled(e.job) /\ e.job \notin disturbed => row[e.job] = e.status

(***************************************************************************)
(* The inductive invariant behind them.                                    *)
(***************************************************************************)

\* Events are numbered, published after their job, and in flight or applied only
\* when the worker tier has published them.
EventsSound ==
  /\ queue \subseteq emitted /\ applied \subseteq emitted
  /\ \A h \in Handlers : event[h] # None => event[h] \in emitted
  /\ \A d, e \in emitted : d.job = e.job /\ d.n = e.n => d = e
  /\ \A e \in emitted : e.job \in published
  /\ \A j \in published : api[j] \in {"mark", "done"}

AckedAfterApplied == \A h \in Handlers : pc[h] = "ack" => event[h] \in applied

\* While a job is undisturbed only its latest event can still be written, its
\* submission writes before its first event, and its row shows the latest event.
UndisturbedSound ==
  \A j \in Jobs \ disturbed :
    /\ \A e \in queue : e.job = j => Latest(e)
    /\ \A h \in Handlers : event[h] # None /\ event[h].job = j => Latest(event[h])
    /\ api[j] = "mark" => EventsOf(j) = {}
    /\ \A e \in applied : e.job = j /\ Latest(e) => row[j] = e.status

ProjectionInv == TypeOK /\ EventsSound /\ AckedAfterApplied /\ NoEventLost /\ UndisturbedSound

(***************************************************************************)
(* Liveness, and what the README claims and the code does not keep.        *)
(***************************************************************************)

\* Once the faults stop, every event reaches the row.
EventuallyApplied == \A e \in Events : e \in emitted ~> e \in applied

\* README.md:29 "a job is DELIVERED when the worker ledger confirms it": a job whose
\* DELIVERED event was settled, with nothing else under way, is DELIVERED.
DeliveredWhenConfirmed ==
  \A e \in emitted : e.status = "DELIVERED" /\ Quiet(e.job) => row[e.job] = "DELIVERED"

=============================================================================
