------------------------------- MODULE Pipeline -------------------------------
(***************************************************************************)
(* The node pipeline from the POST to the SMTP server: the API replicas of *)
(* Submission and the workers of Delivery, which share nothing but the     *)
(* broker.  EmailJobsPublisher publishes a job's message to email.queue in *)
(* the step in which Submission counts the job as published.               *)
(*                                                                         *)
(* The instances are of the modules with the proofs, whose theorems hold   *)
(* here of the same definitions.                                           *)
(***************************************************************************)
EXTENDS Integers, FiniteSets

CONSTANTS
  Requests,    \* POSTs, and the jobs they would create
  Keys,        \* idempotency keys
  None,        \* no job, no key, no answer; content of an idle handler
  Malformed, Unregistered, Workers, Slots, MaxAttempts, NumTiers, Threshold,
  ApiFaultKinds, MaxApiFaults,        \* faults of the API replicas: see Submission
  WorkerFaultKinds, MaxWorkerFaults   \* faults of the workers: see Delivery

VARIABLES
  \* the API replicas, Redis and the email_jobs table
  cache, row, at, key, existing, answer, retries, hurt, apiFaults,
  \* the jobs whose message the broker has stored
  published,
  \* the broker, the workers and their ledger
  mainQ, retryQ, dlq, statusQ, ledger, worker, channel, breaker, pc, msg, held,
  sends, redelivered, orphaned, workerFaults

Api == INSTANCE SubmissionProofs WITH
  pc <- at, faults <- apiFaults, FaultKinds <- ApiFaultKinds, MaxFaults <- MaxApiFaults

Tier == INSTANCE BudgetProofs WITH
  Jobs <- Requests, submitted <- published, NoMsg <- None,
  faults <- workerFaults, FaultKinds <- WorkerFaultKinds, MaxFaults <- MaxWorkerFaults

apiVars == <<cache, row, at, key, existing, answer, retries, hurt, apiFaults>>
tierVars == <<mainQ, retryQ, dlq, statusQ, ledger, worker, channel, breaker, pc, msg, held,
              sends, redelivered, orphaned, workerFaults>>
vars == <<apiVars, published, tierVars>>

ASSUME PipelineAssumption ==
  /\ None \notin Requests \cup Keys \cup Api!Answers \cup Tier!Msgs
  /\ ApiFaultKinds \subseteq {"call", "crash", "expiry"}
  /\ MaxApiFaults \in Nat
  /\ Malformed \subseteq Requests /\ Unregistered \subseteq Requests
  /\ IsFiniteSet(Workers) /\ IsFiniteSet(Slots)
  /\ MaxAttempts \in Nat
  /\ NumTiers \in Nat /\ MaxAttempts <= NumTiers /\ Tier!BreakerDeferTier <= NumTiers
  /\ Threshold \in Nat \ {0}
  /\ WorkerFaultKinds \subseteq {"call", "channel", "stop", "crash"}
  /\ MaxWorkerFaults \in Nat

Init == Api!Init /\ Tier!Init

\* A step of a request; the one that publishes its job puts the message in email.queue.
ApiStep ==
  /\ Api!Next
  /\ IF published' = published THEN UNCHANGED tierVars
     ELSE \E r \in Requests : Tier!Enqueue(r)

\* A step of the worker tier, none of which publishes a job.
TierStep == UNCHANGED <<apiVars, published>> /\ Tier!Next

Next == ApiStep \/ TierStep

Spec == Init /\ [][Next]_vars

(***************************************************************************)
(* Properties.                                                             *)
(***************************************************************************)

\* What a client was told with a 201 is kept end to end.  The job is in the custody of
\* the worker tier until the provider has accepted its email or it is in the dead-letter
\* queue; a hand-off of it was interrupted only after the broker took a message
\* of it back; and a job that was never published is told of by no request but a
\* duplicate, when the one that made it still runs, died, or had a call fail.
PromiseKept ==
  \A r \in Requests : Api!Accepted(r) =>
    LET j == Api!JobOf(r)
    IN  \/ Tier!InCustody(j) \/ Tier!Accepted(j) \/ Tier!DeadLettered(j)
        \/ j \in orphaned /\ redelivered[j] > 0
        \/ /\ answer[r] = "duplicate" /\ j \notin published
           /\ at[j] \in Api!Running \cup {"dead"} \/ j \in hurt

\* However clients repeat a request, whatever fails on the way, and however often the
\* broker redelivers, all emails and dead letters under an idempotency key are
\* of one job, the one every client of the key was told.
OneEmailPerKey ==
  \A m, n \in Tier!Msgs :
    LET Out(x) == sends[x] > 0 \/ dlq[x] > 0
    IN  /\ Out(m) /\ Out(n) /\ key[m.job] = key[n.job] => m.job = n.job
        /\ Out(m) => \A r \in Requests :
             Api!Accepted(r) /\ key[r] = key[m.job] => Api!JobOf(r) = m.job

=============================================================================
