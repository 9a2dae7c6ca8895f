-------------------------- MODULE DeliveryInvariant ---------------------------
(***************************************************************************)
(* The inductive invariant behind the safety properties of Delivery.       *)
(*                                                                         *)
(* NoSilentLoss is not inductive: a duplicate is acknowledged because its  *)
(* row says FAILED, and nothing in NoSilentLoss says that a FAILED row has *)
(* a successor.  The strengthening speaks of how far a job has come.       *)
(***************************************************************************)
EXTENDS Delivery

\* The message of the handler is still to be disposed of, and the broker will
\* take it back if the handler does not.
Held(h) == held[h] /\ pc[h] \in WorkingLabels

Present(m) == Queued(m) \/ \E h \in Handlers : Held(h) /\ msg[h] = m
HandedOff(m) == \E h \in Handlers : pc[h] \in HandOffLabels /\ msg[h] = m

\* The job is answered for by something later than attempt a.
Beyond(j, a) ==
  \/ Settled(j)
  \/ \E m \in Msgs : m.job = j /\ m.attempt > a /\ Present(m)
  \/ \E m \in Msgs : m.job = j /\ m.attempt >= a /\ HandedOff(m)

\* Every job is, from the start, and still is when an attempt has failed.
NeverStranded ==
  /\ \A j \in submitted : Beyond(j, -1)
  /\ \A m \in Msgs : ledger[m] = "FAILED" => Beyond(m.job, m.attempt)

\* What a handler has already done where it is.
Progress(h) ==
  /\ pc[h] = "idle" => ~held[h]
  /\ pc[h] \in {"completeRetry", "publishRetry", "statusRetry"} => CanRetry(msg[h])
  /\ pc[h] \in {"completeDelivered", "statusDelivered"} => sends[msg[h]] > 0
  /\ pc[h] = "select" => ledger[msg[h]] # "NONE"
  /\ pc[h] \in HandOffLabels \cup StatusLabels => ledger[msg[h]] \in Completed
  /\ pc[h] \in {"send"} \cup CompleteLabels => ledger[msg[h]] # "NONE"
  /\ pc[h] = "statusDead" => dlq[msg[h]] > 0

HandlersProgress == \A h \in Handlers : Progress(h)

IInv ==
  /\ TypeOK
  /\ HandlersProgress
  /\ LedgerTruthful
  /\ StatusTruthful
  /\ AttemptsInOrder
  /\ NeverStranded

(***************************************************************************)
(* The inductive invariant behind OutputsPaidFor and ClaimsHoldUndisturbed. *)
(*                                                                         *)
(* A message that is queued, or in a handler that has not come to a point  *)
(* L yet, is a chance that its job comes to that point at attempt m.       *)
(* Only publishing the job and taking a message back make new chances, and *)
(* coming to the point uses one up.                                        *)
(***************************************************************************)
UpTo(m) == {n \in Msgs : n.job = m.job /\ n.attempt <= m.attempt}

\* The copies in the work queue (0) and the tiers of what may still become m.
InQueue(t, n) == IF t = 0 THEN mainQ[n] ELSE retryQ[t][n]
Copies(m) == UNION {{<<t, n, i>> : i \in 1..InQueue(t, n)} : t \in 0..NumTiers, n \in UpTo(m)}

\* Labels from which a handler may still send, dead-letter, tell the API, or hand
\* its job on to the next attempt.
Unsent == {"acquire", "deferRate", "deferBreaker", "insert", "select", "send"}
Unburied == Unsent \cup {"malformed", "completeDead", "publishDead"}
Untold == Labels \ {"idle", "ack"}
Onward == Unsent \cup {"completeRetry", "publishRetry"}

Carriers(m, L) ==
  {h \in Handlers : msg[h] \in UpTo(m) /\ pc[h] \in IF msg[h] = m THEN L ELSE Onward}

Chances(m, L) == Cardinality(Copies(m)) + Cardinality(Carriers(m, L))
Budget(j) == (IF j \in submitted THEN 1 ELSE 0) + redelivered[j]

WithinBudget ==
  \A m \in Msgs :
    /\ Chances(m, Unsent) + sends[m] <= Budget(m.job)
    /\ Chances(m, Unburied) + dlq[m] <= Budget(m.job)
    /\ Chances(m, Untold) + EventsFrom(m) <= Budget(m.job)

\* What holds of a job until the broker takes one of its messages back.
Undisturbed(j) == redelivered[j] = 0
UndisturbedSound ==
  /\ \A j \in orphaned : ~Undisturbed(j)
  /\ \A h \in Handlers : pc[h] # "idle" /\ Undisturbed(msg[h].job) =>
       held[h] /\ (pc[h] = "send" => ledger[msg[h]] = "PENDING")

BudgetInv == TypeOK /\ WithinBudget /\ UndisturbedSound

=============================================================================
