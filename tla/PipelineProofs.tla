---------------------------- MODULE PipelineProofs ----------------------------
(***************************************************************************)
(* Proofs about Pipeline for every number of requests, keys, workers,      *)
(* slots, attempts and faults.                                             *)
(***************************************************************************)
EXTENDS Pipeline, TLAPS

\* The API replicas of the pipeline behave as Submission says.
LEMMA ApiSpec == Spec => Api!Spec
<1>1. Init => Api!Init
  BY DEF Init
<1>2. [Next]_vars => [Api!Next]_(Api!vars)
  <2> SUFFICES ASSUME [Next]_vars PROVE Api!Next \/ UNCHANGED Api!vars
    OBVIOUS
  <2>1. CASE ApiStep
    BY <2>1 DEF ApiStep
  <2>2. CASE TierStep
    BY <2>2 DEF TierStep, apiVars, Api!vars
  <2>3. CASE UNCHANGED vars
    BY <2>3 DEF vars, apiVars, Api!vars
  <2> QED
    BY <2>1, <2>2, <2>3 DEF Next
<1> QED
  BY <1>1, <1>2, PTL DEF Spec, Api!Spec

\* Its workers and queues behave as Delivery says.
LEMMA TierSpec == Spec => Tier!Spec
<1>1. Init => Tier!Init
  BY DEF Init
<1>2. [Next]_vars => [Tier!Next]_(Tier!vars)
  <2> SUFFICES ASSUME [Next]_vars PROVE Tier!Next \/ UNCHANGED Tier!vars
    OBVIOUS
  <2>1. CASE ApiStep
    <3>1. CASE published' = published
      BY <2>1, <3>1 DEF ApiStep, tierVars, Tier!vars, Tier!queues, Tier!process, Tier!handler
    <3>2. CASE published' # published
      BY <2>1, <3>2 DEF ApiStep, Tier!Next
    <3> QED
      BY <3>1, <3>2
  <2>2. CASE TierStep
    BY <2>2 DEF TierStep
  <2>3. CASE UNCHANGED vars
    BY <2>3 DEF vars, tierVars, Tier!vars, Tier!queues, Tier!process, Tier!handler
  <2> QED
    BY <2>1, <2>2, <2>3 DEF Next
<1> QED
  BY <1>1, <1>2, PTL DEF Spec, Tier!Spec

\* The constants of the pipeline are what Delivery assumes of its own.
LEMMA TierAssumption ==
  /\ Tier!IsFiniteSet(Workers) /\ Tier!IsFiniteSet(Slots)
BY PipelineAssumption DEF IsFiniteSet, Tier!IsFiniteSet

\* What the components are known to keep, of the pipeline's own state.
ComponentsSound ==
  /\ Api!SubmissionInv /\ Api!DuplicateIsBacked
  /\ Tier!NoSilentLoss /\ Tier!BudgetInv /\ Tier!OnlyPublished

\* The theorems about Submission and Delivery hold in the pipeline.
THEOREM Components == Spec => []ComponentsSound
<1>1. Api!Spec => [](Api!SubmissionInv /\ Api!DuplicateIsBacked)
  <2>1. Api!Spec => []Api!SubmissionInv
    BY Api!SubmissionInvariant, PipelineAssumption
  <2>2. Api!Spec => []Api!DuplicateIsBacked
    BY Api!DuplicatesAreBacked, PipelineAssumption
  <2> QED
    BY <2>1, <2>2, PTL
<1>2. Tier!Spec => []Tier!NoSilentLoss
  BY Tier!NoJobIsDropped, PipelineAssumption, TierAssumption
<1>3. Tier!Spec => []Tier!BudgetInv
  BY Tier!BudgetInvariant, PipelineAssumption, TierAssumption
<1>4. Tier!Spec => []Tier!OnlyPublished
  BY Tier!NothingFromNowhere, PipelineAssumption, TierAssumption
<1> QED
  BY <1>1, <1>2, <1>3, <1>4, ApiSpec, TierSpec, PTL DEF ComponentsSound

\* A 201 is kept end to end: the job it names is published, unless it is a duplicate's
\* of a submission that still runs, died or was hurt; and a published job is in custody,
\* sent or dead-lettered, unless its hand-off was interrupted after a redelivery.
THEOREM PromisesAreKept == Spec => []PromiseKept
<1>1. ComponentsSound => PromiseKept
  <2> SUFFICES ASSUME ComponentsSound, NEW r \in Requests, Api!Accepted(r),
                      NEW j, j = Api!JobOf(r)
               PROVE  \/ Tier!InCustody(j) \/ Tier!Accepted(j) \/ Tier!DeadLettered(j)
                      \/ j \in orphaned /\ redelivered[j] > 0
                      \/ /\ answer[r] = "duplicate" /\ j \notin published
                         /\ at[j] \in Api!Running \cup {"dead"} \/ j \in hurt
    BY DEF PromiseKept
  <2>1. j \in Requests
    BY Api!AnswerNamesRow, PipelineAssumption DEF ComponentsSound
  <2>2. CASE j \in published
    <3>1. Tier!InCustody(j) \/ Tier!Settled(j)
      BY <2>2 DEF ComponentsSound, Tier!NoSilentLoss
    <3>2. j \in orphaned => redelivered[j] > 0
      BY <2>1 DEF ComponentsSound, Tier!BudgetInv, Tier!UndisturbedSound, Tier!Undisturbed, Tier!TypeOK
    <3> QED
      BY <3>1, <3>2 DEF Tier!Settled
  <2>3. CASE j \notin published
    <3>1. answer[r] # "created"
      BY <2>3 DEF ComponentsSound, Api!SubmissionInv, Api!RequestsProgress, Api!Progress, Api!JobOf
    <3>2. answer[r] = "duplicate" /\ j = existing[r]
      BY <3>1 DEF Api!Accepted, Api!JobOf
    <3> QED
      BY <2>3, <3>2 DEF ComponentsSound, Api!DuplicateIsBacked
  <2> QED
    BY <2>2, <2>3
<1> QED
  BY <1>1, Components, PTL

\* Under an idempotency key only one job ever leaves the pipeline, and it is the one its
\* clients were told: what leaves was published, what was published has the
\* key's row, and so has what a client was told.
THEOREM EmailsAreOfOneJob == Spec => []OneEmailPerKey
<1>1. ComponentsSound => OneEmailPerKey
  <2> DEFINE Out(x) == sends[x] > 0 \/ dlq[x] > 0
  <2> SUFFICES ASSUME ComponentsSound
               PROVE  \A m, n \in Tier!Msgs :
                        /\ Out(m) /\ Out(n) /\ key[m.job] = key[n.job] => m.job = n.job
                        /\ Out(m) => \A r \in Requests :
                             Api!Accepted(r) /\ key[r] = key[m.job] => Api!JobOf(r) = m.job
    BY DEF OneEmailPerKey
  <2>1. ASSUME NEW m \in Tier!Msgs, Out(m) PROVE m.job \in Requests /\ row[m.job] # "NONE"
    <3>1. m.job \in Requests
      BY DEF Tier!Msgs
    <3>2. Tier!Accepted(m.job) \/ Tier!DeadLettered(m.job)
      BY <2>1 DEF Tier!Accepted, Tier!DeadLettered
    <3>3. m.job \in published
      BY <3>1, <3>2 DEF ComponentsSound, Tier!OnlyPublished
    <3> QED
      BY <3>1, <3>3 DEF ComponentsSound, Api!SubmissionInv, Api!RequestsProgress, Api!Progress
  <2>2. \A r \in Requests : Api!Accepted(r) =>
          /\ Api!JobOf(r) \in Requests /\ key[Api!JobOf(r)] = key[r]
          /\ row[Api!JobOf(r)] # "NONE"
    BY Api!AnswerNamesRow, PipelineAssumption DEF ComponentsSound
  <2>3. \A i, j \in Requests : row[i] # "NONE" /\ row[j] # "NONE" /\ key[i] = key[j] => i = j
    BY DEF ComponentsSound, Api!SubmissionInv, Api!RowPerKey
  <2> HIDE DEF Out
  <2> QED
    BY <2>1, <2>2, <2>3
<1> QED
  BY <1>1, Components, PTL

=============================================================================
