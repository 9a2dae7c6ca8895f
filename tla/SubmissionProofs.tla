--------------------------- MODULE SubmissionProofs ---------------------------
(***************************************************************************)
(* Proofs about Submission for every number of requests, keys and faults.  *)
(***************************************************************************)
EXTENDS Submission, TLAPS

\* No request has been made.
LEMMA SubmissionInit == Init => SubmissionInv
<1> SUFFICES ASSUME Init PROVE SubmissionInv
  OBVIOUS
<1>1. TypeOK
  <2>1. 0 \in 0..MaxFaults
    BY SubmissionAssumption
  <2>2. /\ pc \in [Requests -> Labels]
        /\ \A r \in Requests : pc[r] = "idle" /\ key[r] = None
    BY DEF Init, Labels
  <2> QED
    BY <2>1, <2>2 DEF Init, TypeOK
<1>2. CacheSound /\ HolderOwnsKey /\ RowPerKey
  BY DEF Init, CacheSound, HolderOwnsKey, Holding, RowPerKey
<1>3. ReadSound
  BY SubmissionAssumption DEF Init, ReadSound, Answers
<1>4. RequestsProgress
  BY SubmissionAssumption DEF Init, RequestsProgress, Progress, Answers
<1> QED
  BY <1>1, <1>2, <1>3, <1>4 DEF SubmissionInv

\* Every step keeps the types.
LEMMA SubmissionType == TypeOK /\ [Next]_vars => TypeOK'
<1> SUFFICES ASSUME TypeOK, [Next]_vars PROVE TypeOK'
  OBVIOUS
<1> USE SubmissionAssumption DEF TypeOK, Labels, Answers, At, Goto, Reply
<1>1. ASSUME NEW r \in Requests, NEW k \in Keys, Submit(r, k) PROVE TypeOK'
  BY <1>1 DEF Submit
<1>2. ASSUME NEW r \in Requests, Step(r) PROVE TypeOK'
  BY <1>2 DEF Step, SetNX, Get, Find, Create, Publish, MarkPublished, Del, Read
<1>3. ASSUME NEW r \in Requests, CallFails(r) PROVE TypeOK'
  BY <1>3 DEF CallFails, LateEffect, Fault, Running
<1>4. ASSUME NEW r \in Requests, Crash(r) PROVE TypeOK'
  BY <1>4 DEF Crash, Fault, Running
<1>5. ASSUME NEW k \in Keys, Expire(k) PROVE TypeOK'
  BY <1>5 DEF Expire, Fault
<1>6. CASE UNCHANGED vars
  BY <1>6 DEF vars
<1> QED
  BY <1>1, <1>2, <1>3, <1>4, <1>5, <1>6 DEF Next, Quiescent

\* Every step keeps the invariant: the database's unique key admits one row, SET NX
\* one holder, and a key only expires under a request that has ended.
LEMMA SubmissionStep == SubmissionInv /\ [Next]_vars => SubmissionInv'
<1> SUFFICES ASSUME SubmissionInv, [Next]_vars PROVE SubmissionInv'
  OBVIOUS
<1>t. TypeOK /\ TypeOK'
  BY SubmissionType DEF SubmissionInv
<1> USE SubmissionAssumption
    DEF TypeOK, Answers, SubmissionInv, HolderOwnsKey, Holding, Running, CacheSound, ReadSound, RowPerKey,
        RequestsProgress, Progress, At, Goto, Reply
<1>1. ASSUME NEW r \in Requests, NEW k \in Keys, Submit(r, k) PROVE SubmissionInv'
  BY <1>1, <1>t DEF Submit
<1>2. ASSUME NEW r \in Requests, Step(r) PROVE SubmissionInv'
  <2>1. CASE SetNX(r)
    BY <2>1, <1>t DEF SetNX
  <2>2. CASE Get(r)
    BY <2>2, <1>t DEF Get
  <2>3. CASE Find(r)
    BY <2>3, <1>t DEF Find
  <2>4. CASE Create(r)
    BY <2>4, <1>t DEF Create
  <2>5. CASE Publish(r)
    BY <2>5, <1>t DEF Publish
  <2>6. CASE MarkPublished(r)
    BY <2>6, <1>t DEF MarkPublished
  <2>7. CASE Del(r)
    BY <2>7, <1>t DEF Del
  <2>8. CASE Read(r)
    BY <2>8, <1>t DEF Read
  <2> QED
    BY <1>2, <2>1, <2>2, <2>3, <2>4, <2>5, <2>6, <2>7, <2>8 DEF Step
<1>3. ASSUME NEW r \in Requests, CallFails(r) PROVE SubmissionInv'
  BY <1>3, <1>t DEF CallFails, LateEffect
<1>4. ASSUME NEW r \in Requests, Crash(r) PROVE SubmissionInv'
  BY <1>4, <1>t DEF Crash
<1>5. ASSUME NEW k \in Keys, Expire(k) PROVE SubmissionInv'
  BY <1>5, <1>t DEF Expire
<1>6. CASE UNCHANGED vars
  BY <1>6, <1>t DEF vars
<1> QED
  BY <1>1, <1>2, <1>3, <1>4, <1>5, <1>6 DEF Next, Quiescent

(***************************************************************************)
(* The theorems.                                                           *)
(***************************************************************************)

\* The inductive invariant of a submission holds in every reachable state.
THEOREM SubmissionInvariant == Spec => []SubmissionInv
<1>1. Init => SubmissionInv
  BY SubmissionInit
<1>2. SubmissionInv /\ [Next]_vars => SubmissionInv'
  BY SubmissionStep
<1> QED
  BY <1>1, <1>2, PTL DEF Spec

\* However many requests, replicas, failed calls, crashes and expired keys there
\* are, at most one job of an idempotency key is published: a published job has a
\* row, and the table refuses a second row for a key.
THEOREM OnlyOneJobPerKey == Spec => []OneJobPerKey
<1>1. SubmissionInv => OneJobPerKey
  BY DEF SubmissionInv, TypeOK, RowPerKey, RequestsProgress, Progress, OneJobPerKey
<1> QED
  BY <1>1, SubmissionInvariant, PTL

\* A 201 names a job that has the row of the client's key.
LEMMA AnswerNamesRow ==
  ASSUME SubmissionInv, NEW q \in Requests, Accepted(q)
  PROVE  JobOf(q) \in Requests /\ key[JobOf(q)] = key[q] /\ row[JobOf(q)] # "NONE"
BY DEF SubmissionInv, ReadSound, RequestsProgress, Progress, Accepted, JobOf

\* All 201 answers for an idempotency key name one job: each names a job that has
\* the key's row.
THEOREM AnswersAgree == Spec => []OneAnswerPerKey
<1>1. SubmissionInv => OneAnswerPerKey
  <2> SUFFICES ASSUME SubmissionInv, NEW r \in Requests, NEW s \in Requests,
                      Accepted(r), Accepted(s), key[r] = key[s]
               PROVE  JobOf(r) = JobOf(s)
    BY DEF OneAnswerPerKey
  <2> QED
    BY AnswerNamesRow DEF SubmissionInv, RowPerKey
<1> QED
  BY <1>1, SubmissionInvariant, PTL

\* A request that reserved its key holds it until it answers, so the DEL of its
\* catch never frees a key another request reserved.
THEOREM KeysAreHeld == Spec => []HolderOwnsKey
<1>1. SubmissionInv => HolderOwnsKey
  BY DEF SubmissionInv
<1> QED
  BY <1>1, SubmissionInvariant, PTL

\* A client told of an earlier job is told of one that is published or still being
\* submitted, unless its submitter died or had a call fail.
THEOREM DuplicatesAreBacked == Spec => []DuplicateIsBacked
<1>1. SubmissionInv => DuplicateIsBacked
  <2> SUFFICES ASSUME SubmissionInv, NEW r \in Requests, answer[r] = "duplicate",
                      NEW s, s = existing[r]
               PROVE  s \in published \/ pc[s] \in Running \/ pc[s] = "dead" \/ s \in hurt
    BY DEF DuplicateIsBacked
  <2>1. s \in Requests /\ row[s] # "NONE"
    BY DEF SubmissionInv, ReadSound
  <2>2. pc[s] \in Labels /\ Progress(s)
    BY <2>1 DEF SubmissionInv, TypeOK, RequestsProgress
  <2> QED
    BY <2>1, <2>2 DEF Labels, Running, Progress
<1> QED
  BY <1>1, SubmissionInvariant, PTL

\* The variables keep their types.
THEOREM SubmissionTypes == Spec => []TypeOK
<1>1. SubmissionInv => TypeOK
  BY DEF SubmissionInv
<1> QED
  BY <1>1, SubmissionInvariant, PTL

(***************************************************************************)
(* Submission implements KeyDecision.                                      *)
(***************************************************************************)

\* The table decides a key: it stands for the one job whose row carries it.
DecidedByRow ==
  \A k \in Keys :
    /\ jobOfKey[k] \in Requests \cup {None}
    /\ \A r \in Requests : jobOfKey[k] = r <=> Inserted(r) /\ key[r] = k

\* Rows are unique by key, so a key that a row carries stands for that row's job.
LEMMA RowDecides == SubmissionInv => DecidedByRow
<1> SUFFICES ASSUME SubmissionInv, NEW k \in Keys
             PROVE  /\ jobOfKey[k] \in Requests \cup {None}
                    /\ \A r \in Requests : jobOfKey[k] = r <=> Inserted(r) /\ key[r] = k
  BY DEF DecidedByRow
<1> DEFINE Carries(r) == Inserted(r) /\ key[r] = k
<1>1. jobOfKey[k] = IF \E r \in Requests : Carries(r)
                    THEN CHOOSE r \in Requests : Carries(r) ELSE None
  BY DEF jobOfKey
<1>2. \A r, s \in Requests : Carries(r) /\ Carries(s) => r = s
  BY DEF SubmissionInv, RowPerKey, Inserted
<1>3. None \notin Requests
  BY SubmissionAssumption
<1> HIDE DEF Carries
<1>4. CASE \E r \in Requests : Carries(r)
  <2>1. jobOfKey[k] \in Requests /\ Carries(jobOfKey[k])
    BY <1>1, <1>4
  <2> QED
    BY <2>1, <1>2 DEF Carries
<1>5. CASE ~ \E r \in Requests : Carries(r)
  BY <1>1, <1>3, <1>5 DEF Carries
<1> QED
  BY <1>4, <1>5

\* A key stands for the same job as long as the same rows carry it.
LEMMA DecisionStays ==
  ASSUME DecidedByRow, DecidedByRow',
         \A r \in Requests, k \in Keys :
           (row'[r] # "NONE" /\ key'[r] = k) <=> (row[r] # "NONE" /\ key[r] = k)
  PROVE  jobOfKey' = jobOfKey
<1>1. ASSUME NEW k \in Keys PROVE jobOfKey'[k] = jobOfKey[k]
  <2>1. \A r \in Requests : jobOfKey'[k] = r <=> jobOfKey[k] = r
    BY DEF DecidedByRow, Inserted
  <2> QED
    BY <2>1 DEF DecidedByRow
<1> QED
  BY <1>1, Zenon DEF jobOfKey

\* What clients were told stays as long as the 201 answers do.
LEMMA ToldStays ==
  ASSUME \A r \in Requests :
           /\ answer'[r] \in {"created", "duplicate"} <=> Accepted(r)
           /\ Accepted(r) => answer'[r] = answer[r] /\ existing'[r] = existing[r]
  PROVE  toldJob' = toldJob
<1>1. ASSUME NEW r \in Requests PROVE toldJob'[r] = toldJob[r]
  BY DEF toldJob, Accepted, JobOf
<1> QED
  BY <1>1, Zenon DEF toldJob

\* The job of a request is the one its key stands for once its row is inserted.
LEMMA ChosenByRow ==
  ASSUME SubmissionInv, NEW r \in Requests, Inserted(r)
  PROVE  key[r] \in Keys /\ jobOfKey[key[r]] = r
<1>1. key[r] \in Keys
  BY DEF SubmissionInv, TypeOK, RequestsProgress, Progress, Inserted
<1> QED
  BY <1>1, RowDecides DEF DecidedByRow

\* Inserting the row of a key that has none decides the key.
LEMMA InsertDecides ==
  ASSUME SubmissionInv, SubmissionInv', NEW r \in Requests, At(r, "create"),
         ~ \E s \in Requests : row[s] # "NONE" /\ key[s] = key[r],
         row' = [row EXCEPT ![r] = "QUEUED"], UNCHANGED <<key, published, existing>>,
         answer' \in {answer, [answer EXCEPT ![r] = "error"]}
  PROVE  Decision!Decide(r)
<1>1. DecidedByRow /\ DecidedByRow'
  <2>1. SubmissionInv' => DecidedByRow'
    BY RowDecides, PTL
  <2> QED
    BY <2>1, RowDecides
<1>2. key[r] \in Keys /\ answer[r] = None /\ row[r] = "NONE"
  BY DEF SubmissionInv, TypeOK, RequestsProgress, Progress, At
<1>3. answer \in [Requests -> Answers \cup {None}] /\ row \in [Requests -> {"NONE", "QUEUED", "PUBLISHED"}]
  BY DEF SubmissionInv, TypeOK
<1>4. toldJob[r] = None
  BY <1>2, SubmissionAssumption DEF toldJob, Accepted, Answers
<1>5. jobOfKey[key[r]] = None
  BY <1>1, <1>2 DEF DecidedByRow, Inserted
<1>6. toldJob' = toldJob
  BY <1>2, <1>3, ToldStays, SubmissionAssumption DEF Accepted, Answers
<1>7. ASSUME NEW k \in Keys PROVE jobOfKey'[k] = [jobOfKey EXCEPT ![key[r]] = r][k]
  <2>1. CASE k = key[r]
    BY <2>1, <1>1, <1>3 DEF DecidedByRow, Inserted, jobOfKey
  <2>2. CASE k # key[r]
    <3>1. \A s \in Requests : jobOfKey'[k] = s <=> jobOfKey[k] = s
      BY <2>2, <1>1, <1>3 DEF DecidedByRow, Inserted
    <3>2. jobOfKey'[k] = jobOfKey[k]
      BY <3>1, <1>1 DEF DecidedByRow
    <3> QED
      BY <3>2, <2>2 DEF jobOfKey
  <2> QED
    BY <2>1, <2>2
<1>8. jobOfKey' = [jobOfKey EXCEPT ![key[r]] = r]
  <2>1. jobOfKey' = [k \in Keys |-> jobOfKey'[k]]
    BY DEF jobOfKey
  <2>2. [jobOfKey EXCEPT ![key[r]] = r] = [k \in Keys |-> [jobOfKey EXCEPT ![key[r]] = r][k]]
    BY DEF jobOfKey
  <2> HIDE DEF jobOfKey
  <2> QED
    BY <1>7, <2>1, <2>2
<1> QED
  BY <1>2, <1>4, <1>5, <1>6, <1>8 DEF Decision!Decide

\* A 201 tells the client of a job that its key stands for.
LEMMA AnswerTells ==
  ASSUME SubmissionInv, SubmissionInv', NEW r \in Requests, NEW a \in {"created", "duplicate"},
         pc[r] # "done", Reply(r, a), UNCHANGED <<row, key, existing, published>>,
         NEW j \in Requests, j = IF a = "created" THEN r ELSE existing[r],
         Inserted(j), key[j] = key[r], j = r => r \in published
  PROVE  Decision!Tell(r, j)
<1>1. DecidedByRow /\ DecidedByRow'
  <2>1. SubmissionInv' => DecidedByRow'
    BY RowDecides, PTL
  <2> QED
    BY <2>1, RowDecides
<1>2. jobOfKey' = jobOfKey
  BY <1>1, DecisionStays
<1>3. Decision!Chosen(j)
  BY ChosenByRow DEF Decision!Chosen
<1>4. answer[r] = None /\ answer \in [Requests -> Answers \cup {None}]
  BY DEF SubmissionInv, TypeOK, RequestsProgress, Progress
<1>5. toldJob[r] = None
  BY <1>4, SubmissionAssumption DEF toldJob, Accepted, Answers
<1>6. answer' = [answer EXCEPT ![r] = a]
  BY DEF Reply
<1>7. toldJob' = [toldJob EXCEPT ![r] = j]
  <2>1. ASSUME NEW s \in Requests PROVE toldJob'[s] = [toldJob EXCEPT ![r] = j][s]
    BY <1>4, <1>6 DEF toldJob, Accepted, JobOf
  <2> QED
    BY <2>1 DEF toldJob
<1> QED
  BY <1>2, <1>3, <1>5, <1>7 DEF Decision!Tell

\* A step that inserts no row, publishes nothing and gives no 201 is none of KeyDecision.
LEMMA NothingDecided ==
  ASSUME SubmissionInv, SubmissionInv', UNCHANGED <<key, published>>, NEW r \in Requests,
         \A s \in Requests : row'[s] = "NONE" <=> row[s] = "NONE",
         answer[r] # None => answer' = answer,
         \/ answer' = answer
         \/ answer' = [answer EXCEPT ![r] = "error"]
         \/ answer' = [answer EXCEPT ![r] = "conflict"]
         \/ answer' = [answer EXCEPT ![r] = "unavailable"],
         existing' = existing \/ (answer[r] = None /\ \E x : existing' = [existing EXCEPT ![r] = x])
  PROVE  UNCHANGED Decision!vars
<1>1. DecidedByRow /\ DecidedByRow'
  <2>1. SubmissionInv' => DecidedByRow'
    BY RowDecides, PTL
  <2> QED
    BY <2>1, RowDecides
<1>2. jobOfKey' = jobOfKey
  BY <1>1, DecisionStays
<1>3. /\ answer \in [Requests -> Answers \cup {None}]
      /\ existing \in [Requests -> Requests \cup {None}]
  BY DEF SubmissionInv, TypeOK
<1>4. ASSUME NEW s \in Requests
      PROVE  /\ answer'[s] \in {"created", "duplicate"} <=> Accepted(s)
             /\ Accepted(s) => answer'[s] = answer[s] /\ existing'[s] = existing[s]
  BY <1>3, SubmissionAssumption DEF Accepted, Answers
<1>5. toldJob' = toldJob
  BY <1>4, ToldStays
<1> QED
  BY <1>2, <1>5 DEF Decision!vars

\* A request publishes its job before it answers, and its row is its key's.
LEMMA PublishOfChosen ==
  ASSUME SubmissionInv, SubmissionInv', NEW r \in Requests, At(r, "publish"),
         published' = published \cup {r}, UNCHANGED <<row, key, existing, answer>>
  PROVE  Decision!Publish(r)
<1>1. DecidedByRow /\ DecidedByRow'
  <2>1. SubmissionInv' => DecidedByRow'
    BY RowDecides, PTL
  <2> QED
    BY <2>1, RowDecides
<1>2. jobOfKey' = jobOfKey
  BY <1>1, DecisionStays
<1>3. answer[r] = None /\ Inserted(r)
  BY DEF SubmissionInv, RequestsProgress, Progress, At, Inserted
<1>4. toldJob' = toldJob
  BY ToldStays DEF Accepted
<1>5. toldJob[r] = None
  BY <1>3, SubmissionAssumption DEF toldJob, Accepted, Answers
<1>6. Decision!Chosen(r)
  BY <1>3, ChosenByRow DEF Decision!Chosen
<1> QED
  BY <1>2, <1>4, <1>5, <1>6 DEF Decision!Publish

\* Every step of a submission is a step of KeyDecision, or changes nothing of it.
LEMMA DecisionStep ==
  SubmissionInv /\ SubmissionInv' /\ [Next]_vars => [Decision!Next]_(Decision!vars)
<1> SUFFICES ASSUME SubmissionInv, SubmissionInv', [Next]_vars
             PROVE  Decision!Next \/ UNCHANGED Decision!vars
  OBVIOUS
<1>t. TypeOK
  BY DEF SubmissionInv
<1>a. ASSUME NEW r \in Requests, pc[r] \in Running
      PROVE  answer[r] = None /\ key[r] \in Keys /\ Progress(r)
  BY <1>a, <1>t DEF SubmissionInv, RequestsProgress, Progress, Running, TypeOK
<1>1. ASSUME NEW r \in Requests, NEW k \in Keys, Submit(r, k) PROVE Decision!Next
  <2>1. key[r] = None /\ row[r] = "NONE" /\ answer[r] = None
    BY <1>1, <1>t DEF SubmissionInv, RequestsProgress, Progress, TypeOK, Submit, At
  <2>2. key' = [key EXCEPT ![r] = k] /\ UNCHANGED <<row, published, answer, existing>>
    BY <1>1 DEF Submit
  <2>3. DecidedByRow /\ DecidedByRow'
    <3>1. SubmissionInv' => DecidedByRow'
      BY RowDecides, PTL
    <3> QED
      BY <3>1, RowDecides
  <2>4. jobOfKey' = jobOfKey
    BY <2>1, <2>2, <2>3, <1>t, DecisionStays DEF TypeOK
  <2>5. toldJob' = toldJob
    BY <2>2, ToldStays DEF Accepted
  <2> QED
    BY <2>1, <2>2, <2>4, <2>5 DEF Decision!Next, Decision!Submit
<1>2. ASSUME NEW r \in Requests, Step(r) PROVE Decision!Next \/ UNCHANGED Decision!vars
  <2>1. CASE SetNX(r)
    BY <2>1, NothingDecided DEF SetNX, Goto
  <2>2. CASE Get(r)
    <3>1. answer[r] = None
      BY <2>2, <1>a DEF Get, At, Running, Labels
    <3> QED
      BY <2>2, <3>1, NothingDecided DEF Get, Goto, Reply
  <2>3. CASE Find(r)
    <3>1. answer[r] = None /\ row[r] = "NONE"
      BY <2>3, <1>a DEF Find, At, Running, Labels, Progress
    <3>2. existing[r] \in Requests /\ key[existing[r]] = key[r]
      BY <2>3 DEF SubmissionInv, ReadSound, Find, At
    <3>3. CASE row[existing[r]] # "NONE"
      <4>1. Decision!Tell(r, existing[r])
        BY <2>3, <3>1, <3>2, <3>3, AnswerTells DEF Find, At, Inserted
      <4> QED
        BY <3>2, <4>1 DEF Decision!Next
    <3>4. CASE row[existing[r]] = "NONE"
      BY <2>3, <3>1, <3>4, NothingDecided DEF Find, Reply
    <3> QED
      BY <3>3, <3>4
  <2>4. CASE Create(r)
    <3>1. answer[r] = None
      BY <2>4, <1>a DEF Create, At, Running, Labels
    <3>2. CASE \E s \in Requests : row[s] # "NONE" /\ key[s] = key[r]
      BY <2>4, <3>1, <3>2, NothingDecided DEF Create, Reply
    <3>3. CASE ~ \E s \in Requests : row[s] # "NONE" /\ key[s] = key[r]
      <4>1. Decision!Decide(r)
        BY <2>4, <3>3, InsertDecides DEF Create
      <4> QED
        BY <4>1 DEF Decision!Next
    <3> QED
      BY <3>2, <3>3
  <2>5. CASE Publish(r)
    BY <2>5, PublishOfChosen DEF Publish, Decision!Next
  <2>6. CASE MarkPublished(r)
    <3>1. \A s \in Requests : row'[s] = "NONE" <=> row[s] = "NONE"
      BY <2>6, <1>a, <1>t DEF MarkPublished, At, Running, Labels, Progress, TypeOK
    <3> QED
      BY <2>6, <3>1, NothingDecided DEF MarkPublished
  <2>7. CASE Del(r)
    <3>1. answer[r] = None
      BY <2>7, <1>a DEF Del, At, Running, Labels
    <3> QED
      BY <2>7, <3>1, NothingDecided DEF Del, Reply
  <2>8. CASE Read(r)
    <3>1. Inserted(r) /\ r \in published /\ pc[r] # "done"
      BY <2>8, <1>a DEF Read, At, Running, Labels, Progress, Inserted
    <3>2. Decision!Tell(r, r)
      BY <2>8, <3>1, AnswerTells DEF Read
    <3> QED
      BY <3>2 DEF Decision!Next
  <2> QED
    BY <1>2, <2>1, <2>2, <2>3, <2>4, <2>5, <2>6, <2>7, <2>8 DEF Step
<1>3. ASSUME NEW r \in Requests, CallFails(r) PROVE Decision!Next \/ UNCHANGED Decision!vars
  <2>1. answer[r] = None
    BY <1>3, <1>a DEF CallFails
  <2>2. /\ UNCHANGED <<key, existing>>
        /\ answer' \in {answer, [answer EXCEPT ![r] = "error"]}
        /\ pc[r] = "publish" => answer' = answer
    BY <1>3 DEF CallFails, Reply
  <2>3. CASE At(r, "create") /\ row' # row
    <3>1. /\ ~ \E s \in Requests : row[s] # "NONE" /\ key[s] = key[r]
          /\ row' = [row EXCEPT ![r] = "QUEUED"] /\ UNCHANGED published
      BY <1>3, <2>3 DEF CallFails, LateEffect, At
    <3> QED
      BY <2>2, <2>3, <3>1, InsertDecides DEF Decision!Next
  <2>4. CASE At(r, "publish") /\ published' # published
    <3>1. published' = published \cup {r} /\ UNCHANGED row
      BY <1>3, <2>4 DEF CallFails, LateEffect, At
    <3> QED
      BY <2>2, <2>4, <3>1, PublishOfChosen DEF Decision!Next, At
  <2>5. CASE ~(At(r, "create") /\ row' # row) /\ ~(At(r, "publish") /\ published' # published)
    <3>1. UNCHANGED published
      BY <1>3, <2>5 DEF CallFails, LateEffect, At
    <3>2. row' = row \/ (At(r, "mark") /\ row' = [row EXCEPT ![r] = "PUBLISHED"])
      BY <1>3, <2>5 DEF CallFails, LateEffect, At
    <3>3. \A s \in Requests : row'[s] = "NONE" <=> row[s] = "NONE"
      BY <3>2, <1>3, <1>a, <1>t DEF CallFails, At, Progress, TypeOK
    <3> QED
      BY <2>1, <2>2, <3>1, <3>3, NothingDecided
  <2> QED
    BY <2>3, <2>4, <2>5
<1>4. ASSUME NEW r \in Requests, Crash(r) PROVE UNCHANGED Decision!vars
  BY <1>4, NothingDecided DEF Crash
<1>5. ASSUME NEW k \in Keys, Expire(k) PROVE UNCHANGED Decision!vars
  <2>1. cache[k] \in Requests
    BY <1>5, <1>t DEF Expire, TypeOK
  <2> QED
    BY <1>5, <2>1, NothingDecided DEF Expire
<1>6. CASE UNCHANGED vars
  BY <1>6 DEF vars, Decision!vars, jobOfKey, toldJob, Inserted, Accepted, JobOf
<1> QED
  BY <1>1, <1>2, <1>3, <1>4, <1>5, <1>6 DEF Next, Quiescent

\* Submission implements KeyDecision: the row decides the key, once and for all, and
\* everything published or told under the key is what the row says.
THEOREM RefinesKeyDecision == Spec => ImplementsKeyDecision
<1>1. Init => Decision!Init
  <2> SUFFICES ASSUME Init PROVE Decision!Init
    OBVIOUS
  <2>1. jobOfKey = [k \in Keys |-> None]
    BY DEF Init, jobOfKey, Inserted
  <2>2. toldJob = [r \in Requests |-> None]
    BY SubmissionAssumption DEF Init, toldJob, Accepted, Answers
  <2> QED
    BY <2>1, <2>2 DEF Init, Decision!Init
<1>2. SubmissionInv /\ SubmissionInv' /\ [Next]_vars => [Decision!Next]_(Decision!vars)
  BY DecisionStep
<1> QED
  BY <1>1, <1>2, SubmissionInvariant, PTL DEF Spec, Decision!Spec, ImplementsKeyDecision

=============================================================================
