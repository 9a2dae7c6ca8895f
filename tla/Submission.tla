------------------------------ MODULE Submission ------------------------------
(***************************************************************************)
(* POST /v1/email-jobs: EmailJobsService.submit, run by any number of API  *)
(* replicas at once against one Redis (the idempotency keys), one database *)
(* (the email_jobs table, idempotencyKey unique) and the broker.           *)
(*                                                                         *)
(* A request's job id is fresh, so a job is named by the request that made *)
(* it.  An action is the effect of one awaited call and the code up to the *)
(* next await.                                                             *)
(***************************************************************************)
EXTENDS Integers

CONSTANTS
  Requests,    \* POSTs, and the jobs they would create
  Keys,        \* idempotency keys
  FaultKinds,  \* which faults a behaviour may have: see Fault
  MaxFaults,   \* bound: how many of them
  None         \* no job, no key, no answer

\* 201 with a new job, 201 with an earlier one, 409, 503 and 500.
Answers == {"created", "duplicate", "conflict", "unavailable", "error"}

ASSUME SubmissionAssumption ==
  /\ None \notin Requests \cup Keys \cup Answers
  /\ FaultKinds \subseteq {"call", "crash", "expiry"}
  /\ MaxFaults \in Nat

VARIABLES
  cache,      \* Redis: the job id under idem:<key>
  row,        \* the database: a job's row, by its status
  published,  \* jobs whose message the broker has stored
  pc,         \* the await a request is suspended in
  key,        \* the key a request came with
  existing,   \* the job id a request read from Redis
  answer,     \* what the client was told
  retries,    \* history: requests made after a 503 for their key
  hurt,       \* history: requests one of whose calls failed
  faults

vars == <<cache, row, published, pc, key, existing, answer, retries, hurt, faults>>

Labels == {"idle", "setnx", "get", "find", "create", "publish", "mark", "del", "read",
           "done", "dead"}
Running == Labels \ {"idle", "done", "dead"}

\* A request here reserved its key.
Holding == {"create", "publish", "mark", "del", "read"}

Init ==
  /\ cache = [k \in Keys |-> None]
  /\ row = [r \in Requests |-> "NONE"]
  /\ published = {}
  /\ pc = [r \in Requests |-> "idle"]
  /\ key = [r \in Requests |-> None]
  /\ existing = [r \in Requests |-> None]
  /\ answer = [r \in Requests |-> None]
  /\ retries = {} /\ hurt = {} /\ faults = 0

At(r, l) == pc[r] = l
Goto(r, l) == pc' = [pc EXCEPT ![r] = l]
Reply(r, a) == Goto(r, "done") /\ answer' = [answer EXCEPT ![r] = a]

\* A fault of kind k happens: a call to Redis, the database or the broker fails, a
\* replica dies, a key's TTL of a day runs out.
Fault(k) == k \in FaultKinds /\ faults < MaxFaults /\ faults' = faults + 1

\* Mutant: the Idempotency-Key header is not required.
SubmitWithoutKey(r, k) ==
  /\ At(r, "idle")
  /\ Goto(r, "setnx")
  /\ UNCHANGED <<cache, row, published, key, existing, answer, retries, hurt, faults>>

\* A client posts with a key, perhaps one it has used before.
Submit(r, k) ==
  /\ At(r, "idle")
  /\ Goto(r, "setnx")
  /\ key' = [key EXCEPT ![r] = k]
  /\ retries' = IF \E s \in Requests : key[s] = k /\ answer[s] = "unavailable"
                THEN retries \cup {r} ELSE retries
  /\ UNCHANGED <<cache, row, published, existing, answer, hurt, faults>>

\* Mutant: SET without NX.
SetAlways(r) ==
  /\ At(r, "setnx")
  /\ cache' = [cache EXCEPT ![key[r]] = r] /\ Goto(r, "create")
  /\ UNCHANGED <<row, published, key, existing, answer, retries, hurt, faults>>

\* SET key jobId EX NX.
SetNX(r) ==
  /\ At(r, "setnx")
  /\ IF cache[key[r]] = None
     THEN cache' = [cache EXCEPT ![key[r]] = r] /\ Goto(r, "create")
     ELSE Goto(r, "get") /\ UNCHANGED cache
  /\ UNCHANGED <<row, published, key, existing, answer, retries, hurt, faults>>

\* Mutant: a key that expired since SET NX is looked up like any other.
GetUnchecked(r) ==
  /\ At(r, "get")
  /\ existing' = [existing EXCEPT ![r] = cache[key[r]]]
  /\ Goto(r, "find")
  /\ UNCHANGED <<cache, row, published, key, answer, retries, hurt, faults>>

\* The key is taken: whose is it?
Get(r) ==
  /\ At(r, "get")
  /\ existing' = [existing EXCEPT ![r] = cache[key[r]]]
  /\ IF cache[key[r]] = None THEN Reply(r, "conflict")
     ELSE Goto(r, "find") /\ UNCHANGED answer
  /\ UNCHANGED <<cache, row, published, key, retries, hurt, faults>>

\* Mutant: the earlier job is the answer whether it has a row or not.
FindUnchecked(r) ==
  /\ At(r, "find")
  /\ Reply(r, "duplicate")
  /\ UNCHANGED <<cache, row, published, key, existing, retries, hurt, faults>>

\* The earlier job is the answer if it has a row, whatever became of it.
Find(r) ==
  /\ At(r, "find")
  /\ Reply(r, IF row[existing[r]] # "NONE" THEN "duplicate" ELSE "conflict")
  /\ UNCHANGED <<cache, row, published, key, existing, retries, hurt, faults>>

\* Mutant: idempotencyKey is not unique.
CreateAlways(r) ==
  /\ At(r, "create")
  /\ row' = [row EXCEPT ![r] = "QUEUED"] /\ Goto(r, "publish")
  /\ UNCHANGED <<cache, published, key, existing, answer, retries, hurt, faults>>

\* The row is refused when its key is in the table: the error leaves the service
\* with the Redis key still set.
Create(r) ==
  /\ At(r, "create")
  /\ IF \E s \in Requests : row[s] # "NONE" /\ key[s] = key[r]
     THEN Reply(r, "error") /\ UNCHANGED row
     ELSE /\ row' = [row EXCEPT ![r] = "QUEUED"]
          /\ Goto(r, "publish") /\ UNCHANGED answer
  /\ UNCHANGED <<cache, published, key, existing, retries, hurt, faults>>

Publish(r) ==
  /\ At(r, "publish")
  /\ published' = published \cup {r}
  /\ Goto(r, "mark")
  /\ UNCHANGED <<cache, row, key, existing, answer, retries, hurt, faults>>

MarkPublished(r) ==
  /\ At(r, "mark")
  /\ row' = [row EXCEPT ![r] = "PUBLISHED"]
  /\ Goto(r, "read")
  /\ UNCHANGED <<cache, published, key, existing, answer, retries, hurt, faults>>

\* Mutant: the catch also deletes the row, so that the key can be used again.
DelWithRow(r) ==
  /\ At(r, "del")
  /\ cache' = [cache EXCEPT ![key[r]] = None]
  /\ row' = [row EXCEPT ![r] = "NONE"]
  /\ Reply(r, "unavailable")
  /\ UNCHANGED <<published, key, existing, retries, hurt, faults>>

\* The catch: DEL key, whosever it is by now, and 503.
Del(r) ==
  /\ At(r, "del")
  /\ cache' = [cache EXCEPT ![key[r]] = None]
  /\ Reply(r, "unavailable")
  /\ UNCHANGED <<row, published, key, existing, retries, hurt, faults>>

Read(r) ==
  /\ At(r, "read")
  /\ Reply(r, "created")
  /\ UNCHANGED <<cache, row, published, key, existing, retries, hurt, faults>>

(***************************************************************************)
(* Faults.                                                                 *)
(***************************************************************************)

\* What the call a request waits for would have done, and may have done although
\* it failed.
LateEffect(r) ==
  \/ /\ At(r, "setnx") /\ cache[key[r]] = None
     /\ cache' = [cache EXCEPT ![key[r]] = r] /\ UNCHANGED <<row, published>>
  \/ /\ At(r, "create") /\ ~ \E s \in Requests : row[s] # "NONE" /\ key[s] = key[r]
     /\ row' = [row EXCEPT ![r] = "QUEUED"] /\ UNCHANGED <<cache, published>>
  \/ /\ At(r, "publish")
     /\ published' = published \cup {r} /\ UNCHANGED <<cache, row>>
  \/ /\ At(r, "mark")
     /\ row' = [row EXCEPT ![r] = "PUBLISHED"] /\ UNCHANGED <<cache, published>>
  \/ /\ At(r, "del")
     /\ cache' = [cache EXCEPT ![key[r]] = None] /\ UNCHANGED <<row, published>>

\* A call fails.  Only the publish and the update after it are in the try; any
\* other error goes to the client as a 500.
CallFails(r) ==
  /\ pc[r] \in Running /\ Fault("call")
  /\ hurt' = hurt \cup {r}
  /\ LateEffect(r) \/ UNCHANGED <<cache, row, published>>
  /\ IF pc[r] \in {"publish", "mark"} THEN Goto(r, "del") /\ UNCHANGED answer
     ELSE Reply(r, "error")
  /\ UNCHANGED <<key, existing, retries>>

\* The replica serving the request dies.
Crash(r) ==
  /\ pc[r] \in Running /\ Fault("crash")
  /\ Goto(r, "dead")
  /\ UNCHANGED <<cache, row, published, key, existing, answer, retries, hurt>>

\* The TTL is a day: no request that set the key is still running.
Expire(k) ==
  /\ cache[k] # None /\ Fault("expiry")
  /\ pc[cache[k]] \notin Running
  /\ cache' = [cache EXCEPT ![k] = None]
  /\ UNCHANGED <<row, published, pc, key, existing, answer, retries, hurt>>

Step(r) ==
  SetNX(r) \/ Get(r) \/ Find(r) \/ Create(r) \/ Publish(r) \/ MarkPublished(r) \/ Del(r) \/ Read(r)

\* Every client has its answer.
Quiescent == (\A r \in Requests : pc[r] \in {"done", "dead"}) /\ UNCHANGED vars

Next ==
  \/ \E r \in Requests, k \in Keys : Submit(r, k)
  \/ \E r \in Requests : Step(r) \/ CallFails(r) \/ Crash(r)
  \/ \E k \in Keys : Expire(k)
  \/ Quiescent

Spec == Init /\ [][Next]_vars

(***************************************************************************)
(* Properties.                                                             *)
(***************************************************************************)
TypeOK ==
  /\ cache \in [Keys -> Requests \cup {None}]
  /\ row \in [Requests -> {"NONE", "QUEUED", "PUBLISHED"}]
  /\ published \subseteq Requests
  /\ pc \in [Requests -> Labels]
  /\ key \in [Requests -> Keys \cup {None}]
  /\ \A r \in Requests : pc[r] = "idle" <=> key[r] = None
  /\ existing \in [Requests -> Requests \cup {None}]
  /\ answer \in [Requests -> Answers \cup {None}]
  /\ retries \subseteq Requests /\ hurt \subseteq Requests
  /\ faults \in 0..MaxFaults

Accepted(r) == answer[r] \in {"created", "duplicate"}
JobOf(r) == IF answer[r] = "created" THEN r ELSE existing[r]

\* However often and however concurrently a client posts with one key, whatever
\* calls fail, replicas die and keys expire, at most one job of that key is ever
\* published.
OneJobPerKey == \A r, s \in published : key[r] = key[s] => r = s

\* All 201 answers for a key name the same job.
OneAnswerPerKey ==
  \A r, s \in Requests :
    Accepted(r) /\ Accepted(s) /\ key[r] = key[s] => JobOf(r) = JobOf(s)

\* A request that reserved its key still holds it until it has answered, so its
\* unconditional DEL never frees the key for two others.
HolderOwnsKey == \A r \in Requests : pc[r] \in Holding => cache[key[r]] = r

\* A duplicate answer promises a job that is published, or being published by a
\* request that is still running, unless that request died or had a call fail.
DuplicateIsBacked ==
  \A r \in Requests : answer[r] = "duplicate" =>
    LET s == existing[r]
    IN  s \in published \/ pc[s] \in Running \/ pc[s] = "dead" \/ s \in hurt

(***************************************************************************)
(* What an idempotency key promises, abstractly: see KeyDecision.          *)
(***************************************************************************)
Inserted(r) == row[r] # "NONE"
jobOfKey ==
  [k \in Keys |-> IF \E r \in Requests : Inserted(r) /\ key[r] = k
                  THEN CHOOSE r \in Requests : Inserted(r) /\ key[r] = k ELSE None]
toldJob == [r \in Requests |-> IF Accepted(r) THEN JobOf(r) ELSE None]

Decision == INSTANCE KeyDecision WITH decided <- jobOfKey, told <- toldJob

\* Submission implements the decision of a key: its row is inserted once and never
\* revised, by whatever retries, compensations, late effects of failed calls and
\* expired keys, and only what the row names is published or told.
ImplementsKeyDecision == Decision!Spec

(***************************************************************************)
(* The inductive invariant behind them.                                    *)
(***************************************************************************)

\* A Redis key names a request that came with it, and so does what a request read.
CacheSound == \A k \in Keys : cache[k] # None => key[cache[k]] = k
ReadSound ==
  \A r \in Requests :
    /\ pc[r] = "find" => existing[r] \in Requests /\ key[existing[r]] = key[r]
    /\ answer[r] = "duplicate" =>
         existing[r] \in Requests /\ key[existing[r]] = key[r] /\ row[existing[r]] # "NONE"

\* The unique constraint.
RowPerKey ==
  \A r, s \in Requests : row[r] # "NONE" /\ row[s] # "NONE" /\ key[r] = key[s] => r = s

\* What a request has done where it is.
Progress(r) ==
  /\ pc[r] # "done" => answer[r] = None
  /\ pc[r] \in {"idle", "setnx", "get", "find", "create"} => row[r] = "NONE"
  /\ pc[r] \in {"publish", "mark", "del", "read"} => row[r] # "NONE"
  /\ pc[r] = "publish" => r \notin published
  /\ pc[r] \in {"mark", "read"} => r \in published
  /\ pc[r] = "del" => r \in hurt
  /\ pc[r] = "done" /\ row[r] # "NONE" => r \in published \/ r \in hurt
  /\ r \in published => row[r] # "NONE"
  /\ answer[r] = "created" => r \in published
RequestsProgress == \A r \in Requests : Progress(r)

SubmissionInv ==
  TypeOK /\ HolderOwnsKey /\ CacheSound /\ ReadSound /\ RowPerKey /\ RequestsProgress

(***************************************************************************)
(* What an error message claims, and the code does not keep.               *)
(***************************************************************************)

\* email-jobs.service.ts:107 "submission failed, retry with the same idempotency
\* key": a request that does so, and none of whose calls fails, is not refused
\* with a 500.
RetryIsNotRefused == \A r \in retries : answer[r] = "error" => r \in hurt

=============================================================================
