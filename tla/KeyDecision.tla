------------------------------ MODULE KeyDecision ------------------------------
(***************************************************************************)
(* What an idempotency key promises, with no Redis, rows, replicas or      *)
(* failures: a key is decided once, for a job of one of the requests that  *)
(* came with it.  Nothing but that job is ever published, its own request  *)
(* does so before its client is told, and whoever is told of a job is told *)
(* of the one the key was decided for.                                     *)
(***************************************************************************)
CONSTANTS Requests, Keys, None

VARIABLES
  key,        \* the key a request came with
  decided,    \* the job a key stands for
  published,  \* the jobs the workers get
  told        \* the job a client was told it has

vars == <<key, decided, published, told>>

Init ==
  /\ key = [r \in Requests |-> None]
  /\ decided = [k \in Keys |-> None]
  /\ published = {}
  /\ told = [r \in Requests |-> None]

Submit(r, k) ==
  /\ key[r] = None
  /\ key' = [key EXCEPT ![r] = k]
  /\ UNCHANGED <<decided, published, told>>

Decide(r) ==
  /\ key[r] \in Keys /\ told[r] = None
  /\ decided[key[r]] = None
  /\ decided' = [decided EXCEPT ![key[r]] = r]
  /\ UNCHANGED <<key, published, told>>

\* The job of r is the one its key stands for.
Chosen(r) == key[r] \in Keys /\ decided[key[r]] = r

Publish(r) ==
  /\ Chosen(r) /\ told[r] = None
  /\ published' = published \cup {r}
  /\ UNCHANGED <<key, decided, told>>

\* A client is told of its own job only once it is published.
Tell(r, j) ==
  /\ Chosen(j) /\ key[r] = key[j]
  /\ j = r => r \in published
  /\ told[r] = None
  /\ told' = [told EXCEPT ![r] = j]
  /\ UNCHANGED <<key, decided, published>>

Next ==
  \E r \in Requests :
    \/ \E k \in Keys : Submit(r, k)
    \/ Decide(r) \/ Publish(r)
    \/ \E j \in Requests : Tell(r, j)

Spec == Init /\ [][Next]_vars

=============================================================================
