------------------------------ MODULE JobCustody ------------------------------
(***************************************************************************)
(* What the worker tier promises for every published job, with no queues,  *)
(* workers, attempts or copies: somebody has custody of the job until the  *)
(* provider has accepted its email, it is dead-lettered, or its hand-off   *)
(* was interrupted.  The provider is called, and the dead-letter queue     *)
(* written, only for a job in custody, and custody once given up is never  *)
(* taken again.                                                            *)
(***************************************************************************)
CONSTANT Jobs

VARIABLES submitted, custody, accepted, dead, lost

vars == <<submitted, custody, accepted, dead, lost>>

Init ==
  /\ submitted = {} /\ custody = {}
  /\ accepted = {} /\ dead = {} /\ lost = {}

Submit(j) ==
  /\ j \notin submitted
  /\ submitted' = submitted \cup {j}
  /\ custody' = custody \cup {j}
  /\ UNCHANGED <<accepted, dead, lost>>

\* The job leaves a mark outside: an accepted email or a dead letter.  Whoever
\* left it may keep custody, until the message it works on is acknowledged.
Settle(j) ==
  /\ j \in custody
  /\ \/ accepted' = accepted \cup {j} /\ UNCHANGED dead
     \/ dead' = dead \cup {j} /\ UNCHANGED accepted
  /\ custody' \in {custody, custody \ {j}}
  /\ UNCHANGED <<submitted, lost>>

\* Hand-offs are interrupted, and custody of jobs that are settled is given up.
\* A crash does both to several jobs at once.
LetGo ==
  /\ lost \subseteq lost' /\ lost' \subseteq lost \cup custody
  /\ custody' \subseteq custody
  /\ custody \ custody' \subseteq accepted \cup dead \cup lost'
  /\ UNCHANGED <<submitted, accepted, dead>>

Next == (\E j \in Jobs : Submit(j) \/ Settle(j)) \/ LetGo

Spec == Init /\ [][Next]_vars

\* Nothing happens to a job nobody published.
OnlySubmitted == custody \cup accepted \cup dead \cup lost \subseteq submitted

=============================================================================
