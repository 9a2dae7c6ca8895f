----------------------------- MODULE WorkerChannel -----------------------------
(***************************************************************************)
(* A worker process and its channel as Delivery sees them: what the        *)
(* connection code promises to the handlers.  "consuming" is a channel on  *)
(* which messages may come, "open" one that only serves to publish.        *)
(***************************************************************************)
VARIABLES worker, channel

Init == worker = "down" /\ channel = "none"

Start == worker = "down" /\ worker' = "running" /\ UNCHANGED channel

\* Also while the worker drains: nothing tells the connection to stay down.
Connect ==
  /\ worker # "down" /\ channel = "none"
  /\ channel' = "consuming" /\ UNCHANGED worker

\* The consumer is cancelled, unless its tag is not known yet.
Stop ==
  /\ worker = "running" /\ worker' = "draining"
  /\ \/ channel' = IF channel = "consuming" THEN "open" ELSE channel
     \/ UNCHANGED channel

ChannelLost == channel # "none" /\ channel' = "none" /\ UNCHANGED worker

\* An exit or a crash: the process is gone and its channel with it.
Terminate == worker # "down" /\ worker' = "down" /\ channel' = "none"

Next == Start \/ Connect \/ Stop \/ ChannelLost \/ Terminate

Spec == Init /\ [][Next]_<<worker, channel>>

=============================================================================
