------------------------------- MODULE Connection -------------------------------
(***************************************************************************)
(* One process and its connection to RabbitMQ: RabbitmqService with its    *)
(* reconnect timer, the consumer it restarts on every new channel          *)
(* (EmailConsumer.start) and the consumer's way out (onModuleDestroy).     *)
(*                                                                         *)
(* The broker may have given a connection up long before the client reads  *)
(* of it, so losing a connection and noticing the loss are two steps.      *)
(***************************************************************************)
EXTENDS Integers, FiniteSets

CONSTANTS
  Conns,       \* connections, reused when nothing refers to them
  Tasks,       \* calls of connect that may run at once
  Slots,       \* bound: messages in flight at once, old connections' included
  Prefetch,    \* CONSUMER_PREFETCH, per channel
  FaultKinds,  \* which faults a behaviour may have: see Fault
  MaxFaults,   \* bound: how many of them
  None         \* no connection

ASSUME ConnectionAssumption ==
  /\ None \notin Conns
  /\ Prefetch \in Nat \ {0}
  /\ FaultKinds \subseteq {"dial", "link", "cancel", "stop", "kill"}
  /\ MaxFaults \in Nat

VARIABLES
  \* the process: down, awaiting the first connect, awaiting the other modules,
  \* running, draining its consumer, its connection closed
  proc,
  \* RabbitmqService: its flag, its pending timers, its connection and channel (set
  \* and cleared together), its running calls of connect
  reconnecting, timers, current, task,
  \* a connection: open, given up by the broker, or known to be closed; and whether
  \* the service listens to its events
  link, wired,
  \* EmailConsumer: calls of start by connection, consumers that receive messages,
  \* consumers the broker cancelled, the tag it remembers
  starting, consumer, cancelled, consumerTag,
  \* messages in flight: the connection each came on, and the one whose channel
  \* handle captured to settle it
  from, via,
  faults

service == <<reconnecting, timers, current, task>>
client == <<starting, consumer, cancelled, consumerTag>>
flight == <<from, via>>
vars == <<proc, service, link, wired, client, flight, faults>>

Idle == [at |-> "none", conn |-> None]
Running(t) == task[t].at # "none"
Connecting == {t \in Tasks : Running(t)}

\* A fault of kind k happens: a connect is refused, a connection breaks, the broker
\* cancels a consumer, the process is told to stop, the process is killed.
Fault(k) == k \in FaultKinds /\ faults < MaxFaults /\ faults' = faults + 1

Init ==
  /\ proc = "down"
  /\ reconnecting = FALSE /\ timers = 0 /\ current = None
  /\ task = [t \in Tasks |-> Idle]
  /\ link = [c \in Conns |-> "closed"] /\ wired = {}
  /\ starting = [c \in Conns |-> "no"]
  /\ consumer = {} /\ cancelled = {} /\ consumerTag = None
  /\ from = [s \in Slots |-> None] /\ via = [s \in Slots |-> None]
  /\ faults = 0

(***************************************************************************)
(* scheduleReconnect, called n times in a row: a broken connection emits   *)
(* 'error' and then 'close', and the service listens to both.              *)
(***************************************************************************)
\* Mutant: nothing remembers that a reconnect is already scheduled.
scheduleEveryTime(n) ==
  /\ reconnecting' = TRUE /\ timers' = timers + n /\ current' = None

scheduleReconnect(n) ==
  IF reconnecting THEN UNCHANGED <<reconnecting, timers, current>>
  ELSE /\ reconnecting' = TRUE /\ timers' = timers + 1 /\ current' = None

\* The first connect is awaited by onModuleInit, which goes on whatever became of it.
AfterConnect == proc' = IF proc = "init" THEN "booting" ELSE proc

(***************************************************************************)
(* The start of the process, and connect.                                  *)
(***************************************************************************)
\* main-worker, up to RabbitmqService.onModuleInit.
Boot(t) ==
  /\ proc = "down" /\ ~Running(t)
  /\ proc' = "init"
  /\ task' = [task EXCEPT ![t].at = "dial"]
  /\ UNCHANGED <<reconnecting, timers, current, link, wired, client, flight, faults>>

Fresh(c) == link[c] = "closed" /\ c # consumerTag /\ \A s \in Slots : from[s] # c

Dialled(t, c) ==
  /\ task[t].at = "dial" /\ Fresh(c)
  /\ link' = [link EXCEPT ![c] = "open"]
  /\ task' = [task EXCEPT ![t] = [at |-> "channel", conn |-> c]]
  /\ UNCHANGED <<proc, reconnecting, timers, current, wired, client, flight, faults>>

ChannelCreated(t) ==
  /\ task[t].at = "channel"
  /\ task' = [task EXCEPT ![t].at = "topology"]
  /\ UNCHANGED <<proc, reconnecting, timers, current, link, wired, client, flight, faults>>

\* EmailConsumer.onModuleInit has handed its callback over.
Registered == proc \notin {"down", "init", "booting"}

\* Mutant: the events of the connection are listened to only after a loss.
Listen(c) == UNCHANGED wired
Wire(c) == wired' = wired \cup {c}

\* The rest of connect, in one turn up to the first await of a callback.
TopologyAsserted(t) ==
  /\ task[t].at = "topology"
  /\ current' = task[t].conn
  /\ Wire(task[t].conn)
  /\ starting' = IF Registered THEN [starting EXCEPT ![task[t].conn] = "prefetch"] ELSE starting
  /\ task' = [task EXCEPT ![t] = Idle]
  /\ AfterConnect
  /\ UNCHANGED <<reconnecting, timers, link, consumer, cancelled, consumerTag, flight, faults>>

\* Mutant: a failed connect is not tried again.
connectGivesUp(t) ==
  /\ task' = [task EXCEPT ![t] = Idle]
  /\ AfterConnect
  /\ UNCHANGED <<reconnecting, timers, current>>

\* Mutant: a failed connect keeps the connection it had.
connectFailsHolding(t) ==
  /\ task' = [task EXCEPT ![t].at = "none"]
  /\ AfterConnect
  /\ scheduleReconnect(1)

\* connect rejects: onModuleInit and the timer both schedule another.
connectFails(t) ==
  /\ task' = [task EXCEPT ![t] = Idle]
  /\ AfterConnect
  /\ scheduleReconnect(1)

DialFails(t) ==
  /\ task[t].at = "dial" /\ Fault("dial")
  /\ connectFails(t)
  /\ UNCHANGED <<link, wired, client, flight>>

TimerFires(t) ==
  /\ timers > 0 /\ ~Running(t)
  /\ timers' = timers - 1
  /\ reconnecting' = FALSE
  /\ task' = [task EXCEPT ![t].at = "dial"]
  /\ UNCHANGED <<proc, current, link, wired, client, flight, faults>>

(***************************************************************************)
(* The consumer.                                                           *)
(***************************************************************************)
\* Mutant: onChannelReady only adds the callback.
RegisterForNext ==
  /\ proc = "booting" /\ proc' = "up"
  /\ UNCHANGED <<service, link, wired, client, flight, faults>>

\* EmailConsumer.onModuleInit: onChannelReady calls start at once if there is a
\* channel.
Register ==
  /\ proc = "booting" /\ proc' = "up"
  /\ starting' = IF current = None THEN starting ELSE [starting EXCEPT ![current] = "prefetch"]
  /\ UNCHANGED <<service, link, wired, consumer, cancelled, consumerTag, flight, faults>>

Prefetched(c) ==
  /\ starting[c] = "prefetch"
  /\ starting' = [starting EXCEPT ![c] = "consume"]
  /\ UNCHANGED <<proc, service, link, wired, consumer, cancelled, consumerTag, flight, faults>>

Consuming(c) ==
  /\ starting[c] = "consume"
  /\ starting' = [starting EXCEPT ![c] = "no"]
  /\ consumer' = consumer \cup {c}
  /\ consumerTag' = c
  /\ UNCHANGED <<proc, service, link, wired, cancelled, flight, faults>>

\* handle(null): a line in the log.
BrokerCancels(c) ==
  /\ c \in consumer /\ link[c] = "open" /\ Fault("cancel")
  /\ consumer' = consumer \ {c}
  /\ cancelled' = cancelled \cup {c}
  /\ UNCHANGED <<proc, service, link, wired, starting, consumerTag, flight>>

\* handle: the message came on c, and is settled on the channel of the moment.
Deliver(s, c) ==
  /\ c \in consumer /\ from[s] = None
  /\ Cardinality({r \in Slots : from[r] = c}) < Prefetch
  /\ from' = [from EXCEPT ![s] = c]
  /\ via' = [via EXCEPT ![s] = current]
  /\ UNCHANGED <<proc, service, link, wired, client, faults>>

Settle(s) ==
  /\ from[s] # None
  /\ from' = [from EXCEPT ![s] = None]
  /\ via' = [via EXCEPT ![s] = None]
  /\ UNCHANGED <<proc, service, link, wired, client, faults>>

(***************************************************************************)
(* The loss of a connection.                                               *)
(***************************************************************************)
LinkLost(c) ==
  /\ link[c] = "open" /\ Fault("link")
  /\ link' = [link EXCEPT ![c] = "lost"]
  /\ UNCHANGED <<proc, service, wired, client, flight>>

\* The library closes its end: pending calls reject, nothing more is delivered.
Close(c) ==
  /\ link' = [link EXCEPT ![c] = "closed"]
  /\ wired' = wired \ {c}
  /\ starting' = [starting EXCEPT ![c] = "no"]
  /\ consumer' = consumer \ {c} /\ cancelled' = cancelled \ {c}
  /\ UNCHANGED consumerTag

\* 'error' and 'close', or 'close' alone when the broker said goodbye.
LossNoticed(c) ==
  /\ link[c] = "lost" /\ c \in wired
  /\ Close(c)
  /\ \E n \in {1, 2} : scheduleReconnect(n)
  /\ UNCHANGED <<proc, task, flight, faults>>

\* connect was awaiting a reply on this connection, and the broker said goodbye.
LossFailsConnect(t) ==
  /\ task[t].at \in {"channel", "topology"} /\ link[task[t].conn] = "lost"
  /\ Close(task[t].conn)
  /\ connectFails(t)
  /\ UNCHANGED <<flight, faults>>

\* The process is gone, and the broker drops its connections.
Terminate ==
  /\ proc' = "down"
  /\ reconnecting' = FALSE /\ timers' = 0 /\ current' = None
  /\ task' = [t \in Tasks |-> Idle]
  /\ link' = [c \in Conns |-> "closed"] /\ wired' = {}
  /\ starting' = [c \in Conns |-> "no"]
  /\ consumer' = {} /\ cancelled' = {} /\ consumerTag' = None
  /\ from' = [s \in Slots |-> None] /\ via' = [s \in Slots |-> None]

\* The same without a goodbye: an 'error' nobody listens to yet ends the process.
LossUnhandled(c) == link[c] = "lost" /\ c \notin wired /\ Terminate /\ UNCHANGED faults

Kill == proc # "down" /\ Fault("kill") /\ Terminate

(***************************************************************************)
(* The way out.                                                            *)
(***************************************************************************)
\* EmailConsumer.onModuleDestroy cancels the tag it remembers, which need not be
\* that of a consumer on this channel.
Stop ==
  /\ proc = "up" /\ Fault("stop")
  /\ proc' = "draining"
  /\ consumer' = IF current = consumerTag THEN consumer \ {current} ELSE consumer
  /\ UNCHANGED <<service, link, wired, starting, cancelled, consumerTag, flight>>

\* Nothing is in flight, or the deadline passed: RabbitmqService.onModuleDestroy.
\* The service hears of its own close too, and schedules a reconnect.
Disconnect ==
  /\ proc = "draining" /\ proc' = "closed"
  /\ IF current = None
     THEN UNCHANGED <<reconnecting, timers, current, link, wired, client>>
     ELSE Close(current) /\ scheduleReconnect(1)
  /\ UNCHANGED <<task, flight, faults>>

\* The HTTP server has closed, however long its connections took.
Exit == proc = "closed" /\ Terminate /\ UNCHANGED faults

(***************************************************************************)
(* The specification.                                                      *)
(***************************************************************************)
ConnectStep(t) == (\E c \in Conns : Dialled(t, c)) \/ ChannelCreated(t) \/ TopologyAsserted(t)
StartStep(c) == Prefetched(c) \/ Consuming(c)

Next ==
  \/ \E t \in Tasks :
       Boot(t) \/ ConnectStep(t) \/ DialFails(t) \/ TimerFires(t) \/ LossFailsConnect(t)
  \/ \E c \in Conns :
       \/ StartStep(c) \/ BrokerCancels(c)
       \/ LinkLost(c) \/ LossNoticed(c) \/ LossUnhandled(c)
  \/ \E s \in Slots, c \in Conns : Deliver(s, c)
  \/ \E s \in Slots : Settle(s)
  \/ Register \/ Stop \/ Disconnect \/ Exit \/ Kill

Spec == Init /\ [][Next]_vars

\* Fairness.  Every call of the library is answered or rejected, timers fire, a
\* broken connection is noticed (by its socket or its heartbeat), a drain ends,
\* handlers end, and the process is started again.
Fairness ==
  /\ WF_vars(\E t \in Tasks : Boot(t)) /\ WF_vars(\E t \in Tasks : TimerFires(t))
  /\ \A t \in Tasks : WF_vars(ConnectStep(t)) /\ WF_vars(LossFailsConnect(t))
  /\ \A c \in Conns : WF_vars(StartStep(c)) /\ WF_vars(LossNoticed(c) \/ LossUnhandled(c))
  /\ \A s \in Slots : WF_vars(Settle(s))
  /\ WF_vars(Register) /\ WF_vars(Disconnect) /\ WF_vars(Exit)

FairSpec == Spec /\ Fairness

(***************************************************************************)
(* Properties.                                                             *)
(***************************************************************************)
TypeOK ==
  /\ proc \in {"down", "init", "booting", "up", "draining", "closed"}
  /\ reconnecting \in BOOLEAN /\ timers \in Nat /\ current \in Conns \cup {None}
  /\ task \in [Tasks -> [at : {"none", "dial", "channel", "topology"}, conn : Conns \cup {None}]]
  /\ \A t \in Tasks : task[t].conn = None <=> task[t].at \in {"none", "dial"}
  /\ link \in [Conns -> {"open", "lost", "closed"}] /\ wired \subseteq Conns
  /\ starting \in [Conns -> {"no", "prefetch", "consume"}]
  /\ consumer \subseteq Conns /\ cancelled \subseteq Conns /\ consumerTag \in Conns \cup {None}
  /\ from \in [Slots -> Conns \cup {None}] /\ via \in [Slots -> Conns \cup {None}]
  /\ faults \in 0..MaxFaults

\* A running process always has one way to a channel and never two: it has the
\* channel, or one timer is set, or one connect runs.  With none the process would be
\* stranded; with two it would hold a connection nobody owns.
OneWayToChannel ==
  proc # "down" =>
    \/ current # None /\ timers = 0 /\ Connecting = {}
    \/ current = None /\ timers = 1 /\ Connecting = {}
    \/ current = None /\ timers = 0 /\ \E t \in Tasks : Connecting = {t}

\* The channel the service hands out is one whose loss it will hear of.
ChannelIsWatched == current # None => current \in wired /\ link[current] # "closed"

\* A message is settled on the channel it came on, and never skipped for want of a
\* channel, although handle asks the service and not its consumer for the channel:
\* delivery tags count per channel, so a tag of an old one would settle a stranger.
SettlesWhereDelivered == \A s \in Slots : via[s] = from[s]

\* However connects, losses and the callback's registration interleave, the queue
\* is consumed and started to be consumed once, on the service's own channel.
ConsumesOnce ==
  \A c \in Conns :
    c \in consumer \cup cancelled \/ starting[c] # "no" =>
      c = current /\ (c \in consumer => starting[c] = "no")

\* Once the faults stop the process runs and consumes, unless the broker cancelled
\* its consumer: then it waits for a connection to break.
ConsumesAgain == <>[](proc = "up" /\ current \in consumer \cup cancelled)

(***************************************************************************)
(* What Delivery takes for granted: see WorkerChannel.                     *)
(***************************************************************************)
workerView ==
  CASE proc = "down" -> "down"
    [] proc \in {"init", "booting", "up"} -> "running"
    [] OTHER -> "draining"

channelView ==
  CASE current = None -> "none"
    [] current # None /\ workerView = "draining" /\ starting[current] = "no"
       /\ current \notin consumer \cup cancelled -> "open"
    [] OTHER -> "consuming"

View == INSTANCE WorkerChannel WITH worker <- workerView, channel <- channelView

\* The connection takes no step that Delivery does not give a worker's channel: in
\* particular it consumes in a draining worker only after a loss, or when the stop
\* came before the consumer's tag.
ImplementsWorkerChannel == View!Spec

(***************************************************************************)
(* The inductive invariant.                                                *)
(***************************************************************************)
\* The flag is set exactly while the timer is.
FlagIsTimer == reconnecting <=> timers = 1

\* The connections that are not closed are those of the service and of its connects,
\* and only the service's is listened to.
NoLeak ==
  /\ \A c \in Conns : link[c] # "closed" => c = current \/ \E t \in Tasks : task[t].conn = c
  /\ \A t \in Tasks : task[t].conn # None => link[task[t].conn] # "closed"
  /\ wired \subseteq {current}

\* Before the callback is registered nothing was ever consumed.
NotYetRegistered ==
  ~Registered => /\ \A c \in Conns : starting[c] = "no"
                 /\ consumer = {} /\ cancelled = {} /\ consumerTag = None

\* Between two lives the process has nothing.
Gone == proc = "down" => current = None /\ timers = 0 /\ Connecting = {}

ConnectionInv ==
  /\ TypeOK /\ OneWayToChannel /\ ChannelIsWatched /\ SettlesWhereDelivered /\ ConsumesOnce
  /\ FlagIsTimer /\ NoLeak /\ NotYetRegistered /\ Gone

=============================================================================
