---------------------------- MODULE ConnectionProofs ----------------------------
(***************************************************************************)
(* Proofs about Connection for every number of connections, connects,      *)
(* messages in flight and faults.                                          *)
(***************************************************************************)
EXTENDS Connection, TLAPS

LEMMA ConnectionInit == Init => ConnectionInv
<1> SUFFICES ASSUME Init PROVE ConnectionInv
  OBVIOUS
<1>1. TypeOK
  <2>1. faults \in 0..MaxFaults
    BY ConnectionAssumption DEF Init
  <2> QED
    BY <2>1 DEF Init, TypeOK, Idle
<1>2. Connecting = {}
  BY DEF Init, Connecting, Running, Idle
<1>3. /\ OneWayToChannel /\ ChannelIsWatched /\ SettlesWhereDelivered /\ ConsumesOnce
      /\ FlagIsTimer /\ NotYetRegistered /\ Gone
  BY <1>2 DEF Init, OneWayToChannel, ChannelIsWatched, SettlesWhereDelivered, ConsumesOnce,
     FlagIsTimer, NotYetRegistered, Gone
<1>4. NoLeak
  BY DEF Init, NoLeak, Idle
<1> QED
  BY <1>1, <1>3, <1>4 DEF ConnectionInv

(***************************************************************************)
(* What the invariant says of the one way to a channel.                    *)
(***************************************************************************)
\* While a connect runs it is the only one, and there is neither channel nor timer.
LEMMA OneConnect ==
  ASSUME ConnectionInv, NEW t \in Tasks, Running(t)
  PROVE  /\ proc # "down" /\ current = None /\ timers = 0 /\ ~reconnecting
         /\ Connecting = {t} /\ \A u \in Tasks \ {t} : ~Running(u) /\ task[u].conn = None
<1>1. t \in Connecting
  BY DEF Connecting
<1>2. proc # "down"
  BY <1>1 DEF ConnectionInv, Gone
<1>3. current = None /\ timers = 0 /\ Connecting = {t}
  BY <1>1, <1>2 DEF ConnectionInv, OneWayToChannel
<1>4. \A u \in Tasks \ {t} : ~Running(u)
  BY <1>3 DEF Connecting
<1> QED
  BY <1>2, <1>3, <1>4 DEF ConnectionInv, FlagIsTimer, TypeOK, Running

\* With a channel there is nothing else.
LEMMA OneChannel ==
  ASSUME ConnectionInv, current # None
  PROVE  /\ proc # "down" /\ timers = 0 /\ ~reconnecting /\ Connecting = {}
         /\ \A u \in Tasks : ~Running(u) /\ task[u].conn = None
<1>1. proc # "down"
  BY DEF ConnectionInv, Gone
<1>2. timers = 0 /\ Connecting = {}
  BY <1>1 DEF ConnectionInv, OneWayToChannel
<1>3. \A u \in Tasks : ~Running(u)
  BY <1>2 DEF Connecting
<1> QED
  BY <1>1, <1>2, <1>3 DEF ConnectionInv, FlagIsTimer, TypeOK, Running

\* With a timer there is nothing else.
LEMMA OneTimer ==
  ASSUME ConnectionInv, timers > 0
  PROVE  /\ proc # "down" /\ timers = 1 /\ current = None /\ Connecting = {}
         /\ \A u \in Tasks : ~Running(u) /\ task[u].conn = None
<1>1. proc # "down"
  BY DEF ConnectionInv, Gone
<1>2. timers = 1 /\ current = None /\ Connecting = {}
  BY <1>1 DEF ConnectionInv, OneWayToChannel
<1>3. \A u \in Tasks : ~Running(u)
  BY <1>2 DEF Connecting
<1> QED
  BY <1>1, <1>2, <1>3 DEF ConnectionInv, TypeOK, Running

\* Without a channel nothing is consumed or started to be.
LEMMA NothingConsumed ==
  ASSUME ConnectionInv, current = None
  PROVE  consumer = {} /\ cancelled = {} /\ wired = {} /\ \A c \in Conns : starting[c] = "no"
BY ConnectionAssumption DEF ConnectionInv, ConsumesOnce, NoLeak, TypeOK

(***************************************************************************)
(* The steps.                                                              *)
(***************************************************************************)
LEMMA FaultType ==
  ASSUME TypeOK, NEW k, Fault(k)
  PROVE  faults' \in 0..MaxFaults
BY ConnectionAssumption DEF TypeOK, Fault

LEMMA TerminateKeeps ==
  ASSUME ConnectionInv, Terminate, faults' \in 0..MaxFaults
  PROVE  ConnectionInv'
<1>1. TypeOK'
  BY ConnectionAssumption DEF Terminate, TypeOK, Idle
<1>2. Connecting' = {}
  BY DEF Terminate, Connecting, Running, Idle
<1>3. /\ OneWayToChannel' /\ ChannelIsWatched' /\ SettlesWhereDelivered' /\ ConsumesOnce'
      /\ FlagIsTimer' /\ NotYetRegistered' /\ Gone'
  BY <1>2 DEF Terminate, OneWayToChannel, ChannelIsWatched, SettlesWhereDelivered, ConsumesOnce,
     FlagIsTimer, NotYetRegistered, Gone
<1>4. NoLeak'
  BY DEF Terminate, NoLeak, Idle
<1> QED
  BY <1>1, <1>3, <1>4 DEF ConnectionInv

\* A connect begins: the first one, or that of a timer.
LEMMA DialKeeps ==
  ASSUME ConnectionInv, NEW t \in Tasks, Boot(t) \/ TimerFires(t)
  PROVE  ConnectionInv'
<1>1. /\ current = None /\ ~Running(t) /\ \A u \in Tasks : ~Running(u) /\ task[u].conn = None
      /\ timers' = 0 /\ reconnecting' = FALSE /\ proc' # "down"
  <2>1. CASE Boot(t)
    <3>1. current = None /\ timers = 0 /\ Connecting = {} /\ ~reconnecting
      BY <2>1 DEF Boot, ConnectionInv, Gone, FlagIsTimer
    <3>2. \A u \in Tasks : ~Running(u)
      BY <3>1 DEF Connecting
    <3> QED
      BY <2>1, <3>1, <3>2 DEF Boot, ConnectionInv, TypeOK, Running
  <2>2. CASE TimerFires(t)
    BY <2>2, OneTimer DEF TimerFires
  <2> QED
    BY <2>1, <2>2
<1>2. /\ task' = [task EXCEPT ![t].at = "dial"]
      /\ UNCHANGED <<current, link, wired, client, flight, faults>>
  BY DEF Boot, TimerFires
<1>3. proc' \in {"init", "booting", "up", "draining", "closed"} /\ (Registered' <=> Registered)
  BY <1>1 DEF Boot, TimerFires, ConnectionInv, TypeOK, Registered
<1>4. TypeOK'
  BY <1>1, <1>2, <1>3 DEF ConnectionInv, TypeOK, client, flight
<1>5. Connecting' = {t}
  BY <1>1, <1>2 DEF ConnectionInv, TypeOK, Connecting, Running
<1>6. OneWayToChannel' /\ FlagIsTimer' /\ Gone'
  BY <1>1, <1>2, <1>5 DEF OneWayToChannel, FlagIsTimer, Gone
<1>7. ChannelIsWatched' /\ SettlesWhereDelivered' /\ ConsumesOnce' /\ NotYetRegistered'
  BY <1>2, <1>3 DEF ConnectionInv, ChannelIsWatched, SettlesWhereDelivered, ConsumesOnce,
     NotYetRegistered, client, flight
<1>8. \A u \in Tasks : task'[u].conn = task[u].conn
  BY <1>2 DEF ConnectionInv, TypeOK
<1>9. NoLeak'
  BY <1>2, <1>8 DEF ConnectionInv, NoLeak
<1> QED
  BY <1>4, <1>6, <1>7, <1>9 DEF ConnectionInv

LEMMA DialledKeeps ==
  ASSUME ConnectionInv, NEW t \in Tasks, NEW c \in Conns, Dialled(t, c)
  PROVE  ConnectionInv'
<1>1. Running(t)
  BY DEF Dialled, Running
<1>2. /\ proc # "down" /\ current = None /\ timers = 0 /\ ~reconnecting
      /\ \A u \in Tasks \ {t} : ~Running(u) /\ task[u].conn = None
  BY <1>1, OneConnect
<1>3. TypeOK'
  BY ConnectionAssumption DEF Dialled, ConnectionInv, TypeOK, client, flight
<1>4. Connecting' = {t}
  BY <1>2 DEF Dialled, ConnectionInv, TypeOK, Connecting, Running
<1>5. OneWayToChannel' /\ FlagIsTimer' /\ Gone'
  BY <1>2, <1>4 DEF Dialled, OneWayToChannel, FlagIsTimer, Gone
<1>6. ChannelIsWatched' /\ SettlesWhereDelivered' /\ ConsumesOnce' /\ NotYetRegistered'
  BY <1>2 DEF Dialled, ConnectionInv, ChannelIsWatched, SettlesWhereDelivered, ConsumesOnce,
     NotYetRegistered, Registered, client, flight
<1>7. NoLeak'
  BY <1>2, ConnectionAssumption DEF Dialled, ConnectionInv, TypeOK, NoLeak
<1> QED
  BY <1>3, <1>5, <1>6, <1>7 DEF ConnectionInv

LEMMA ChannelCreatedKeeps ==
  ASSUME ConnectionInv, NEW t \in Tasks, ChannelCreated(t)
  PROVE  ConnectionInv'
<1>1. \A u \in Tasks : Running(u)' <=> Running(u)
  BY DEF ChannelCreated, ConnectionInv, TypeOK, Running
<1>2. Connecting' = Connecting
  BY <1>1 DEF Connecting
<1>3. TypeOK'
  BY DEF ChannelCreated, ConnectionInv, TypeOK, client, flight
<1>4. /\ OneWayToChannel' /\ FlagIsTimer' /\ Gone' /\ ChannelIsWatched' /\ SettlesWhereDelivered'
      /\ ConsumesOnce' /\ NotYetRegistered'
  BY <1>2 DEF ChannelCreated, ConnectionInv, OneWayToChannel, FlagIsTimer, Gone, ChannelIsWatched,
     SettlesWhereDelivered, ConsumesOnce, NotYetRegistered, Registered, client, flight
<1>5. \A u \in Tasks : task'[u].conn = task[u].conn
  BY DEF ChannelCreated, ConnectionInv, TypeOK
<1>6. NoLeak'
  BY <1>5 DEF ChannelCreated, ConnectionInv, NoLeak
<1> QED
  BY <1>3, <1>4, <1>6 DEF ConnectionInv

LEMMA TopologyAssertedKeeps ==
  ASSUME ConnectionInv, NEW t \in Tasks, TopologyAsserted(t)
  PROVE  ConnectionInv'
<1> DEFINE c == task[t].conn
<1>1. Running(t)
  BY DEF TopologyAsserted, Running
<1>2. /\ proc # "down" /\ current = None /\ timers = 0 /\ ~reconnecting
      /\ \A u \in Tasks \ {t} : ~Running(u) /\ task[u].conn = None
  BY <1>1, OneConnect
<1>3. c \in Conns /\ c # None /\ link[c] # "closed"
  BY ConnectionAssumption DEF TopologyAsserted, ConnectionInv, TypeOK, NoLeak
<1>4. consumer = {} /\ cancelled = {} /\ wired = {} /\ \A d \in Conns : starting[d] = "no"
  BY <1>2, NothingConsumed
<1>5. /\ current' = c /\ wired' = {c}
      /\ task' = [task EXCEPT ![t] = Idle]
      /\ UNCHANGED <<reconnecting, timers, link, consumer, cancelled, consumerTag, flight, faults>>
  BY <1>4 DEF TopologyAsserted, Wire
<1>6. proc' \in {"booting", "up", "draining", "closed"} /\ (Registered' <=> Registered)
  BY <1>2 DEF TopologyAsserted, AfterConnect, Registered, ConnectionInv, TypeOK
<1>7. /\ starting' \in [Conns -> {"no", "prefetch", "consume"}]
      /\ \A d \in Conns : starting'[d] # "no" => d = c /\ Registered
  BY <1>3, <1>4 DEF TopologyAsserted, ConnectionInv, TypeOK
<1>8. TypeOK'
  BY <1>3, <1>5, <1>6, <1>7 DEF ConnectionInv, TypeOK, Idle, flight
<1>9. Connecting' = {}
  BY <1>2, <1>5 DEF ConnectionInv, TypeOK, Connecting, Running, Idle
<1>10. OneWayToChannel' /\ FlagIsTimer' /\ Gone' /\ ChannelIsWatched'
  BY <1>2, <1>3, <1>5, <1>6, <1>9 DEF OneWayToChannel, FlagIsTimer, Gone, ChannelIsWatched
<1>11. SettlesWhereDelivered' /\ ConsumesOnce' /\ NotYetRegistered'
  BY <1>4, <1>5, <1>6, <1>7 DEF ConnectionInv, SettlesWhereDelivered, ConsumesOnce,
     NotYetRegistered, flight
<1>12. NoLeak'
  BY <1>2, <1>3, <1>5 DEF ConnectionInv, TypeOK, NoLeak, Idle
<1> QED
  BY <1>8, <1>10, <1>11, <1>12 DEF ConnectionInv

\* connect fails while its call runs: then reconnecting is FALSE, and a timer is set.
LEMMA FailedConnect ==
  ASSUME ConnectionInv, NEW t \in Tasks, Running(t), connectFails(t)
  PROVE  /\ timers' = 1 /\ reconnecting' = TRUE /\ current' = None /\ current = None
         /\ task' = [task EXCEPT ![t] = Idle] /\ Connecting' = {}
         /\ \A u \in Tasks : task'[u].conn = None
         /\ proc' \in {"booting", "up", "draining", "closed"} /\ (Registered' <=> Registered)
<1>1. /\ proc # "down" /\ current = None /\ timers = 0 /\ ~reconnecting
      /\ \A u \in Tasks \ {t} : ~Running(u) /\ task[u].conn = None
  BY OneConnect
<1>2. timers' = 1 /\ reconnecting' = TRUE /\ current' = None
  BY <1>1 DEF connectFails, scheduleReconnect
<1>3. task' = [task EXCEPT ![t] = Idle]
  BY DEF connectFails
<1>4. Connecting' = {} /\ \A u \in Tasks : task'[u].conn = None
  BY <1>1, <1>3 DEF ConnectionInv, TypeOK, Connecting, Running, Idle
<1>5. proc' \in {"booting", "up", "draining", "closed"} /\ (Registered' <=> Registered)
  BY <1>1 DEF connectFails, AfterConnect, Registered, ConnectionInv, TypeOK
<1> QED
  BY <1>1, <1>2, <1>3, <1>4, <1>5

LEMMA DialFailsKeeps ==
  ASSUME ConnectionInv, NEW t \in Tasks, DialFails(t)
  PROVE  ConnectionInv'
<1>1. Running(t) /\ connectFails(t)
  BY DEF DialFails, Running
<1>2. /\ timers' = 1 /\ reconnecting' = TRUE /\ current' = None /\ current = None
      /\ task' = [task EXCEPT ![t] = Idle] /\ Connecting' = {}
      /\ \A u \in Tasks : task'[u].conn = None
      /\ proc' \in {"booting", "up", "draining", "closed"} /\ (Registered' <=> Registered)
  BY <1>1, FailedConnect
<1>3. faults' \in 0..MaxFaults /\ UNCHANGED <<link, wired, client, flight>>
  BY FaultType DEF DialFails, ConnectionInv
<1>4. TypeOK'
  BY <1>2, <1>3 DEF ConnectionInv, TypeOK, Idle, client, flight
<1>5. /\ OneWayToChannel' /\ FlagIsTimer' /\ Gone' /\ ChannelIsWatched' /\ SettlesWhereDelivered'
      /\ ConsumesOnce' /\ NotYetRegistered'
  BY <1>2, <1>3 DEF ConnectionInv, OneWayToChannel, FlagIsTimer, Gone, ChannelIsWatched,
     SettlesWhereDelivered, ConsumesOnce, NotYetRegistered, client, flight
<1>6. NoLeak'
  <2>1. task[t].conn = None
    BY DEF DialFails, ConnectionInv, TypeOK
  <2>2. \A u \in Tasks : task[u].conn = None
    BY <1>1, <2>1, OneConnect
  <2> QED
    BY <1>2, <1>3, <2>2 DEF ConnectionInv, NoLeak
<1> QED
  BY <1>4, <1>5, <1>6 DEF ConnectionInv

LEMMA LossFailsConnectKeeps ==
  ASSUME ConnectionInv, NEW t \in Tasks, LossFailsConnect(t)
  PROVE  ConnectionInv'
<1> DEFINE c == task[t].conn
<1>1. Running(t) /\ connectFails(t) /\ c \in Conns /\ Close(c)
  BY DEF LossFailsConnect, Running, ConnectionInv, TypeOK
<1>2. /\ timers' = 1 /\ reconnecting' = TRUE /\ current' = None /\ current = None
      /\ task' = [task EXCEPT ![t] = Idle] /\ Connecting' = {}
      /\ \A u \in Tasks : task'[u].conn = None
      /\ proc' \in {"booting", "up", "draining", "closed"} /\ (Registered' <=> Registered)
  BY <1>1, FailedConnect
<1>3. consumer = {} /\ cancelled = {} /\ wired = {} /\ \A d \in Conns : starting[d] = "no"
  BY <1>2, NothingConsumed
<1>4. /\ link' = [link EXCEPT ![c] = "closed"] /\ wired' = {} /\ consumer' = {} /\ cancelled' = {}
      /\ starting' = [starting EXCEPT ![c] = "no"] /\ UNCHANGED <<consumerTag, flight, faults>>
  BY <1>1, <1>3 DEF LossFailsConnect, Close
<1>5. \A d \in Conns : starting'[d] = "no"
  BY <1>1, <1>3, <1>4 DEF ConnectionInv, TypeOK
<1>6. TypeOK'
  BY <1>1, <1>2, <1>4 DEF ConnectionInv, TypeOK, Idle, flight
<1>7. /\ OneWayToChannel' /\ FlagIsTimer' /\ Gone' /\ ChannelIsWatched' /\ SettlesWhereDelivered'
      /\ ConsumesOnce' /\ NotYetRegistered'
  BY <1>2, <1>4, <1>5 DEF ConnectionInv, OneWayToChannel, FlagIsTimer, Gone, ChannelIsWatched,
     SettlesWhereDelivered, ConsumesOnce, NotYetRegistered, flight
<1>8. NoLeak'
  <2>1. \A u \in Tasks \ {t} : task[u].conn = None
    BY <1>1, OneConnect
  <2>2. \A d \in Conns \ {c} : link[d] = "closed"
    BY <1>2, <2>1, ConnectionAssumption DEF ConnectionInv, NoLeak
  <2>3. \A d \in Conns : link'[d] = "closed"
    BY <1>1, <1>4, <2>2 DEF ConnectionInv, TypeOK
  <2> QED
    BY <1>2, <1>4, <2>3 DEF NoLeak
<1> QED
  BY <1>6, <1>7, <1>8 DEF ConnectionInv

\* A connection that is consumed, or started to be, is the service's.
LEMMA Consumed ==
  ASSUME ConnectionInv, NEW c \in Conns,
         c \in consumer \cup cancelled \/ starting[c] # "no"
  PROVE  /\ c = current /\ current # None /\ (c \in consumer => starting[c] = "no")
         /\ \A d \in Conns \ {c} : d \notin consumer \cup cancelled /\ starting[d] = "no"
         /\ Registered
<1>1. c = current /\ (c \in consumer => starting[c] = "no")
  BY DEF ConnectionInv, ConsumesOnce
<1>2. \A d \in Conns \ {c} : d \notin consumer \cup cancelled /\ starting[d] = "no"
  BY <1>1 DEF ConnectionInv, ConsumesOnce
<1> QED
  BY <1>1, <1>2, ConnectionAssumption DEF ConnectionInv, NotYetRegistered

\* A step of the consumer, or of the process between its phases, leaves the rest of
\* the invariant as it was.
LEMMA ClientKeeps ==
  ASSUME ConnectionInv, UNCHANGED <<service, link, wired, flight>>,
         faults' \in 0..MaxFaults,
         proc' \in {"down", "init", "booting", "up", "draining", "closed"},
         proc' = "down" <=> proc = "down",
         starting' \in [Conns -> {"no", "prefetch", "consume"}],
         consumer' \subseteq Conns, cancelled' \subseteq Conns,
         consumerTag' \in Conns \cup {None},
         ConsumesOnce', NotYetRegistered'
  PROVE  ConnectionInv'
<1>1. TypeOK'
  BY DEF ConnectionInv, TypeOK, service, flight
<1>2. Connecting' = Connecting
  BY DEF Connecting, Running, service
<1>3. OneWayToChannel' /\ FlagIsTimer' /\ Gone' /\ ChannelIsWatched' /\ SettlesWhereDelivered'
  BY <1>2 DEF ConnectionInv, OneWayToChannel, FlagIsTimer, Gone, ChannelIsWatched,
     SettlesWhereDelivered, service, flight
<1>4. NoLeak'
  BY DEF ConnectionInv, NoLeak, service
<1> QED
  BY <1>1, <1>3, <1>4 DEF ConnectionInv

LEMMA RegisterKeeps ==
  ASSUME ConnectionInv, Register
  PROVE  ConnectionInv'
<1>1. /\ proc = "booting" /\ proc' = "up" /\ faults \in 0..MaxFaults
      /\ consumer = {} /\ cancelled = {} /\ consumerTag = None
      /\ \A c \in Conns : starting[c] = "no"
  BY DEF Register, Registered, ConnectionInv, NotYetRegistered, TypeOK
<1>2. starting' \in [Conns -> {"no", "prefetch", "consume"}]
  BY DEF Register, ConnectionInv, TypeOK
<1>3. \A c \in Conns : starting'[c] # "no" => c = current
  BY <1>1 DEF Register, ConnectionInv, TypeOK
<1>4. ConsumesOnce' /\ NotYetRegistered'
  BY <1>1, <1>3 DEF Register, ConsumesOnce, NotYetRegistered, Registered, service
<1>t. /\ consumer' \subseteq Conns /\ cancelled' \subseteq Conns
      /\ consumerTag' \in Conns \cup {None} /\ faults' \in 0..MaxFaults
  BY DEF Register, ConnectionInv, TypeOK
<1>u. UNCHANGED <<service, link, wired, flight>>
  BY DEF Register
<1>v. /\ proc' \in {"down", "init", "booting", "up", "draining", "closed"}
      /\ (proc' = "down" <=> proc = "down")
  BY DEF Register, ConnectionInv, TypeOK
<1> QED
  BY <1>1, <1>2, <1>4, <1>t, <1>u, <1>v, ClientKeeps

LEMMA PrefetchedKeeps ==
  ASSUME ConnectionInv, NEW c \in Conns, Prefetched(c)
  PROVE  ConnectionInv'
<1>1. /\ c = current /\ Registered /\ c \notin consumer
      /\ \A d \in Conns \ {c} : d \notin consumer \cup cancelled /\ starting[d] = "no"
  BY Consumed DEF Prefetched
<1>2. starting' \in [Conns -> {"no", "prefetch", "consume"}]
  BY DEF Prefetched, ConnectionInv, TypeOK
<1>3. ConsumesOnce' /\ NotYetRegistered'
  BY <1>1 DEF Prefetched, ConnectionInv, TypeOK, ConsumesOnce, NotYetRegistered, Registered, service
<1>t. /\ consumer' \subseteq Conns /\ cancelled' \subseteq Conns
      /\ consumerTag' \in Conns \cup {None} /\ faults' \in 0..MaxFaults
  BY DEF Prefetched, ConnectionInv, TypeOK
<1>u. UNCHANGED <<service, link, wired, flight>>
  BY DEF Prefetched
<1>v. /\ proc' \in {"down", "init", "booting", "up", "draining", "closed"}
      /\ (proc' = "down" <=> proc = "down")
  BY DEF Prefetched, ConnectionInv, TypeOK
<1> QED
  BY <1>2, <1>3, <1>t, <1>u, <1>v, ClientKeeps

LEMMA ConsumingKeeps ==
  ASSUME ConnectionInv, NEW c \in Conns, Consuming(c)
  PROVE  ConnectionInv'
<1>1. /\ c = current /\ Registered /\ c \notin consumer
      /\ \A d \in Conns \ {c} : d \notin consumer \cup cancelled /\ starting[d] = "no"
  BY Consumed DEF Consuming
<1>2. starting' \in [Conns -> {"no", "prefetch", "consume"}]
  BY DEF Consuming, ConnectionInv, TypeOK
<1>3. ConsumesOnce' /\ NotYetRegistered'
  BY <1>1 DEF Consuming, ConnectionInv, TypeOK, ConsumesOnce, NotYetRegistered, Registered, service
<1>t. /\ consumer' \subseteq Conns /\ cancelled' \subseteq Conns
      /\ consumerTag' \in Conns \cup {None} /\ faults' \in 0..MaxFaults
  BY DEF Consuming, ConnectionInv, TypeOK
<1>u. UNCHANGED <<service, link, wired, flight>>
  BY DEF Consuming
<1>v. /\ proc' \in {"down", "init", "booting", "up", "draining", "closed"}
      /\ (proc' = "down" <=> proc = "down")
  BY DEF Consuming, ConnectionInv, TypeOK
<1> QED
  BY <1>2, <1>3, <1>t, <1>u, <1>v, ClientKeeps

LEMMA BrokerCancelsKeeps ==
  ASSUME ConnectionInv, NEW c \in Conns, BrokerCancels(c)
  PROVE  ConnectionInv'
<1>1. /\ c = current /\ Registered /\ starting[c] = "no"
      /\ \A d \in Conns \ {c} : d \notin consumer \cup cancelled /\ starting[d] = "no"
  BY Consumed DEF BrokerCancels
<1>2. ConsumesOnce' /\ NotYetRegistered'
  BY <1>1 DEF BrokerCancels, ConnectionInv, ConsumesOnce, NotYetRegistered, Registered, service
<1>3. faults' \in 0..MaxFaults
  BY FaultType DEF BrokerCancels, ConnectionInv
<1>t. /\ consumer' \subseteq Conns /\ cancelled' \subseteq Conns
      /\ consumerTag' \in Conns \cup {None} /\ starting' \in [Conns -> {"no", "prefetch", "consume"}]
  BY DEF BrokerCancels, ConnectionInv, TypeOK
<1>u. UNCHANGED <<service, link, wired, flight>>
  BY DEF BrokerCancels
<1>v. /\ proc' \in {"down", "init", "booting", "up", "draining", "closed"}
      /\ (proc' = "down" <=> proc = "down")
  BY DEF BrokerCancels, ConnectionInv, TypeOK
<1> QED
  BY <1>2, <1>3, <1>t, <1>u, <1>v, ClientKeeps

\* The messages in flight concern two parts of the invariant only.
LEMMA FlightKeeps ==
  ASSUME ConnectionInv, UNCHANGED <<proc, service, link, wired, client, faults>>,
         from' \in [Slots -> Conns \cup {None}], via' \in [Slots -> Conns \cup {None}],
         SettlesWhereDelivered'
  PROVE  ConnectionInv'
<1>1. TypeOK'
  BY DEF ConnectionInv, TypeOK, service, client
<1>2. Connecting' = Connecting
  BY DEF Connecting, Running, service
<1>3. /\ OneWayToChannel' /\ FlagIsTimer' /\ Gone' /\ ChannelIsWatched' /\ ConsumesOnce'
      /\ NotYetRegistered'
  BY <1>2 DEF ConnectionInv, OneWayToChannel, FlagIsTimer, Gone, ChannelIsWatched,
     ConsumesOnce, NotYetRegistered, Registered, service, client
<1>4. NoLeak'
  BY DEF ConnectionInv, NoLeak, service
<1> QED
  BY <1>1, <1>3, <1>4 DEF ConnectionInv

LEMMA DeliverKeeps ==
  ASSUME ConnectionInv, NEW s \in Slots, NEW c \in Conns, Deliver(s, c)
  PROVE  ConnectionInv'
<1>1. c = current
  BY Consumed DEF Deliver
<1>2. SettlesWhereDelivered'
  BY <1>1 DEF Deliver, ConnectionInv, TypeOK, SettlesWhereDelivered
<1>3. from' \in [Slots -> Conns \cup {None}] /\ via' \in [Slots -> Conns \cup {None}]
  BY DEF Deliver, ConnectionInv, TypeOK
<1> QED
  BY <1>2, <1>3, FlightKeeps DEF Deliver

LEMMA SettleKeeps ==
  ASSUME ConnectionInv, NEW s \in Slots, Settle(s)
  PROVE  ConnectionInv'
<1>1. SettlesWhereDelivered'
  BY DEF Settle, ConnectionInv, TypeOK, SettlesWhereDelivered
<1>2. from' \in [Slots -> Conns \cup {None}] /\ via' \in [Slots -> Conns \cup {None}]
  BY DEF Settle, ConnectionInv, TypeOK
<1> QED
  BY <1>1, <1>2, FlightKeeps DEF Settle

LEMMA StopKeeps ==
  ASSUME ConnectionInv, Stop
  PROVE  ConnectionInv'
<1>1. consumer' \subseteq consumer
  BY DEF Stop
<1>2. Registered /\ Registered'
  BY DEF Stop, Registered
<1>3. ConsumesOnce' /\ NotYetRegistered'
  BY <1>1, <1>2 DEF Stop, ConnectionInv, ConsumesOnce, NotYetRegistered, service
<1>4. faults' \in 0..MaxFaults
  BY FaultType DEF Stop, ConnectionInv
<1>5. /\ consumer' \subseteq Conns /\ cancelled' \subseteq Conns
      /\ consumerTag' \in Conns \cup {None} /\ starting' \in [Conns -> {"no", "prefetch", "consume"}]
  BY <1>1 DEF Stop, ConnectionInv, TypeOK
<1>u. UNCHANGED <<service, link, wired, flight>>
  BY DEF Stop
<1>v. /\ proc' \in {"down", "init", "booting", "up", "draining", "closed"}
      /\ (proc' = "down" <=> proc = "down")
  BY DEF Stop, ConnectionInv, TypeOK
<1> QED
  BY <1>3, <1>4, <1>5, <1>u, <1>v, ClientKeeps

(***************************************************************************)
(* The loss of the service's connection: it had the channel and so no      *)
(* timer, and now has a timer and no channel.                              *)
(***************************************************************************)
LEMMA ChannelClosed ==
  ASSUME ConnectionInv, current # None, Close(current), NEW n, scheduleReconnect(n)
  PROVE  /\ timers' = 1 /\ reconnecting' = TRUE /\ current' = None
         /\ proc # "down" /\ Connecting = {} /\ \A u \in Tasks : task[u].conn = None
         /\ link' \in [Conns -> {"closed"}] /\ wired' = {}
         /\ starting' \in [Conns -> {"no"}] /\ consumer' = {} /\ cancelled' = {}
         /\ consumerTag' = consumerTag
<1>1. current \in Conns
  BY DEF ConnectionInv, TypeOK
<1>2. /\ proc # "down" /\ ~reconnecting /\ timers = 0 /\ Connecting = {}
      /\ \A u \in Tasks : task[u].conn = None
  BY OneChannel
<1>3. timers' = 1 /\ reconnecting' = TRUE /\ current' = None
  BY <1>2 DEF scheduleReconnect
<1>4. \A c \in Conns \ {current} : link[c] = "closed"
  BY <1>2, ConnectionAssumption DEF ConnectionInv, NoLeak
<1>5. \A c \in Conns \ {current} : c \notin consumer \cup cancelled /\ starting[c] = "no"
  BY DEF ConnectionInv, ConsumesOnce
<1>6. consumer \subseteq Conns /\ cancelled \subseteq Conns /\ wired \subseteq {current}
  BY DEF ConnectionInv, TypeOK, NoLeak
<1>7. consumer' = {} /\ cancelled' = {} /\ wired' = {} /\ consumerTag' = consumerTag
  BY <1>5, <1>6 DEF Close
<1>8. link' \in [Conns -> {"closed"}]
  BY <1>1, <1>4 DEF Close, ConnectionInv, TypeOK
<1>9. starting' \in [Conns -> {"no"}]
  BY <1>1, <1>5 DEF Close, ConnectionInv, TypeOK
<1> QED
  BY <1>2, <1>3, <1>7, <1>8, <1>9

LEMMA ChannelClosedKeeps ==
  ASSUME ConnectionInv, current # None, Close(current), NEW n, scheduleReconnect(n),
         UNCHANGED <<task, flight, faults>>,
         proc' \in {"init", "booting", "up", "draining", "closed"}, Registered => Registered'
  PROVE  ConnectionInv'
<1>1. /\ timers' = 1 /\ reconnecting' = TRUE /\ current' = None
      /\ proc # "down" /\ Connecting = {} /\ \A u \in Tasks : task[u].conn = None
      /\ link' \in [Conns -> {"closed"}] /\ wired' = {}
      /\ starting' \in [Conns -> {"no"}] /\ consumer' = {} /\ cancelled' = {}
      /\ consumerTag' = consumerTag
  BY ChannelClosed
<1>2. TypeOK'
  BY <1>1 DEF ConnectionInv, TypeOK, flight
<1>3. Connecting' = {}
  BY <1>1 DEF Connecting, Running
<1>4. \A c \in Conns : starting'[c] = "no" /\ link'[c] = "closed"
  BY <1>1
<1>5. /\ OneWayToChannel' /\ FlagIsTimer' /\ Gone' /\ ChannelIsWatched' /\ SettlesWhereDelivered'
      /\ ConsumesOnce' /\ NoLeak'
  BY <1>1, <1>3, <1>4 DEF ConnectionInv, OneWayToChannel, FlagIsTimer, Gone, ChannelIsWatched,
     SettlesWhereDelivered, ConsumesOnce, NoLeak, flight
<1>6. NotYetRegistered'
  BY <1>1, <1>4 DEF ConnectionInv, NotYetRegistered
<1> QED
  BY <1>2, <1>5, <1>6 DEF ConnectionInv

LEMMA LossNoticedKeeps ==
  ASSUME ConnectionInv, NEW c \in Conns, LossNoticed(c)
  PROVE  ConnectionInv'
<1>1. c = current /\ current # None
  BY ConnectionAssumption DEF LossNoticed, ConnectionInv, NoLeak
<1>2. PICK n \in {1, 2} : scheduleReconnect(n)
  BY DEF LossNoticed
<1>3. Close(current) /\ UNCHANGED <<task, flight, faults>>
  BY <1>1 DEF LossNoticed
<1>4. proc # "down"
  BY <1>1, OneChannel
<1>5. proc' \in {"init", "booting", "up", "draining", "closed"} /\ (Registered => Registered')
  BY <1>4 DEF LossNoticed, ConnectionInv, TypeOK, Registered
<1> QED
  BY <1>1, <1>2, <1>3, <1>5, ChannelClosedKeeps

LEMMA DisconnectKeeps ==
  ASSUME ConnectionInv, Disconnect
  PROVE  ConnectionInv'
<1>1. CASE current = None
  <2>1. /\ proc = "draining" /\ proc' = "closed" /\ UNCHANGED <<service, link, wired, client, flight, faults>>
    BY <1>1 DEF Disconnect, service
  <2>2. /\ consumer' \subseteq Conns /\ cancelled' \subseteq Conns /\ faults' \in 0..MaxFaults
        /\ consumerTag' \in Conns \cup {None} /\ starting' \in [Conns -> {"no", "prefetch", "consume"}]
    BY <2>1 DEF client, ConnectionInv, TypeOK
  <2>3. ConsumesOnce' /\ NotYetRegistered'
    BY <2>1 DEF ConnectionInv, ConsumesOnce, NotYetRegistered, Registered, service, client
  <2>4. /\ proc' \in {"down", "init", "booting", "up", "draining", "closed"}
        /\ (proc' = "down" <=> proc = "down")
    BY <2>1
  <2> QED
    BY <2>1, <2>2, <2>3, <2>4, ClientKeeps
<1>2. CASE current # None
  <2>1. proc' \in {"init", "booting", "up", "draining", "closed"} /\ (Registered => Registered')
    BY DEF Disconnect, Registered
  <2> QED
    BY <1>2, <2>1, ChannelClosedKeeps DEF Disconnect
<1> QED
  BY <1>1, <1>2

LEMMA LinkLostKeeps ==
  ASSUME ConnectionInv, NEW c \in Conns, LinkLost(c)
  PROVE  ConnectionInv'
<1>1. /\ link' = [link EXCEPT ![c] = "lost"] /\ link[c] = "open"
      /\ UNCHANGED <<proc, service, wired, client, flight>>
  BY DEF LinkLost
<1>2. faults' \in 0..MaxFaults
  BY FaultType DEF LinkLost, ConnectionInv
<1>3. TypeOK'
  BY <1>1, <1>2 DEF ConnectionInv, TypeOK, service, client, flight
<1>4. Connecting' = Connecting
  BY <1>1 DEF Connecting, Running, service
<1>5. \A d \in Conns : link'[d] = "closed" <=> link[d] = "closed"
  BY <1>1 DEF ConnectionInv, TypeOK
<1>6. /\ OneWayToChannel' /\ FlagIsTimer' /\ Gone' /\ SettlesWhereDelivered' /\ ConsumesOnce'
      /\ NotYetRegistered'
  BY <1>1, <1>4 DEF ConnectionInv, OneWayToChannel, FlagIsTimer, Gone, SettlesWhereDelivered,
     ConsumesOnce, NotYetRegistered, Registered, service, client, flight
<1>7. ChannelIsWatched'
  BY <1>1, <1>5 DEF ConnectionInv, ChannelIsWatched, TypeOK, service
<1>8. \A t \in Tasks : task[t].conn # None => task[t].conn \in Conns
  BY DEF ConnectionInv, TypeOK
<1>9. NoLeak'
  BY <1>1, <1>5, <1>8 DEF ConnectionInv, NoLeak, service
<1> QED
  BY <1>3, <1>6, <1>7, <1>9 DEF ConnectionInv

(***************************************************************************)
(* The invariant.                                                          *)
(***************************************************************************)
LEMMA ConnectionStep ==
  ASSUME ConnectionInv, [Next]_vars
  PROVE  ConnectionInv'
<1>t. faults \in 0..MaxFaults
  BY DEF ConnectionInv, TypeOK
<1>1. CASE \E t \in Tasks :
             Boot(t) \/ ConnectStep(t) \/ DialFails(t) \/ TimerFires(t) \/ LossFailsConnect(t)
  BY <1>1, DialKeeps, DialledKeeps, ChannelCreatedKeeps, TopologyAssertedKeeps, DialFailsKeeps,
     LossFailsConnectKeeps DEF ConnectStep
<1>2. CASE \E c \in Conns : StartStep(c) \/ BrokerCancels(c) \/ LinkLost(c) \/ LossNoticed(c)
  BY <1>2, PrefetchedKeeps, ConsumingKeeps, BrokerCancelsKeeps, LinkLostKeeps, LossNoticedKeeps
     DEF StartStep
<1>3. CASE \E c \in Conns : LossUnhandled(c)
  BY <1>3, <1>t, TerminateKeeps DEF LossUnhandled
<1>4. CASE Exit
  BY <1>4, <1>t, TerminateKeeps DEF Exit
<1>5. CASE Kill
  <2>1. faults' \in 0..MaxFaults
    BY <1>5, FaultType DEF Kill, ConnectionInv
  <2> QED
    BY <1>5, <2>1, TerminateKeeps DEF Kill
<1>6. CASE \E s \in Slots, c \in Conns : Deliver(s, c)
  BY <1>6, DeliverKeeps
<1>7. CASE \E s \in Slots : Settle(s)
  BY <1>7, SettleKeeps
<1>8. CASE Register \/ Stop \/ Disconnect
  BY <1>8, RegisterKeeps, StopKeeps, DisconnectKeeps
<1>9. CASE UNCHANGED vars
  <2>1. /\ UNCHANGED <<service, link, wired, flight>> /\ proc' = proc
        /\ UNCHANGED <<starting, consumer, cancelled, consumerTag, faults>>
    BY <1>9 DEF vars, client
  <2>2. /\ consumer' \subseteq Conns /\ cancelled' \subseteq Conns /\ faults' \in 0..MaxFaults
        /\ consumerTag' \in Conns \cup {None} /\ starting' \in [Conns -> {"no", "prefetch", "consume"}]
    BY <2>1 DEF ConnectionInv, TypeOK
  <2>3. ConsumesOnce' /\ NotYetRegistered'
    BY <2>1 DEF ConnectionInv, ConsumesOnce, NotYetRegistered, Registered, service
  <2>4. /\ proc' \in {"down", "init", "booting", "up", "draining", "closed"}
        /\ (proc' = "down" <=> proc = "down")
    BY <2>1 DEF ConnectionInv, TypeOK
  <2> QED
    BY <2>1, <2>2, <2>3, <2>4, ClientKeeps
<1> QED
  BY <1>1, <1>2, <1>3, <1>4, <1>5, <1>6, <1>7, <1>8, <1>9 DEF Next

\* The inductive invariant holds in every behaviour.
THEOREM ConnectionInvariant == Spec => []ConnectionInv
BY ConnectionInit, ConnectionStep, PTL DEF Spec

\* A running process has one way to a channel, for every number of connects and
\* faults.
THEOREM OneWay == Spec => []OneWayToChannel
<1>1. ConnectionInv => OneWayToChannel
  BY DEF ConnectionInv
<1> QED
  BY <1>1, ConnectionInvariant, PTL

\* The variables keep their types.
THEOREM ConnectionTypes == Spec => []TypeOK
<1>1. ConnectionInv => TypeOK
  BY DEF ConnectionInv
<1> QED
  BY <1>1, ConnectionInvariant, PTL

\* The service hears of the loss of the channel it hands out.
THEOREM Watched == Spec => []ChannelIsWatched
<1>1. ConnectionInv => ChannelIsWatched
  BY DEF ConnectionInv
<1> QED
  BY <1>1, ConnectionInvariant, PTL

\* A message is settled on the channel it came on.
THEOREM SettlesOnItsChannel == Spec => []SettlesWhereDelivered
<1>1. ConnectionInv => SettlesWhereDelivered
  BY DEF ConnectionInv
<1> QED
  BY <1>1, ConnectionInvariant, PTL

\* The queue is consumed once, on the service's channel.
THEOREM ConsumedOnce == Spec => []ConsumesOnce
<1>1. ConnectionInv => ConsumesOnce
  BY DEF ConnectionInv
<1> QED
  BY <1>1, ConnectionInvariant, PTL

(***************************************************************************)
(* The refinement.                                                         *)
(***************************************************************************)
\* A step that leaves the process's phase, its channel and the consumer alone does
\* not show.
LEMMA Unseen ==
  ASSUME workerView' = workerView, current' = current,
         current # None =>
           /\ starting'[current] = starting[current]
           /\ (current \in consumer' \cup cancelled' <=> current \in consumer \cup cancelled)
  PROVE  UNCHANGED <<workerView, channelView>>
BY DEF channelView

\* A process that ends takes its channel with it.
LEMMA TerminateShows ==
  ASSUME Terminate, proc # "down"
  PROVE  View!Terminate
BY DEF Terminate, View!Terminate, workerView, channelView

\* While a connect runs there is no channel to show, and the process is up.
LEMMA ConnectShows ==
  ASSUME ConnectionInv, NEW t \in Tasks,
         ConnectStep(t) \/ DialFails(t) \/ LossFailsConnect(t)
  PROVE  [View!Next]_<<workerView, channelView>>
<1>1. Running(t)
  BY DEF ConnectStep, Dialled, ChannelCreated, TopologyAsserted, DialFails, LossFailsConnect,
     Running
<1>2. proc # "down" /\ current = None /\ ~reconnecting
  BY <1>1, OneConnect
<1>3. channelView = "none"
  BY <1>2 DEF channelView
<1>4. CASE TopologyAsserted(t)
  <2>1. current' = task[t].conn /\ task[t].conn \in Conns /\ task[t].conn # None
    BY <1>4, ConnectionAssumption DEF TopologyAsserted, ConnectionInv, TypeOK
  <2>2. workerView' = workerView /\ workerView # "down"
    BY <1>2, <1>4 DEF TopologyAsserted, AfterConnect, workerView
  <2>3. workerView' = "draining" => starting'[current'] # "no"
    BY <1>4, <2>1 DEF TopologyAsserted, AfterConnect, workerView, Registered, ConnectionInv, TypeOK
  <2>4. channelView' = "consuming"
    BY <2>1, <2>3 DEF channelView
  <2> QED
    BY <1>3, <2>2, <2>4 DEF View!Next, View!Connect
<1>5. CASE \E c \in Conns : Dialled(t, c)
  BY <1>2, <1>5 DEF Dialled, workerView, channelView
<1>6. CASE ChannelCreated(t)
  BY <1>2, <1>6 DEF ChannelCreated, workerView, channelView
<1>7. CASE DialFails(t) \/ LossFailsConnect(t)
  <2>1. connectFails(t)
    BY <1>7 DEF DialFails, LossFailsConnect
  <2>2. current' = None /\ workerView' = workerView
    BY <1>2, <2>1 DEF connectFails, AfterConnect, scheduleReconnect, workerView
  <2> QED
    BY <1>3, <2>2 DEF channelView
<1> QED
  BY <1>4, <1>5, <1>6, <1>7 DEF ConnectStep

\* The consumer's steps move within "consuming".
LEMMA ConsumerShows ==
  ASSUME ConnectionInv, NEW c \in Conns, StartStep(c) \/ BrokerCancels(c)
  PROVE  UNCHANGED <<workerView, channelView>>
<1>1. /\ c \in consumer \cup cancelled \/ starting[c] # "no"
      /\ proc' = proc /\ current' = current
  BY DEF StartStep, Prefetched, Consuming, BrokerCancels, service
<1>2. c = current /\ current # None
  BY <1>1, Consumed
<1>3. c \in consumer' \cup cancelled' \/ starting'[c] # "no"
  BY DEF StartStep, Prefetched, Consuming, BrokerCancels, ConnectionInv, TypeOK
<1>4. channelView = "consuming" /\ channelView' = "consuming"
  BY <1>1, <1>2, <1>3 DEF channelView
<1> QED
  BY <1>1, <1>4 DEF workerView

\* Losing the service's channel shows as ChannelLost, and a lost connection to a
\* starting connect's process as its end.
LEMMA LossShows ==
  ASSUME ConnectionInv, NEW c \in Conns, LossNoticed(c) \/ LossUnhandled(c) \/ Disconnect
  PROVE  [View!Next]_<<workerView, channelView>>
<1>1. ASSUME current # None, NEW n, Close(current), scheduleReconnect(n),
             workerView' = workerView
      PROVE  View!ChannelLost
  <2>1. current' = None
    BY <1>1, ChannelClosed
  <2> QED
    BY <1>1, <2>1 DEF channelView, View!ChannelLost
<1>2. CASE LossNoticed(c)
  <2>1. c = current /\ current # None
    BY <1>2, ConnectionAssumption DEF LossNoticed, ConnectionInv, NoLeak
  <2>2. PICK n \in {1, 2} : scheduleReconnect(n)
    BY <1>2 DEF LossNoticed
  <2>3. Close(current) /\ workerView' = workerView
    BY <1>2, <2>1 DEF LossNoticed, workerView
  <2>4. View!ChannelLost
    BY <1>1, <2>1, <2>2, <2>3
  <2> QED
    BY <2>4 DEF View!Next
<1>3. CASE LossUnhandled(c)
  <2>1. link[c] # "closed" /\ Terminate
    BY <1>3 DEF LossUnhandled
  <2>2. (c = current /\ current # None) \/ \E t \in Tasks : Running(t)
    BY <2>1, ConnectionAssumption DEF ConnectionInv, NoLeak, TypeOK, Running
  <2>3. proc # "down"
    BY <2>2, OneChannel, OneConnect
  <2> QED
    BY <2>1, <2>3, TerminateShows DEF View!Next
<1>4. CASE Disconnect
  <2>1. workerView' = workerView
    BY <1>4 DEF Disconnect, workerView
  <2>2. CASE current = None
    <3>1. current' = None
      BY <1>4, <2>2 DEF Disconnect
    <3> QED
      BY <2>1, <2>2, <3>1 DEF channelView
  <2>3. CASE current # None
    <3>1. View!ChannelLost
      BY <1>1, <1>4, <2>1, <2>3 DEF Disconnect
    <3> QED
      BY <3>1 DEF View!Next
  <2> QED
    BY <2>2, <2>3
<1> QED
  BY <1>2, <1>3, <1>4

LEMMA StepShows ==
  ASSUME ConnectionInv, [Next]_vars
  PROVE  [View!Next]_<<workerView, channelView>>
<1>1. CASE \E t \in Tasks : Boot(t)
  <2>1. /\ proc = "down" /\ proc' = "init" /\ current = None /\ current' = None
    BY <1>1 DEF Boot, ConnectionInv, Gone
  <2> QED
    BY <2>1 DEF workerView, channelView, View!Next, View!Start
<1>2. CASE \E t \in Tasks : ConnectStep(t) \/ DialFails(t) \/ LossFailsConnect(t)
  BY <1>2, ConnectShows
<1>3. CASE \E t \in Tasks : TimerFires(t)
  BY <1>3, Unseen DEF TimerFires, client, workerView
<1>4. CASE \E c \in Conns : StartStep(c) \/ BrokerCancels(c)
  BY <1>4, ConsumerShows
<1>5. CASE (\E c \in Conns : LossNoticed(c) \/ LossUnhandled(c))
  BY <1>5, LossShows
<1>6. CASE \E c \in Conns : LinkLost(c)
  BY <1>6, Unseen DEF LinkLost, service, client, workerView
<1>7. CASE \E s \in Slots, c \in Conns : Deliver(s, c)
  BY <1>7, Unseen DEF Deliver, service, client, workerView
<1>8. CASE \E s \in Slots : Settle(s)
  BY <1>8, Unseen DEF Settle, service, client, workerView
<1>9. CASE Register
  <2>1. workerView = "running" /\ workerView' = "running" /\ current' = current
    BY <1>9 DEF Register, workerView, service
  <2> QED
    BY <2>1 DEF channelView
<1>10. CASE Stop
  <2>1. workerView = "running" /\ workerView' = "draining" /\ current' = current
    BY <1>10 DEF Stop, workerView, service
  <2>2. View!Stop
    BY <2>1 DEF channelView, View!Stop
  <2> QED
    BY <2>2 DEF View!Next
<1>11. CASE Disconnect
  <2>1. CASE current = None
    BY <1>11, <2>1 DEF Disconnect, workerView, channelView
  <2>2. CASE current # None
    BY <1>11, <2>2, LossShows DEF ConnectionInv, TypeOK
  <2> QED
    BY <2>1, <2>2
<1>12. CASE Exit \/ Kill
  <2>1. Terminate /\ proc # "down"
    BY <1>12 DEF Exit, Kill
  <2> QED
    BY <2>1, TerminateShows DEF View!Next
<1>13. CASE UNCHANGED vars
  BY <1>13, Unseen DEF vars, service, client, workerView
<1> QED
  BY <1>1, <1>2, <1>3, <1>4, <1>5, <1>6, <1>7, <1>8, <1>9, <1>10, <1>11, <1>12, <1>13 DEF Next

\* For every number of connections, connects and faults, what the process and its
\* channel do is what WorkerChannel, and so Delivery, lets a worker and its channel
\* do.
THEOREM RefinesWorkerChannel == Spec => ImplementsWorkerChannel
<1>1. Init => View!Init
  BY DEF Init, View!Init, workerView, channelView
<1> QED
  BY <1>1, StepShows, ConnectionInvariant, PTL DEF Spec, ImplementsWorkerChannel, View!Spec

=============================================================================
