------------------------ MODULE StatusProjectionProofs ------------------------
(***************************************************************************)
(* Proofs about StatusProjection for every number of jobs, replicas,       *)
(* handlers, events and faults.                                            *)
(***************************************************************************)
EXTENDS StatusProjection, TLAPS

\* None is neither a replica nor an event, and a replica's handlers are handlers.
LEMMA ProjectionFacts ==
  /\ None \notin Events /\ None \notin Replicas
  /\ \A h \in Handlers : Host(h) \in Replicas
  /\ \A r \in Replicas : {r} \X Slots \subseteq Handlers
  /\ \A e \in Events : e.job \in Jobs /\ e.n \in Nat /\ e.status \in Statuses
BY ProjectionAssumption DEF Handlers, Host, Events

\* The invariant holds before anything has happened.
LEMMA ProjectionInit == Init => ProjectionInv
BY ProjectionAssumption
DEF Init, ProjectionInv, TypeOK, EventsSound, AckedAfterApplied, NoEventLost, UndisturbedSound

\* What a handler or the broker gives back.
LEMMA ReleaseType ==
  ASSUME TypeOK, NEW hs \in SUBSET Handlers, Release(hs)
  PROVE  /\ pc' \in [Handlers -> {"idle", "apply", "ack"}]
         /\ event' \in [Handlers -> Events \cup {None}] /\ held' \in [Handlers -> BOOLEAN]
         /\ \A h \in Handlers :
              (pc'[h] = "idle" <=> event'[h] = None) /\ (held'[h] => event'[h] # None)
BY DEF TypeOK, Release

\* Only events are requeued.
LEMMA RequeueType ==
  ASSUME TypeOK, NEW hs \in SUBSET Handlers, Requeue(hs)
  PROVE  queue' \subseteq Events
BY DEF TypeOK, Requeue

\* A replica that ends leaves its jobs and its handlers well-typed.
LEMMA TerminateType ==
  ASSUME TypeOK, NEW r \in Replicas, Terminate(r),
         row' \in [Jobs -> Statuses \cup {"NONE", "QUEUED", "PUBLISHED"}],
         applied' \subseteq Events, faults' \in 0..MaxFaults
  PROVE  TypeOK'
<1>1. {r} \X Slots \in SUBSET Handlers
  BY DEF Handlers
<1> QED
  BY <1>1, ReleaseType, RequeueType DEF TypeOK, Terminate

\* An update writes a status.
LEMMA WriteType ==
  ASSUME TypeOK, NEW e \in Events, Write(e)
  PROVE  /\ row' \in [Jobs -> Statuses \cup {"NONE", "QUEUED", "PUBLISHED"}]
         /\ applied' \subseteq Events
BY DEF TypeOK, Write, Events

\* Every step keeps the types.
LEMMA ProjectionType == TypeOK /\ [Next]_vars => TypeOK'
<1> SUFFICES ASSUME TypeOK, [Next]_vars PROVE TypeOK'
  OBVIOUS
<1>f. \A k : Fault(k) => faults' \in 0..MaxFaults
  BY ProjectionAssumption DEF Fault, TypeOK
<1>1. ASSUME NEW j \in Jobs, Publish(j) \/ MarkPublished(j) \/ SubmissionFails(j) PROVE TypeOK'
  BY <1>1, <1>f DEF TypeOK, Publish, MarkPublished, SubmissionFails, broker, handler
<1>2. ASSUME NEW j \in Jobs, NEW r \in Replicas, Create(j, r) PROVE TypeOK'
  BY <1>2 DEF TypeOK, Create, broker, handler
<1>3. ASSUME NEW e \in Events, Emit(e) PROVE TypeOK'
  BY <1>3, ProjectionFacts DEF TypeOK, Emit, handler
<1>4. ASSUME NEW h \in Handlers, Apply(h) PROVE TypeOK'
  <2>1. event[h] \in Events
    BY <1>4 DEF Apply, TypeOK
  <2> QED
    BY <1>4, <2>1, WriteType DEF TypeOK, Apply, broker
<1>5. ASSUME NEW h \in Handlers, Ack(h) PROVE TypeOK'
  BY <1>5, ReleaseType DEF TypeOK, Ack, broker
<1>6. ASSUME NEW h \in Handlers, AckThrows(h) PROVE TypeOK'
  BY <1>6, TerminateType, ProjectionFacts DEF TypeOK, AckThrows
<1>7. ASSUME NEW h \in Handlers, ApplyFails(h) PROVE TypeOK'
  <2>1. event[h] \in Events /\ faults' \in 0..MaxFaults
    BY <1>7, <1>f DEF ApplyFails, Nack, TypeOK
  <2>2. /\ row' \in [Jobs -> Statuses \cup {"NONE", "QUEUED", "PUBLISHED"}]
        /\ applied' \subseteq Events
    BY <1>7, <2>1, WriteType DEF ApplyFails, Nack, TypeOK
  <2>3. CASE held[h]
    BY <1>7, <2>1, <2>2, <2>3, ReleaseType, RequeueType DEF TypeOK, ApplyFails, Nack
  <2>4. CASE ~held[h]
    BY <1>7, <2>1, <2>2, <2>4, TerminateType, ProjectionFacts DEF ApplyFails, Nack
  <2> QED
    BY <2>3, <2>4
<1>8. ASSUME NEW h \in Handlers, NEW e \in Events, Deliver(h, e) PROVE TypeOK'
  BY <1>8, ProjectionFacts DEF TypeOK, Deliver
<1>9. ASSUME NEW r \in Replicas, Start(r) \/ Connect(r) PROVE TypeOK'
  BY <1>9 DEF TypeOK, Start, Connect, broker, handler
<1>10. ASSUME NEW r \in Replicas, ChannelLost(r) PROVE TypeOK'
  <2>1. queue' \subseteq Events /\ faults' \in 0..MaxFaults
    BY <1>10, <1>f, RequeueType, ProjectionFacts DEF ChannelLost
  <2> QED
    BY <1>10, <2>1 DEF TypeOK, ChannelLost
<1>11. ASSUME NEW r \in Replicas, Crash(r) PROVE TypeOK'
  BY <1>11, <1>f, TerminateType DEF Crash, TypeOK
<1>12. CASE UNCHANGED vars
  BY <1>12 DEF TypeOK, vars, broker, handler
<1> QED
  BY <1>1, <1>2, <1>3, <1>4, <1>5, <1>6, <1>7, <1>8, <1>9, <1>10, <1>11, <1>12
  DEF Next, HandlerStep, Quiescent

\* Apart from Emit and Deliver, what is in flight only moves back to the queue or is
\* forgotten; a busy handler keeps its event.
Settling ==
  /\ emitted' = emitted
  /\ queue \subseteq queue'
  /\ \A e \in queue' : e \in queue \/ \E h \in Handlers : held[h] /\ event[h] = e
  /\ \A h \in Handlers :
       \/ event'[h] = None /\ pc'[h] = "idle" /\ (held[h] => event[h] \in queue' \/ pc[h] = "ack")
       \/ /\ event'[h] = event[h]
          /\ pc'[h] = pc[h] \/ (pc'[h] = "ack" /\ event[h] \in applied')
          /\ held[h] => held'[h] \/ event[h] \in queue'

\* Handlers that are stopped give back what they hold.
LEMMA GiveBack ==
  ASSUME TypeOK, NEW hs \in SUBSET Handlers, Requeue(hs), Release(hs), emitted' = emitted
  PROVE  Settling
BY DEF TypeOK, Requeue, Release, Settling

\* Every step but the two settles, or leaves the events where they are.
LEMMA SettlingStep ==
  ASSUME TypeOK, [Next]_vars,
         ~ \E e \in Events : Emit(e), ~ \E h \in Handlers, e \in Events : Deliver(h, e)
  PROVE  Settling
<1>s. CASE UNCHANGED <<broker, handler>>
  BY <1>s DEF Settling, broker, handler
<1>t. ASSUME NEW r \in Replicas, Terminate(r) PROVE Settling
  BY <1>t, GiveBack, ProjectionFacts DEF Terminate
<1>1. ASSUME NEW j \in Jobs, Publish(j) \/ MarkPublished(j) \/ SubmissionFails(j) PROVE Settling
  BY <1>1, <1>s DEF Publish, MarkPublished, SubmissionFails
<1>2. ASSUME NEW j \in Jobs, NEW r \in Replicas, Create(j, r) PROVE Settling
  BY <1>2, <1>s DEF Create
<1>4. ASSUME NEW h \in Handlers, Apply(h) PROVE Settling
  BY <1>4 DEF Apply, Write, Settling, broker, TypeOK
<1>5. ASSUME NEW h \in Handlers, Ack(h) PROVE Settling
  BY <1>5 DEF Ack, Release, Settling, broker, TypeOK
<1>6. ASSUME NEW h \in Handlers, AckThrows(h) PROVE Settling
  BY <1>6, <1>t, ProjectionFacts DEF AckThrows
<1>7. ASSUME NEW h \in Handlers, ApplyFails(h) PROVE Settling
  <2>1. CASE held[h]
    BY <1>7, <2>1, GiveBack DEF ApplyFails, Nack
  <2>2. CASE ~held[h]
    BY <1>7, <2>2, <1>t, ProjectionFacts DEF ApplyFails, Nack
  <2> QED
    BY <2>1, <2>2
<1>9. ASSUME NEW r \in Replicas, Start(r) \/ Connect(r) PROVE Settling
  BY <1>9, <1>s DEF Start, Connect
<1>10. ASSUME NEW r \in Replicas, ChannelLost(r) PROVE Settling
  BY <1>10, ProjectionFacts DEF ChannelLost, Requeue, Settling, TypeOK, Host, Handlers
<1>11. ASSUME NEW r \in Replicas, Crash(r) PROVE Settling
  BY <1>11, <1>t DEF Crash
<1>12. CASE UNCHANGED vars
  BY <1>12, <1>s DEF vars
<1> QED
  BY <1>1, <1>2, <1>4, <1>5, <1>6, <1>7, <1>9, <1>10, <1>11, <1>12
  DEF Next, HandlerStep, Quiescent

\* What a step other than Emit may write: the event of a handler, or what a
\* submission writes to a row that has no events yet.
Writing ==
  /\ disturbed' = disturbed /\ published \subseteq published'
  /\ \/ \E h \in Handlers : event[h] # None /\ Write(event[h])
     \/ /\ applied' = applied
        /\ \A j \in Jobs : row'[j] = row[j] \/ api[j] \in {"new", "mark"}
  /\ \A j \in published' \ published : api'[j] \in {"mark", "done"}
  /\ \A j \in Jobs :
       \/ api'[j] = api[j] \/ api'[j] = "done"
       \/ api[j] = "new" /\ api'[j] = "publish"
       \/ api[j] = "publish" /\ api'[j] = "mark"

\* Every step but Emit is of that kind.
LEMMA WritingStep ==
  ASSUME TypeOK, [Next]_vars, ~ \E e \in Events : Emit(e)
  PROVE  Writing
<1>s. CASE UNCHANGED <<row, api, published, applied, disturbed>>
  BY <1>s DEF Writing
<1>1. ASSUME NEW j \in Jobs, Publish(j) \/ MarkPublished(j) \/ SubmissionFails(j) PROVE Writing
  BY <1>1 DEF Publish, MarkPublished, SubmissionFails, Writing, TypeOK
<1>2. ASSUME NEW j \in Jobs, NEW r \in Replicas, Create(j, r) PROVE Writing
  BY <1>2 DEF Create, Writing, TypeOK
<1>3. ASSUME NEW h \in Handlers, NEW e \in Events, Deliver(h, e) PROVE Writing
  BY <1>3, <1>s DEF Deliver
<1>4. ASSUME NEW h \in Handlers, Apply(h) PROVE Writing
  BY <1>4 DEF Apply, Writing, TypeOK
<1>5. ASSUME NEW h \in Handlers, Ack(h) PROVE Writing
  BY <1>5, <1>s DEF Ack
<1>6. ASSUME NEW h \in Handlers, AckThrows(h) PROVE Writing
  BY <1>6 DEF AckThrows, Terminate, Writing, TypeOK
<1>7. ASSUME NEW h \in Handlers, ApplyFails(h) PROVE Writing
  <2>1. event[h] # None /\ disturbed' = disturbed /\ published' = published
    BY <1>7 DEF ApplyFails, Nack, Terminate, TypeOK
  <2>2. \A j \in Jobs : api'[j] = api[j] \/ api'[j] = "done"
    BY <1>7 DEF ApplyFails, Nack, Terminate, TypeOK
  <2>3. Write(event[h]) \/ UNCHANGED <<row, applied>>
    BY <1>7 DEF ApplyFails, Nack
  <2> QED
    BY <2>1, <2>2, <2>3 DEF Writing
<1>9. ASSUME NEW r \in Replicas, Start(r) \/ Connect(r) \/ ChannelLost(r) PROVE Writing
  BY <1>9, <1>s DEF Start, Connect, ChannelLost
<1>11. ASSUME NEW r \in Replicas, Crash(r) PROVE Writing
  BY <1>11 DEF Crash, Terminate, Writing, TypeOK
<1>12. CASE UNCHANGED vars
  BY <1>12, <1>s DEF vars
<1> QED
  BY <1>1, <1>2, <1>3, <1>4, <1>5, <1>6, <1>7, <1>9, <1>11, <1>12
  DEF Next, HandlerStep, Quiescent

\* Every step keeps the numbering of events and their order after the publication.
LEMMA EventsSoundStep == TypeOK /\ EventsSound /\ [Next]_vars => EventsSound'
<1> SUFFICES ASSUME TypeOK, EventsSound, [Next]_vars PROVE EventsSound'
  OBVIOUS
<1>1. ASSUME NEW e \in Events, Emit(e) PROVE EventsSound'
  BY <1>1, ProjectionFacts DEF Emit, EventsOf, EventsSound, TypeOK, handler
<1>2. ASSUME ~ \E e \in Events : Emit(e) PROVE EventsSound'
  <2>1. Writing
    BY <1>2, WritingStep
  <2>2. /\ emitted' = emitted /\ queue' \subseteq emitted'
        /\ \A h \in Handlers : event'[h] # None => event'[h] \in emitted'
    <3>1. ASSUME NEW h \in Handlers, NEW e \in Events, Deliver(h, e)
          PROVE  /\ emitted' = emitted /\ queue' \subseteq emitted'
                 /\ \A g \in Handlers : event'[g] # None => event'[g] \in emitted'
      BY <3>1 DEF Deliver, EventsSound, TypeOK
    <3>2. CASE ~ \E h \in Handlers, e \in Events : Deliver(h, e)
      BY <1>2, <3>2, SettlingStep DEF Settling, EventsSound, TypeOK
    <3> QED
      BY <3>1, <3>2
  <2>3. applied' \subseteq emitted'
    BY <2>1, <2>2 DEF Writing, Write, EventsSound
  <2>4. \A j \in published' : api'[j] \in {"mark", "done"}
    BY <2>1, ProjectionType DEF Writing, EventsSound, TypeOK
  <2> QED
    BY <2>1, <2>2, <2>3, <2>4 DEF EventsSound, Writing
<1> QED
  BY <1>1, <1>2

\* An event is acknowledged only when it is applied, and dropped nowhere else.
LEMMA NoEventLostStep ==
  TypeOK /\ AckedAfterApplied /\ NoEventLost /\ [Next]_vars => (AckedAfterApplied /\ NoEventLost)'
<1> SUFFICES ASSUME TypeOK, AckedAfterApplied, NoEventLost, [Next]_vars
             PROVE  (AckedAfterApplied /\ NoEventLost)'
  OBVIOUS
<1>1. ASSUME NEW e \in Events, Emit(e) PROVE (AckedAfterApplied /\ NoEventLost)'
  BY <1>1 DEF Emit, AckedAfterApplied, NoEventLost, handler
<1>2. ASSUME NEW h \in Handlers, NEW e \in Events, Deliver(h, e)
      PROVE  (AckedAfterApplied /\ NoEventLost)'
  <2>1. held[h] = FALSE
    BY <1>2 DEF Deliver, TypeOK
  <2> QED
    BY <1>2, <2>1 DEF Deliver, AckedAfterApplied, NoEventLost, TypeOK
<1>3. ASSUME ~ \E e \in Events : Emit(e), ~ \E h \in Handlers, e \in Events : Deliver(h, e)
      PROVE  (AckedAfterApplied /\ NoEventLost)'
  <2>1. Settling /\ applied \subseteq applied'
    BY <1>3, SettlingStep, WritingStep DEF Writing, Write
  <2>2. AckedAfterApplied'
    BY <2>1 DEF Settling, AckedAfterApplied
  <2>3. ASSUME NEW e \in emitted' 
        PROVE  e \in queue' \/ e \in applied' \/ \E h \in Handlers : held'[h] /\ event'[h] = e
    BY <2>1, <2>3 DEF Settling, AckedAfterApplied, NoEventLost
  <2> QED
    BY <2>2, <2>3 DEF NoEventLost
<1> QED
  BY <1>1, <1>2, <1>3

\* A job stays undisturbed only while its events are published one at a time, so that
\* whatever is still written to its row is what the row should show.
LEMMA UndisturbedStep ==
  TypeOK /\ EventsSound /\ UndisturbedSound /\ [Next]_vars => UndisturbedSound'
<1> SUFFICES ASSUME TypeOK, EventsSound, UndisturbedSound, [Next]_vars,
                    NEW j \in Jobs, j \notin disturbed'
             PROVE  /\ \A e \in queue' : e.job = j => Latest(e)'
                    /\ \A h \in Handlers : event'[h] # None /\ event'[h].job = j => Latest(event[h])'
                    /\ api'[j] = "mark" => EventsOf(j)' = {}
                    /\ \A e \in applied' : e.job = j /\ Latest(e)' => row'[j] = e.status
  BY DEF UndisturbedSound
<1>1. ASSUME NEW e \in Events, Emit(e)
      PROVE  /\ \A d \in queue' : d.job = j => Latest(d)'
             /\ \A h \in Handlers : event'[h] # None /\ event'[h].job = j => Latest(event[h])'
             /\ api'[j] = "mark" => EventsOf(j)' = {}
             /\ \A d \in applied' : d.job = j /\ Latest(d)' => row'[j] = d.status
  <2>1. j \notin disturbed /\ (e.job = j => ~Unsettled(j))
    BY <1>1 DEF Emit
  <2>2. CASE e.job = j
    <3>1. api[j] # "mark" /\ (\A d \in queue : d.job # j)
      BY <2>1, <2>2 DEF Unsettled
    <3>2. \A h \in Handlers : event[h] # None => event[h].job # j
      BY <2>1, <2>2 DEF Unsettled
    <3>3. Latest(e)'
      <4>1. \A d \in EventsOf(e.job) : d.n \in Nat /\ e.n \in Nat /\ d.n < e.n
        BY <1>1, ProjectionFacts DEF Emit, EventsOf, TypeOK
      <4>2. EventsOf(e.job)' = EventsOf(e.job) \cup {e} /\ e \in emitted' /\ e.n <= e.n
        BY <1>1, ProjectionFacts DEF Emit, EventsOf
      <4> QED
        BY <4>1, <4>2 DEF Latest
    <3>4. ASSUME NEW d \in applied', d.job = j PROVE ~Latest(d)'
      <4>1. d \in EventsOf(j) /\ d.n < e.n /\ d.n \in Nat /\ e.n \in Nat
        BY <1>1, <2>2, <3>4, ProjectionFacts DEF Emit, EventsSound, EventsOf, TypeOK
      <4>2. e \in EventsOf(j)' /\ ~(e.n <= d.n)
        BY <1>1, <2>2, <4>1 DEF Emit, EventsOf
      <4> QED
        BY <3>4, <4>2 DEF Latest
    <3> QED
      BY <1>1, <2>2, <3>1, <3>2, <3>3, <3>4 DEF Emit, handler
  <2>3. CASE e.job # j
    <3>1. EventsOf(j)' = EventsOf(j)
      BY <1>1, <2>3 DEF Emit, EventsOf
    <3>2. \A d \in Events : d.job = j => (Latest(d) <=> Latest(d)')
      BY <1>1, <2>3, <3>1 DEF Emit, Latest
    <3> QED
      BY <1>1, <2>1, <2>3, <3>1, <3>2 DEF Emit, UndisturbedSound, handler, TypeOK
  <2> QED
    BY <2>2, <2>3
<1>2. ASSUME ~ \E e \in Events : Emit(e)
      PROVE  /\ \A e \in queue' : e.job = j => Latest(e)'
             /\ \A h \in Handlers : event'[h] # None /\ event'[h].job = j => Latest(event[h])'
             /\ api'[j] = "mark" => EventsOf(j)' = {}
             /\ \A e \in applied' : e.job = j /\ Latest(e)' => row'[j] = e.status
  <2>1. Writing /\ j \notin disturbed
    BY <1>2, WritingStep DEF Writing
  <2>2. /\ emitted' = emitted
        /\ \A e \in queue' : e \in queue \/ \E h \in Handlers : event[h] = e
        /\ \A h \in Handlers : event'[h] # None => event'[h] = event[h] \/ event'[h] \in queue
    <3>1. ASSUME NEW h \in Handlers, NEW e \in Events, Deliver(h, e)
          PROVE  /\ emitted' = emitted /\ queue' \subseteq queue
                 /\ \A g \in Handlers : event'[g] = event[g] \/ event'[g] \in queue
      BY <3>1 DEF Deliver, TypeOK
    <3>2. CASE ~ \E h \in Handlers, e \in Events : Deliver(h, e)
      BY <1>2, <3>2, SettlingStep DEF Settling
    <3> QED
      BY <3>1, <3>2
  <2>3. \A e : Latest(e)' <=> Latest(e)
    BY <2>2 DEF Latest, EventsOf
  <2>4. EventsOf(j)' = EventsOf(j) /\ (api[j] \in {"new", "publish", "mark"} => EventsOf(j) = {})
    BY <2>1, <2>2 DEF EventsOf, EventsSound, UndisturbedSound
  <2>5. ASSUME NEW e \in queue', e.job = j PROVE Latest(e)'
    <3>1. e # None
      BY ProjectionType, ProjectionFacts DEF TypeOK
    <3> QED
      BY <2>1, <2>2, <2>3, <2>5, <3>1 DEF UndisturbedSound
  <2>6. ASSUME NEW h \in Handlers, event'[h] # None, event'[h].job = j PROVE Latest(event[h])'
    BY <2>1, <2>2, <2>3, <2>6 DEF UndisturbedSound, TypeOK
  <2>7. ASSUME NEW e \in applied', e.job = j, Latest(e)' PROVE row'[j] = e.status
    <3>0. e \in emitted /\ e \in Events /\ e \in EventsOf(j) /\ Latest(e)
      BY <2>2, <2>3, <2>7, EventsSoundStep DEF EventsSound, EventsOf, TypeOK
    <3>1. ASSUME NEW h \in Handlers, event[h] # None, Write(event[h]) PROVE row'[j] = e.status
      <4>1. event[h] \in emitted /\ event[h] \in Events
        BY <3>1 DEF EventsSound, TypeOK
      <4>2. CASE event[h].job = j
        <5>1. Latest(event[h])
          BY <2>1, <3>1, <4>2 DEF UndisturbedSound
        <5>2. event[h].n = e.n
          BY <3>0, <4>1, <4>2, <5>1, <2>7, ProjectionFacts DEF Latest, EventsOf
        <5>3. event[h] = e
          BY <3>0, <4>1, <4>2, <5>2, <2>7 DEF EventsSound
        <5> QED
          BY <3>1, <5>3, <2>7 DEF Write, TypeOK
      <4>3. CASE event[h].job # j
        BY <2>1, <3>0, <3>1, <4>3, <2>7 DEF Write, TypeOK, UndisturbedSound
      <4> QED
        BY <4>2, <4>3
    <3>2. CASE applied' = applied /\ \A i \in Jobs : row'[i] = row[i] \/ api[i] \in {"new", "mark"}
      BY <2>1, <2>4, <2>7, <3>0, <3>2 DEF UndisturbedSound
    <3> QED
      BY <2>1, <3>1, <3>2 DEF Writing
  <2> QED
    BY <2>1, <2>4, <2>5, <2>6, <2>7 DEF Writing
<1> QED
  BY <1>1, <1>2

(***************************************************************************)
(* The theorems.                                                           *)
(***************************************************************************)

\* The inductive invariant of the projection holds in every reachable state.
THEOREM ProjectionInvariant == Spec => []ProjectionInv
<1>1. Init => ProjectionInv
  BY ProjectionInit
<1>2. ProjectionInv /\ [Next]_vars => ProjectionInv'
  BY ProjectionType, EventsSoundStep, NoEventLostStep, UndisturbedStep DEF ProjectionInv
<1> QED
  BY <1>1, <1>2, PTL DEF Spec

\* However many replicas crash or lose their channels, no stored event is dropped
\* before its update has reached the row.
THEOREM EventsAreKept == Spec => []NoEventLost
<1>1. ProjectionInv => NoEventLost
  BY DEF ProjectionInv
<1> QED
  BY <1>1, ProjectionInvariant, PTL

\* Redelivered events and handlers without a channel never spoil a row: only an event
\* published while an earlier write to the row was on its way can.
THEOREM RowsAreExact == Spec => []ExactUnlessDisturbed
<1>1. ProjectionInv => ExactUnlessDisturbed
  <2> SUFFICES ASSUME ProjectionInv, NEW e \in emitted, Latest(e), ~Unsettled(e.job),
                      e.job \notin disturbed
               PROVE  row[e.job] = e.status
    BY DEF ExactUnlessDisturbed
  <2>1. e \in Events /\ e.job \in Jobs /\ e # None
    BY ProjectionFacts DEF ProjectionInv, TypeOK
  <2>2. e \in applied
    BY <2>1 DEF ProjectionInv, NoEventLost, Unsettled
  <2> QED
    BY <2>1, <2>2 DEF ProjectionInv, UndisturbedSound
<1> QED
  BY <1>1, ProjectionInvariant, PTL

\* The variables keep their types.
THEOREM ProjectionTypes == Spec => []TypeOK
<1>1. ProjectionInv => TypeOK
  BY DEF ProjectionInv
<1> QED
  BY <1>1, ProjectionInvariant, PTL

=============================================================================
