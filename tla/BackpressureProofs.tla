--------------------------- MODULE BackpressureProofs ---------------------------
(***************************************************************************)
(* Proofs about Backpressure for every number of workers, channels and     *)
(* slots, every burst, threshold, cooldown and skew.                       *)
(***************************************************************************)
EXTENDS Backpressure, FiniteSetTheorems, TLAPS

\* What BreakerSound and OpenBreakerShields say of one worker.
Sound(w) ==
  /\ breaker[w].state # "CLOSED" => breaker[w].failures = Threshold
  /\ ~blame[w] => breaker[w].failures + Cardinality(At(w, "complete")) <= Room(w)

Shielded(w) ==
  breaker[w].state = "OPEN" =>
    leaked[w] + Cardinality(At(w, "reserve")) < Room(w)

(***************************************************************************)
(* Counting the handlers of a worker.                                      *)
(***************************************************************************)
\* There are as many handlers as channels they can be of, times the prefetch.
LEMMA SeatCount ==
  ASSUME NEW w, NEW C, IsFiniteSet(C)
  PROVE  /\ IsFiniteSet({w} \X (C \X Slots))
         /\ Cardinality({w} \X (C \X Slots)) = Cardinality(C) * Cardinality(Slots)
         /\ Cardinality(C) \in Nat /\ Cardinality(Slots) \in Nat
<1>1. IsFiniteSet(Slots) /\ Cardinality(Slots) \in Nat /\ Cardinality(C) \in Nat
  BY BackpressureAssumption, FS_CardinalityType
<1>2. IsFiniteSet({w}) /\ Cardinality({w}) = 1
  BY FS_Singleton
<1>3. IsFiniteSet(C \X Slots) /\ Cardinality(C \X Slots) = Cardinality(C) * Cardinality(Slots)
  BY <1>1, FS_Product
<1>4. Cardinality(C) * Cardinality(Slots) \in Nat
  BY <1>1
<1>5. /\ IsFiniteSet({w} \X (C \X Slots))
      /\ Cardinality({w} \X (C \X Slots)) = 1 * Cardinality(C \X Slots)
  BY <1>2, <1>3, FS_Product
<1> QED
  BY <1>1, <1>3, <1>4, <1>5

\* A channel is in use when it is the current one or has a handler under way.
LEMMA InUseMember ==
  ASSUME TypeOK, NEW w \in Workers
  PROVE  /\ Busy(w) \subseteq Channels /\ InUse(w) \subseteq Channels
         /\ \A h \in HandlersOf(w) : pc[h] # "idle" => ChannelOf(h) \in InUse(w)
         /\ IsFiniteSet(Busy(w)) /\ IsFiniteSet(InUse(w))
         /\ Cardinality(InUse(w)) \in Nat /\ crowd[w] \in Nat
<1>1. channel[w] \in Channels /\ crowd[w] \in Nat
  BY DEF TypeOK
<1>2. \A h \in HandlersOf(w) : ChannelOf(h) \in Channels
  BY DEF HandlersOf, ChannelOf
<1>3. Busy(w) \subseteq Channels /\ InUse(w) \subseteq Channels
  BY <1>1, <1>2 DEF Busy, InUse
<1>4. \A h \in HandlersOf(w) : pc[h] # "idle" => ChannelOf(h) \in InUse(w)
  BY DEF Busy, InUse
<1>5. IsFiniteSet(Busy(w)) /\ IsFiniteSet(InUse(w))
  BY <1>3, BackpressureAssumption, FS_Subset
<1>6. Cardinality(InUse(w)) \in Nat
  BY <1>5, FS_CardinalityType
<1> QED
  BY <1>1, <1>3, <1>4, <1>5, <1>6

\* The room of a process is a number.
LEMMA RoomType ==
  ASSUME TypeOK, NEW w \in Workers
  PROVE  Room(w) \in Nat
<1>1. Cardinality(Slots) \in Nat /\ crowd[w] \in Nat
  BY BackpressureAssumption, FS_CardinalityType DEF TypeOK
<1> QED
  BY <1>1 DEF Room

\* No more handlers are somewhere than there is room for, and fewer when one of the
\* worker's handlers is somewhere else.
LEMMA Counts ==
  ASSUME TypeOK, CrowdSound, NEW w \in Workers, NEW l, l # "idle"
  PROVE  /\ IsFiniteSet(At(w, l)) /\ Cardinality(At(w, l)) \in Nat
         /\ Cardinality(At(w, l)) <= Room(w) /\ Room(w) \in Nat
         /\ \A h \in HandlersOf(w) :
              pc[h] # l /\ pc[h] # "idle" => Cardinality(At(w, l)) < Room(w)
<1> DEFINE seats == {w} \X (InUse(w) \X Slots)
<1>1. /\ IsFiniteSet(InUse(w)) /\ Cardinality(InUse(w)) \in Nat /\ crowd[w] \in Nat
      /\ Cardinality(InUse(w)) <= crowd[w]
  BY InUseMember DEF CrowdSound
<1>2. /\ IsFiniteSet(seats) /\ Cardinality(seats) = Cardinality(InUse(w)) * Cardinality(Slots)
      /\ Cardinality(Slots) \in Nat
  BY <1>1, SeatCount
<1>3. \A h \in HandlersOf(w) : pc[h] # "idle" => h \in seats
  BY InUseMember DEF HandlersOf, ChannelOf
<1>4. At(w, l) \in SUBSET seats
  BY <1>3 DEF At
<1>5. \A i, n, k \in Nat : i <= n => i * k <= k * n
  BY SMT
<1>6. Cardinality(seats) <= Room(w) /\ Room(w) \in Nat /\ Cardinality(seats) \in Nat
  <2>1. Cardinality(InUse(w)) * Cardinality(Slots) <= Cardinality(Slots) * crowd[w]
    BY <1>1, <1>2, <1>5
  <2>2. Cardinality(Slots) * crowd[w] \in Nat /\ Cardinality(InUse(w)) * Cardinality(Slots) \in Nat
    BY <1>1, <1>2
  <2> QED
    BY <1>2, <2>1, <2>2 DEF Room
<1> HIDE DEF seats
<1>7. IsFiniteSet(At(w, l)) /\ Cardinality(At(w, l)) <= Cardinality(seats)
      /\ (Cardinality(seats) = Cardinality(At(w, l)) => seats = At(w, l))
  BY <1>2, <1>4, FS_Subset
<1>8. Cardinality(At(w, l)) \in Nat
  BY <1>7, FS_CardinalityType
<1>9. ASSUME NEW h \in HandlersOf(w), pc[h] # l, pc[h] # "idle" PROVE seats # At(w, l)
  BY <1>3, <1>9 DEF At
<1> QED
  BY <1>6, <1>7, <1>8, <1>9

\* A handler of another worker moves.
LEMMA MoveElsewhere ==
  ASSUME TypeOK, NEW h \in Handlers, NEW k, Goto(h, k), NEW w \in Workers, w # Host(h), NEW l
  PROVE  At(w, l)' = At(w, l)
<1>1. \A g \in HandlersOf(w) : g \in Handlers /\ g # h
  BY DEF HandlersOf, Handlers, Host
<1>2. \A g \in HandlersOf(w) : pc'[g] = pc[g]
  BY <1>1 DEF Goto, TypeOK
<1> QED
  BY <1>2 DEF At, HandlersOf

\* A handler moves, neither from nor to a place.
LEMMA MovePast ==
  ASSUME TypeOK, NEW h \in Handlers, NEW k, Goto(h, k), NEW w \in Workers,
         NEW l, pc[h] # l, k # l
  PROVE  At(w, l)' = At(w, l)
<1>1. \A g \in HandlersOf(w) : g \in Handlers
  BY DEF HandlersOf, Handlers
<1>2. \A g \in HandlersOf(w) : pc'[g] = l <=> pc[g] = l
  BY <1>1 DEF Goto, TypeOK
<1> QED
  BY <1>2 DEF At, HandlersOf

\* A handler leaves a place: there is one less.
LEMMA MoveFrom ==
  ASSUME TypeOK, CrowdSound, NEW h \in Handlers, NEW k, Goto(h, k),
         NEW l, pc[h] = l, k # l, l # "idle"
  PROVE  /\ Cardinality(At(Host(h), l))' = Cardinality(At(Host(h), l)) - 1
         /\ Cardinality(At(Host(h), l)) \in Nat
<1> DEFINE w == Host(h)
<1>1. w \in Workers /\ h \in HandlersOf(w)
  BY DEF HandlersOf, Handlers, Host
<1>2. \A g \in HandlersOf(w) : g \in Handlers
  BY <1>1 DEF HandlersOf, Handlers
<1>3. \A g \in HandlersOf(w) : pc'[g] = l <=> pc[g] = l /\ g # h
  BY <1>2 DEF Goto, TypeOK
<1>4. At(w, l)' = At(w, l) \ {h}
  BY <1>3 DEF At, HandlersOf, Host
<1>5. h \in At(w, l)
  BY <1>1 DEF At
<1>6. IsFiniteSet(At(w, l)) /\ Cardinality(At(w, l)) \in Nat
  BY <1>1, Counts
<1>7. Cardinality(At(w, l) \ {h}) = Cardinality(At(w, l)) - 1
  BY <1>5, <1>6, FS_RemoveElement
<1> QED
  BY <1>4, <1>6, <1>7

\* A handler under way comes to a place: there is one more, and room for it.
LEMMA MoveTo ==
  ASSUME TypeOK, CrowdSound, NEW h \in Handlers, NEW l, Goto(h, l),
         pc[h] # l, pc[h] # "idle", l # "idle"
  PROVE  /\ Cardinality(At(Host(h), l))' = Cardinality(At(Host(h), l)) + 1
         /\ Cardinality(At(Host(h), l)) \in Nat
         /\ Cardinality(At(Host(h), l)) < Room(Host(h)) /\ Room(Host(h)) \in Nat
<1> DEFINE w == Host(h)
<1>1. w \in Workers /\ h \in HandlersOf(w)
  BY DEF HandlersOf, Handlers, Host
<1>2. \A g \in HandlersOf(w) : g \in Handlers
  BY <1>1 DEF HandlersOf, Handlers
<1>3. \A g \in HandlersOf(w) : pc'[g] = l <=> pc[g] = l \/ g = h
  BY <1>2 DEF Goto, TypeOK
<1>4. At(w, l)' = At(w, l) \cup {h}
  BY <1>1, <1>3 DEF At, HandlersOf, Host
<1>5. h \notin At(w, l)
  BY DEF At
<1>6. /\ IsFiniteSet(At(w, l)) /\ Cardinality(At(w, l)) \in Nat
      /\ Cardinality(At(w, l)) < Room(w) /\ Room(w) \in Nat
  BY <1>1, Counts
<1>7. Cardinality(At(w, l) \cup {h}) = Cardinality(At(w, l)) + 1
  BY <1>5, <1>6, FS_AddElement
<1> QED
  BY <1>4, <1>6, <1>7

\* A handler that was under way, or gets a message of the current channel, brings no
\* channel into use.
LEMMA MoveKeepsCrowd ==
  ASSUME TypeOK, CrowdSound, NEW h \in Handlers, NEW k, Goto(h, k), UNCHANGED lines,
         pc[h] # "idle" \/ ChannelOf(h) = channel[Host(h)]
  PROVE  CrowdSound' /\ \A w \in Workers : Room(w)' = Room(w)
<1>1. channel' = channel /\ crowd' = crowd
  BY DEF lines
<1>2. ASSUME NEW w \in Workers PROVE Cardinality(InUse(w))' <= crowd[w]
  <2>1. ASSUME NEW g \in HandlersOf(w), pc'[g] # "idle"
        PROVE  pc[g] # "idle" \/ ChannelOf(g) = channel[w]
    <3>1. g \in Handlers /\ Host(g) = w
      BY DEF HandlersOf, Handlers, Host
    <3> QED
      BY <2>1, <3>1 DEF Goto, TypeOK
  <2>2. InUse(w)' \subseteq InUse(w)
    BY <1>1, <2>1 DEF InUse, Busy
  <2>3. IsFiniteSet(InUse(w)) /\ Cardinality(InUse(w)) \in Nat /\ crowd[w] \in Nat
        /\ Cardinality(InUse(w)) <= crowd[w]
    BY InUseMember DEF CrowdSound
  <2> DEFINE S == InUse(w)'
  <2>4. S \in SUBSET InUse(w)
    BY <2>2
  <2> HIDE DEF S
  <2>5. IsFiniteSet(S) /\ Cardinality(S) <= Cardinality(InUse(w))
    BY <2>3, <2>4, FS_Subset
  <2>6. Cardinality(S) \in Nat
    BY <2>5, FS_CardinalityType
  <2> QED
    BY <2>3, <2>5, <2>6 DEF S
<1> QED
  BY <1>1, <1>2 DEF CrowdSound, Room

\* A worker gets a new channel: the most it had in use at once may rise by it, and
\* its room does not shrink.
LEMMA ReconnectRoom ==
  ASSUME TypeOK, CrowdSound, NEW w \in Workers, NEW c \in Channels, Reconnect(w, c)
  PROVE  /\ CrowdSound' /\ channel' \in [Workers -> Channels] /\ crowd' \in [Workers -> Nat]
         /\ \A v \in Workers : Room(v) \in Nat /\ Room(v)' \in Nat /\ Room(v) <= Room(v)'
<1> DEFINE n == Cardinality(Busy(w) \cup {c})
<1>1. /\ channel' = [channel EXCEPT ![w] = c] /\ pc' = pc
      /\ crowd' = [crowd EXCEPT ![w] = IF n > @ THEN n ELSE @]
  BY DEF Reconnect
<1>2. IsFiniteSet(Busy(w)) /\ IsFiniteSet({c})
  BY InUseMember, FS_Singleton
<1>3. n \in Nat
  BY <1>2, FS_Union, FS_CardinalityType
<1>4. channel' \in [Workers -> Channels] /\ crowd' \in [Workers -> Nat]
  BY <1>1, <1>3 DEF TypeOK
<1>5. ASSUME NEW v \in Workers
      PROVE  crowd[v] \in Nat /\ crowd'[v] \in Nat /\ crowd[v] <= crowd'[v]
  BY <1>1, <1>3, <1>4 DEF TypeOK
<1>6. ASSUME NEW v \in Workers PROVE Cardinality(InUse(v))' <= crowd'[v]
  <2>1. CASE v = w
    <3>1. InUse(v)' = Busy(w) \cup {c}
      BY <1>1, <2>1 DEF InUse, Busy, TypeOK
    <3>2. n <= crowd'[w]
      BY <1>1, <1>3 DEF TypeOK
    <3> QED
      BY <2>1, <3>1, <3>2
  <2>2. CASE v # w
    <3>1. InUse(v)' = InUse(v)
      BY <1>1, <2>2 DEF InUse, Busy, TypeOK
    <3>2. crowd'[v] = crowd[v] /\ Cardinality(InUse(v)) <= crowd[v]
      BY <1>1, <2>2 DEF TypeOK, CrowdSound
    <3> QED
      BY <3>1, <3>2
  <2> QED
    BY <2>1, <2>2
<1>7. ASSUME NEW v \in Workers
      PROVE  Room(v) \in Nat /\ Room(v)' \in Nat /\ Room(v) <= Room(v)'
  <2>1. Cardinality(Slots) \in Nat
    BY BackpressureAssumption, FS_CardinalityType
  <2>2. \A i, j, k \in Nat : i <= j => k * i <= k * j /\ k * i \in Nat /\ k * j \in Nat
    BY SMT
  <2>3. /\ Cardinality(Slots) * crowd[v] <= Cardinality(Slots) * crowd'[v]
        /\ Cardinality(Slots) * crowd[v] \in Nat /\ Cardinality(Slots) * crowd'[v] \in Nat
    BY <1>5, <2>1, <2>2
  <2> QED
    BY <2>3 DEF Room
<1> QED
  BY <1>4, <1>6, <1>7 DEF CrowdSound

(***************************************************************************)
(* The token bucket.                                                       *)
(***************************************************************************)
LEMMA RefillRange ==
  ASSUME TypeOK, NEW n \in Int
  PROVE  Refill(n) \in 0..Burst /\ Later(bucket.ts, n) \in Nat
BY BackpressureAssumption DEF TypeOK, Refill, Later

\* What a script leaves in the bucket and what it handed out is what was there and
\* the refill, and the refill is paid for by time or by going back.
LEMMA StoreKeeps ==
  ASSUME TypeOK, BucketSound, NEW n \in Stamps, NEW t \in 0..Burst, Store(n, t), now' = now,
         granted' \in Nat, granted' >= granted, granted' + t <= granted + Refill(n)
  PROVE  /\ bucket' \in [tokens : 0..Burst, ts : Int, expires : Nat]
         /\ back' \in Nat
         /\ BucketSound'
<1>1. /\ bucket.tokens \in 0..Burst /\ bucket.ts \in Int /\ bucket.expires \in Nat
      /\ now \in Nat /\ granted \in Nat /\ back \in Nat
      /\ Burst \in Nat \ {0} /\ MaxSkew \in Nat /\ 2 * MaxSkew <= Burst
  BY BackpressureAssumption DEF TypeOK
<1>2. n \in Int /\ now - MaxSkew <= n /\ n <= now + MaxSkew
  BY <1>1 DEF Stamps
<1>3. /\ bucket' = [tokens |-> t, ts |-> n, expires |-> now + 2 * Burst]
      /\ back' = back + Later(bucket.ts, n)
  BY DEF Store
<1>4. bucket'.tokens = t /\ bucket'.ts = n /\ bucket'.expires = now + 2 * Burst
  BY <1>3
<1>5. Later(bucket.ts, n) \in Nat /\ Later(bucket.ts, n) >= bucket.ts - n
  BY <1>1, <1>2 DEF Later
<1>6. bucket' \in [tokens : 0..Burst, ts : Int, expires : Nat] /\ back' \in Nat
  BY <1>1, <1>2, <1>3, <1>5
<1>7. granted + Refill(n) <= Burst + n + back'
  <2>1. CASE now < bucket.expires
    <3>1. Refill(n) <= bucket.tokens + Later(n, bucket.ts)
      BY <1>1, <1>2, <2>1 DEF Refill, Later
    <3>2. granted + bucket.tokens <= Burst + bucket.ts + back
      BY <1>1, <2>1 DEF BucketSound
    <3>3. Later(n, bucket.ts) = n - bucket.ts + Later(bucket.ts, n)
      BY <1>1, <1>2 DEF Later
    <3> QED
      BY <1>1, <1>2, <1>3, <1>5, <3>1, <3>2, <3>3, RefillRange DEF Later
  <2>2. CASE ~(now < bucket.expires) /\ bucket.expires # 0
    <3>1. Refill(n) = Burst
      BY <2>2 DEF Refill
    <3>2. granted + bucket.tokens <= Burst + bucket.ts + back
      BY <2>2 DEF BucketSound
    <3>3. bucket.ts + 2 * Burst <= bucket.expires + MaxSkew
      BY <2>2 DEF BucketSound
    <3> QED
      BY <1>1, <1>2, <1>3, <1>5, <2>2, <3>1, <3>2, <3>3
  <2>3. CASE bucket.expires = 0
    <3>1. Refill(n) = Burst /\ granted = 0 /\ bucket.ts = 0
      BY <1>1, <2>3 DEF Refill, BucketSound
    <3> QED
      BY <1>1, <1>2, <1>3, <1>5, <3>1
  <2> QED
    BY <2>1, <2>2, <2>3
<1>8. granted' + t <= Burst + n + back'
  <2> DEFINE r == Refill(n)
  <2>1. r \in Int /\ t \in Int
    BY <1>1, <1>2, RefillRange
  <2>2. granted' + t <= granted + r /\ granted + r <= Burst + n + back'
    BY <1>7
  <2>3. granted' + t \in Int /\ granted + r \in Int /\ Burst + n + back' \in Int
    BY <1>1, <1>2, <1>6, <2>1
  <2>4. \A a, b, c \in Int : a <= b /\ b <= c => a <= c
    OBVIOUS
  <2> HIDE DEF r
  <2> QED
    BY <2>2, <2>3, <2>4, Zenon
<1>9. now + 2 * Burst # 0 /\ n + 2 * Burst <= now + 2 * Burst + MaxSkew
  BY <1>1, <1>2
<1> QED
  BY <1>2, <1>4, <1>6, <1>8, <1>9 DEF BucketSound

\* Every script that runs to its end keeps the bucket sound.
LEMMA AcquireKeepsBucket ==
  ASSUME TypeOK, BucketSound, NEW h \in Handlers, NEW n \in Stamps,
         \/ Denied(h, n)
         \/ AnswerLost(h, n)
         \/ Granted(h, n)
  PROVE  /\ bucket' \in [tokens : 0..Burst, ts : Int, expires : Nat]
         /\ back' \in Nat /\ granted' \in Nat /\ now' = now
         /\ BucketSound'
<1>1. /\ n \in Int /\ granted \in Nat
  BY BackpressureAssumption DEF Stamps, TypeOK
<1>2. Refill(n) \in 0..Burst /\ Burst \in Nat
  BY <1>1, RefillRange, BackpressureAssumption
<1>3. now' = now
  BY DEF Denied, AnswerLost, Granted, Acquiring
<1>4. CASE Denied(h, n)
  <2>1. Store(n, Refill(n)) /\ granted' = granted
    BY <1>4 DEF Denied
  <2> QED
    BY <1>1, <1>2, <1>3, <2>1, StoreKeeps
<1>5. CASE AnswerLost(h, n)
  <2>1. Store(n, Refill(n) - 1) /\ granted' = granted /\ Refill(n) - 1 \in 0..Burst
    BY <1>2, <1>5 DEF AnswerLost
  <2> QED
    BY <1>1, <1>2, <1>3, <2>1, StoreKeeps
<1>6. CASE Granted(h, n)
  <2>1. Store(n, Refill(n) - 1) /\ granted' = granted + 1 /\ Refill(n) - 1 \in 0..Burst
    BY <1>2, <1>6 DEF Granted
  <2> QED
    BY <1>1, <1>2, <1>3, <2>1, StoreKeeps
<1> QED
  BY <1>4, <1>5, <1>6

\* A step that leaves the limiter alone, or lets time pass, leaves the bucket sound.
LEMMA LimiterIdle ==
  ASSUME TypeOK, BucketSound, UNCHANGED <<bucket, granted, back>>, now' \in Nat, now' >= now
  PROVE  BucketSound'
BY BackpressureAssumption DEF TypeOK, BucketSound

(***************************************************************************)
(* The breaker.                                                            *)
(***************************************************************************)
BreakerType == [state : States, failures : 0..Threshold, openedAt : Nat]

LEMMA SetBreakerEffect ==
  ASSUME TypeOK, NEW w \in Workers, NEW b \in BreakerType, SetBreaker(w, b)
  PROVE  /\ breaker' \in [Workers -> BreakerType] /\ leaked' \in [Workers -> Nat]
         /\ breaker'[w] = b
         /\ b.state = "OPEN" /\ breaker[w].state = "OPEN" => leaked'[w] = leaked[w]
         /\ b.state = "OPEN" /\ breaker[w].state # "OPEN" => leaked'[w] = 0
         /\ \A v \in Workers \ {w} : breaker'[v] = breaker[v] /\ leaked'[v] = leaked[v]
BY DEF TypeOK, BreakerType, SetBreaker

\* The breaker a failure leaves: open or still closed, and open only at the threshold.
LEMMA recordFailureEffect ==
  ASSUME TypeOK, NEW w \in Workers, Sound(w), recordFailure(w)
  PROVE  /\ breaker' \in [Workers -> BreakerType] /\ leaked' \in [Workers -> Nat]
         /\ breaker'[w].state # "CLOSED" => breaker'[w].failures = Threshold
         /\ breaker'[w].failures <= breaker[w].failures + 1
         /\ breaker'[w].state = "OPEN" =>
              leaked'[w] = 0 \/ (breaker[w].state = "OPEN" /\ leaked'[w] = leaked[w])
         /\ \A v \in Workers \ {w} : breaker'[v] = breaker[v] /\ leaked'[v] = leaked[v]
<1> DEFINE b == breaker[w]
           n == IF b.failures < Threshold THEN b.failures + 1 ELSE Threshold
           c == IF b.state = "HALF_OPEN" \/ n >= Threshold
                THEN [state |-> "OPEN", failures |-> n, openedAt |-> now]
                ELSE [b EXCEPT !.failures = n]
<1>1. b \in BreakerType /\ Threshold \in Nat \ {0} /\ now \in Nat
  BY BackpressureAssumption DEF TypeOK, BreakerType
<1>2. n \in 0..Threshold /\ n <= b.failures + 1
  BY <1>1 DEF BreakerType
<1>3. c \in BreakerType /\ c.failures = n
  BY <1>1, <1>2 DEF BreakerType, States
<1>4. b.state # "CLOSED" => n = Threshold
  BY <1>1 DEF Sound, BreakerType
<1>5. c.state # "CLOSED" => n = Threshold
  BY <1>1, <1>2, <1>4 DEF BreakerType
<1>6. SetBreaker(w, c)
  BY DEF recordFailure
<1> HIDE DEF b, n, c
<1>7. /\ breaker' \in [Workers -> BreakerType] /\ leaked' \in [Workers -> Nat]
      /\ breaker'[w] = c
      /\ c.state = "OPEN" /\ breaker[w].state = "OPEN" => leaked'[w] = leaked[w]
      /\ c.state = "OPEN" /\ breaker[w].state # "OPEN" => leaked'[w] = 0
      /\ \A v \in Workers \ {w} : breaker'[v] = breaker[v] /\ leaked'[v] = leaked[v]
  BY <1>3, <1>6, SetBreakerEffect
<1> QED
  BY <1>2, <1>3, <1>5, <1>7 DEF b

\* A worker none of whose handlers moves keeps what is said of it.
LEMMA OthersSound ==
  ASSUME TypeOK, NEW h \in Handlers, NEW k, Goto(h, k),
         NEW w \in Workers, w # Host(h), Sound(w), Shielded(w),
         breaker'[w] = breaker[w], leaked'[w] = leaked[w], blame'[w] = blame[w],
         Room(w)' = Room(w)
  PROVE  Sound(w)' /\ Shielded(w)'
<1>1. At(w, "complete")' = At(w, "complete") /\ At(w, "reserve")' = At(w, "reserve")
  BY MoveElsewhere
<1> QED
  BY <1>1 DEF Sound, Shielded

\* A handler moves, its worker stays sound, and nothing else changes hands.
LEMMA HostDecides ==
  ASSUME TypeOK, BreakerSound, OpenBreakerShields, NEW h \in Handlers, NEW k, Goto(h, k),
         \A v \in Workers \ {Host(h)} :
           breaker'[v] = breaker[v] /\ leaked'[v] = leaked[v] /\ blame'[v] = blame[v],
         \A v \in Workers : Room(v)' = Room(v),
         Sound(Host(h))', Shielded(Host(h))'
  PROVE  BreakerSound' /\ OpenBreakerShields'
<1>1. ASSUME NEW w \in Workers PROVE Sound(w)' /\ Shielded(w)'
  <2>1. CASE w = Host(h)
    BY <2>1
  <2>2. CASE w # Host(h)
    <3>1. Sound(w) /\ Shielded(w)
      BY DEF BreakerSound, OpenBreakerShields, Sound, Shielded
    <3>2. /\ breaker'[w] = breaker[w] /\ leaked'[w] = leaked[w] /\ blame'[w] = blame[w]
          /\ Room(w)' = Room(w)
      BY <2>2
    <3> QED
      BY <2>2, <3>1, <3>2, OthersSound
  <2> QED
    BY <2>1, <2>2
<1> QED
  BY <1>1 DEF BreakerSound, OpenBreakerShields, Sound, Shielded

(***************************************************************************)
(* The handlers.                                                           *)
(***************************************************************************)
LEMMA AdmitKeeps ==
  ASSUME TypeOK, CrowdSound, BreakerSound, OpenBreakerShields,
         \A v \in Workers : Room(v)' = Room(v), NEW h \in Handlers,
         pc[h] = "acquire", Ask(Host(h)), Goto(h, "reserve"), UNCHANGED blame
  PROVE  /\ breaker' \in [Workers -> BreakerType] /\ leaked' \in [Workers -> Nat]
         /\ BreakerSound' /\ OpenBreakerShields'
<1> DEFINE w == Host(h)
<1>1. w \in Workers /\ breaker[w] \in BreakerType /\ Sound(w) /\ Room(w)' = Room(w)
  BY DEF Handlers, Host, TypeOK, BreakerType, BreakerSound, Sound
<1>2. At(w, "complete")' = At(w, "complete")
  BY <1>1, MovePast
<1>3. /\ breaker' \in [Workers -> BreakerType] /\ leaked' \in [Workers -> Nat]
      /\ breaker'[w].failures = breaker[w].failures
      /\ breaker'[w].state # "OPEN"
      /\ breaker'[w].state # "CLOSED" => breaker[w].state # "CLOSED"
      /\ \A v \in Workers \ {w} : breaker'[v] = breaker[v] /\ leaked'[v] = leaked[v]
  <2>1. CASE breaker[w].state = "OPEN"
    <3> DEFINE b == [breaker[w] EXCEPT !.state = "HALF_OPEN"]
    <3>1. b \in BreakerType /\ b.state = "HALF_OPEN" /\ b.failures = breaker[w].failures
      BY <1>1 DEF BreakerType, States
    <3>2. SetBreaker(w, b)
      BY <2>1 DEF Ask
    <3> HIDE DEF b
    <3> QED
      BY <1>1, <2>1, <3>1, <3>2, SetBreakerEffect
  <2>2. CASE breaker[w].state # "OPEN"
    BY <2>2 DEF Ask, TypeOK, BreakerType
  <2> QED
    BY <2>1, <2>2
<1>4. Sound(w)' /\ Shielded(w)'
  BY <1>1, <1>2, <1>3 DEF Sound, Shielded
<1> QED
  BY <1>3, <1>4, HostDecides

LEMMA ReservedKeeps ==
  ASSUME TypeOK, CrowdSound, BreakerSound, OpenBreakerShields,
         \A v \in Workers : Room(v)' = Room(v), NEW h \in Handlers, Reserved(h)
  PROVE  leaked' \in [Workers -> Nat] /\ BreakerSound' /\ OpenBreakerShields'
<1> DEFINE w == Host(h)
<1>1. /\ w \in Workers /\ Sound(w) /\ Shielded(w) /\ leaked[w] \in Nat
      /\ Room(w) \in Nat /\ Room(w)' = Room(w)
  BY RoomType DEF Handlers, Host, TypeOK, BreakerSound, OpenBreakerShields, Sound, Shielded
<1>2. pc[h] = "reserve" /\ Goto(h, "send") /\ breaker' = breaker /\ blame' = blame
  BY DEF Reserved
<1>3. /\ leaked' \in [Workers -> Nat]
      /\ breaker[w].state = "OPEN" => leaked'[w] = leaked[w] + 1
      /\ \A v \in Workers \ {w} : leaked'[v] = leaked[v]
  BY <1>1 DEF Reserved, TypeOK
<1>4. At(w, "complete")' = At(w, "complete")
  BY <1>1, <1>2, MovePast
<1>5. /\ Cardinality(At(w, "reserve"))' = Cardinality(At(w, "reserve")) - 1
      /\ Cardinality(At(w, "reserve")) \in Nat
  BY <1>2, MoveFrom
<1>6. Sound(w)'
  BY <1>1, <1>2, <1>4 DEF Sound
<1>7. Shielded(w)'
  BY <1>1, <1>2, <1>3, <1>5 DEF Shielded
<1> QED
  BY <1>2, <1>3, <1>6, <1>7, HostDecides

\* A handler takes a message or is done with one, and nothing is counted.
LEMMA FinishKeeps ==
  ASSUME TypeOK, CrowdSound, BreakerSound, OpenBreakerShields,
         \A v \in Workers : Room(v)' = Room(v), NEW h \in Handlers,
         NEW k \in {"idle", "acquire"}, Goto(h, k), UNCHANGED <<breaker, blame, leaked>>
  PROVE  BreakerSound' /\ OpenBreakerShields'
<1> DEFINE w == Host(h)
<1>1. /\ w \in Workers /\ Sound(w) /\ Shielded(w) /\ leaked[w] \in Nat
      /\ Room(w) \in Nat /\ Room(w)' = Room(w) /\ breaker[w].failures \in Nat
  BY RoomType, BackpressureAssumption
     DEF Handlers, Host, TypeOK, BreakerSound, OpenBreakerShields, Sound, Shielded
<1>2. ASSUME NEW l \in {"reserve", "complete"}
      PROVE  /\ Cardinality(At(w, l))' \in Int /\ Cardinality(At(w, l)) \in Int
             /\ Cardinality(At(w, l))' <= Cardinality(At(w, l))
  <2>1. CASE pc[h] = l
    BY <2>1, MoveFrom
  <2>2. CASE pc[h] # l
    BY <1>1, <2>2, MovePast, Counts
  <2> QED
    BY <2>1, <2>2
<1>3. /\ Cardinality(At(w, "reserve"))' \in Int /\ Cardinality(At(w, "reserve")) \in Int
      /\ Cardinality(At(w, "reserve"))' <= Cardinality(At(w, "reserve"))
  BY <1>2
<1>4. /\ Cardinality(At(w, "complete"))' \in Int /\ Cardinality(At(w, "complete")) \in Int
      /\ Cardinality(At(w, "complete"))' <= Cardinality(At(w, "complete"))
  BY <1>2
<1>5. Sound(w)'
  BY <1>1, <1>4 DEF Sound
<1>6. Shielded(w)'
  BY <1>1, <1>3 DEF Shielded
<1> QED
  BY <1>5, <1>6, HostDecides

LEMMA SendAcceptedKeeps ==
  ASSUME TypeOK, CrowdSound, BreakerSound, OpenBreakerShields,
         \A v \in Workers : Room(v)' = Room(v), NEW h \in Handlers, SendAccepted(h)
  PROVE  /\ breaker' \in [Workers -> BreakerType] /\ leaked' \in [Workers -> Nat]
         /\ BreakerSound' /\ OpenBreakerShields'
<1> DEFINE w == Host(h)
<1>1. w \in Workers /\ Room(w) \in Nat /\ Room(w)' = Room(w)
  BY RoomType DEF Handlers, Host
<1>2. pc[h] = "send" /\ Goto(h, "complete") /\ SetBreaker(w, ClosedBreaker)
      /\ blame' = [blame EXCEPT ![w] = FALSE]
  BY DEF SendAccepted, recordSuccess
<1>3. ClosedBreaker \in BreakerType /\ ClosedBreaker.state = "CLOSED" /\ ClosedBreaker.failures = 0
  BY BackpressureAssumption DEF ClosedBreaker, BreakerType, States
<1>4. /\ breaker' \in [Workers -> BreakerType] /\ leaked' \in [Workers -> Nat]
      /\ breaker'[w] = ClosedBreaker
      /\ \A v \in Workers \ {w} : breaker'[v] = breaker[v] /\ leaked'[v] = leaked[v]
  BY <1>1, <1>2, <1>3, SetBreakerEffect
<1>5. \A v \in Workers \ {w} : blame'[v] = blame[v]
  BY <1>2 DEF TypeOK
<1>6. /\ Cardinality(At(w, "complete"))' = Cardinality(At(w, "complete")) + 1
      /\ Cardinality(At(w, "complete")) \in Nat
      /\ Cardinality(At(w, "complete")) < Room(w)
  BY <1>2, MoveTo
<1>7. Sound(w)' /\ Shielded(w)'
  BY <1>1, <1>3, <1>4, <1>6 DEF Sound, Shielded
<1> QED
  BY <1>2, <1>4, <1>5, <1>7, HostDecides

\* A failure is counted, the provider's or one after the send.
LEMMA FailureKeeps ==
  ASSUME TypeOK, CrowdSound, BreakerSound, OpenBreakerShields,
         \A v \in Workers : Room(v)' = Room(v), NEW h \in Handlers,
         recordFailure(Host(h)), Goto(h, "idle"),
         \/ pc[h] = "send" /\ blame' = [blame EXCEPT ![Host(h)] = TRUE]
         \/ pc[h] = "complete" /\ blame' = blame
  PROVE  /\ breaker' \in [Workers -> BreakerType] /\ leaked' \in [Workers -> Nat]
         /\ BreakerSound' /\ OpenBreakerShields'
<1> DEFINE w == Host(h)
<1>1. /\ w \in Workers /\ h \in HandlersOf(w) /\ Sound(w) /\ Shielded(w) /\ leaked[w] \in Nat
      /\ breaker[w].failures \in Nat /\ Room(w)' = Room(w)
  BY BackpressureAssumption
     DEF Handlers, HandlersOf, Host, TypeOK, BreakerSound, OpenBreakerShields, Sound, Shielded
<1>2. /\ breaker' \in [Workers -> BreakerType] /\ leaked' \in [Workers -> Nat]
      /\ breaker'[w].state # "CLOSED" => breaker'[w].failures = Threshold
      /\ breaker'[w].failures <= breaker[w].failures + 1
      /\ breaker'[w].state = "OPEN" =>
           leaked'[w] = 0 \/ (breaker[w].state = "OPEN" /\ leaked'[w] = leaked[w])
      /\ \A v \in Workers \ {w} : breaker'[v] = breaker[v] /\ leaked'[v] = leaked[v]
  BY <1>1, recordFailureEffect
<1>3. \A v \in Workers \ {w} : blame'[v] = blame[v]
  BY DEF TypeOK
<1>4. At(w, "reserve")' = At(w, "reserve")
  BY <1>1, MovePast
<1>5. /\ Cardinality(At(w, "reserve")) \in Nat /\ Cardinality(At(w, "reserve")) < Room(w)
      /\ Room(w) \in Nat
  BY <1>1, Counts
<1>6. Shielded(w)'
  BY <1>1, <1>2, <1>4, <1>5 DEF Shielded
<1>7. Sound(w)'
  <2>1. breaker'[w].failures \in Nat
    BY <1>1, <1>2, BackpressureAssumption DEF BreakerType
  <2>2. CASE pc[h] = "send"
    BY <1>1, <1>2, <2>2 DEF Sound, TypeOK
  <2>3. CASE pc[h] = "complete"
    <3>1. /\ Cardinality(At(w, "complete"))' = Cardinality(At(w, "complete")) - 1
          /\ Cardinality(At(w, "complete")) \in Nat
      BY <2>3, MoveFrom
    <3>2. blame' = blame
      BY <2>3
    <3> QED
      BY <1>1, <1>2, <1>5, <2>1, <3>1, <3>2 DEF Sound
  <2> QED
    BY <2>2, <2>3
<1> QED
  BY <1>2, <1>3, <1>6, <1>7, HostDecides

\* A worker goes over to a new channel, and neither its handlers nor its breaker
\* notice.
LEMMA ReconnectKeeps ==
  ASSUME TypeOK, CrowdSound, BreakerSound, OpenBreakerShields,
         NEW w \in Workers, NEW c \in Channels, Reconnect(w, c)
  PROVE  BreakerSound' /\ OpenBreakerShields'
<1>1. ASSUME NEW v \in Workers PROVE Sound(v)' /\ Shielded(v)'
  <2>1. Sound(v) /\ Shielded(v)
    BY DEF BreakerSound, OpenBreakerShields, Sound, Shielded
  <2>2. Room(v) \in Nat /\ Room(v)' \in Nat /\ Room(v) <= Room(v)'
    BY ReconnectRoom
  <2>3. UNCHANGED <<breaker, pc, blame, leaked>>
    BY DEF Reconnect
  <2>4. At(v, "complete")' = At(v, "complete") /\ At(v, "reserve")' = At(v, "reserve")
    BY <2>3 DEF At
  <2>5. /\ Cardinality(At(v, "complete")) \in Nat /\ Cardinality(At(v, "reserve")) \in Nat
        /\ breaker[v].failures \in Nat /\ leaked[v] \in Nat
    BY Counts, BackpressureAssumption DEF TypeOK
  <2> QED
    BY <2>1, <2>2, <2>3, <2>4, <2>5 DEF Sound, Shielded
<1> QED
  BY <1>1 DEF BreakerSound, OpenBreakerShields, Sound, Shielded

\* A new process has a new breaker and no handler under way.
LEMMA RestartKeeps ==
  ASSUME TypeOK, CrowdSound, BreakerSound, OpenBreakerShields, NEW w \in Workers, Restart(w)
  PROVE  /\ breaker' \in [Workers -> BreakerType] /\ leaked' \in [Workers -> Nat]
         /\ crowd' \in [Workers -> Nat]
         /\ CrowdSound' /\ BreakerSound' /\ OpenBreakerShields'
<1>1. ClosedBreaker \in BreakerType /\ ClosedBreaker.state = "CLOSED" /\ ClosedBreaker.failures = 0
  BY BackpressureAssumption DEF ClosedBreaker, BreakerType, States
<1>2. /\ breaker' \in [Workers -> BreakerType] /\ leaked' \in [Workers -> Nat]
      /\ breaker'[w] = ClosedBreaker
      /\ \A v \in Workers \ {w} : breaker'[v] = breaker[v] /\ leaked'[v] = leaked[v]
  BY <1>1, SetBreakerEffect DEF Restart
<1>3. channel' = channel /\ crowd' = [crowd EXCEPT ![w] = 1] /\ crowd' \in [Workers -> Nat]
  BY DEF Restart, TypeOK
<1>4. ASSUME NEW v \in Workers
      PROVE  Sound(v)' /\ Shielded(v)' /\ Cardinality(InUse(v))' <= crowd'[v]
  <2>1. CASE v = w
    <3>1. \A g \in HandlersOf(v) : pc'[g] = "idle"
      BY <2>1 DEF Restart, HandlersOf, Handlers
    <3>2. At(v, "complete")' = {}
      BY <3>1 DEF At, HandlersOf
    <3>3. InUse(v)' = {channel[v]}
      BY <1>3, <3>1 DEF InUse, Busy, HandlersOf
    <3>4. Cardinality({}) = 0 /\ Cardinality({channel[v]}) = 1
      BY FS_EmptySet, FS_Singleton
    <3>5. crowd'[v] = 1 /\ Room(v)' \in Nat
      <4>1. crowd'[v] = 1
        BY <1>3, <2>1 DEF TypeOK
      <4>2. Cardinality(Slots) \in Nat
        BY BackpressureAssumption, FS_CardinalityType
      <4> QED
        BY <4>1, <4>2 DEF Room
    <3> QED
      BY <1>1, <1>2, <2>1, <3>2, <3>3, <3>4, <3>5 DEF Sound, Shielded
  <2>2. CASE v # w
    <3>1. \A g \in HandlersOf(v) : g \in Handlers /\ g \notin HandlersOf(w)
      BY <2>2 DEF HandlersOf, Handlers
    <3>2. \A g \in HandlersOf(v) : pc'[g] = pc[g]
      BY <3>1 DEF Restart
    <3>3. At(v, "complete")' = At(v, "complete") /\ At(v, "reserve")' = At(v, "reserve")
      BY <3>2 DEF At, HandlersOf
    <3>4. blame'[v] = blame[v]
      BY <2>2 DEF Restart, TypeOK
    <3>5. Sound(v) /\ Shielded(v) /\ Cardinality(InUse(v)) <= crowd[v]
      BY DEF BreakerSound, OpenBreakerShields, CrowdSound, Sound, Shielded
    <3>6. crowd'[v] = crowd[v] /\ channel'[v] = channel[v]
      BY <1>3, <2>2 DEF TypeOK
    <3>7. InUse(v)' = InUse(v) /\ Room(v)' = Room(v)
      BY <3>2, <3>6 DEF InUse, Busy, HandlersOf, Room
    <3> QED
      BY <1>2, <2>2, <3>3, <3>4, <3>5, <3>6, <3>7 DEF Sound, Shielded
  <2> QED
    BY <2>1, <2>2
<1> QED
  BY <1>2, <1>3, <1>4 DEF BreakerSound, OpenBreakerShields, CrowdSound, Sound, Shielded

(***************************************************************************)
(* The invariant.                                                          *)
(***************************************************************************)
LEMMA BackpressureInit == Init => BackpressureInv
<1> SUFFICES ASSUME Init PROVE BackpressureInv
  OBVIOUS
<1>1. TypeOK /\ BucketSound
  BY BackpressureAssumption DEF Init, TypeOK, BucketSound, ClosedBreaker, States, Places
<1>2. ASSUME NEW w \in Workers
      PROVE  Sound(w) /\ Shielded(w) /\ Cardinality(InUse(w)) <= crowd[w]
  <2>1. breaker[w].state = "CLOSED" /\ breaker[w].failures = 0 /\ crowd[w] = 1
    BY DEF Init, ClosedBreaker
  <2>2. \A g \in HandlersOf(w) : pc[g] = "idle"
    BY DEF Init, HandlersOf, Handlers
  <2>3. At(w, "complete") = {} /\ InUse(w) = {channel[w]}
    BY <2>2 DEF At, InUse, Busy
  <2>4. Cardinality({}) = 0 /\ Cardinality({channel[w]}) = 1 /\ Room(w) \in Nat
    BY <1>1, FS_EmptySet, FS_Singleton, RoomType
  <2> QED
    BY <2>1, <2>3, <2>4 DEF Sound, Shielded
<1> QED
  BY <1>1, <1>2
  DEF BackpressureInv, BreakerSound, OpenBreakerShields, CrowdSound, Sound, Shielded

\* A handler that moves stays in one of the places.
LEMMA GotoType ==
  ASSUME TypeOK, NEW h \in Handlers, NEW k \in Places, Goto(h, k)
  PROVE  pc' \in [Handlers -> Places]
BY DEF TypeOK, Goto

LEMMA AcquirePreserves ==
  ASSUME BackpressureInv, NEW h \in Handlers, NEW n \in Stamps,
         Denied(h, n) \/ AnswerLost(h, n) \/ Shed(h, n) \/ Admit(h, n)
  PROVE  BackpressureInv'
<1>1. TypeOK /\ BucketSound /\ CrowdSound /\ BreakerSound /\ OpenBreakerShields
  BY DEF BackpressureInv
<1>2. /\ bucket' \in [tokens : 0..Burst, ts : Int, expires : Nat]
      /\ back' \in Nat /\ granted' \in Nat /\ now' = now
      /\ BucketSound'
  BY <1>1, AcquireKeepsBucket DEF Shed, Admit
<1>3. pc[h] = "acquire" /\ UNCHANGED lines
  BY DEF Denied, AnswerLost, Shed, Admit, Granted, Acquiring
<1>4. channel' = channel /\ crowd' = crowd
  BY <1>3 DEF lines
<1>5. CASE Admit(h, n)
  <2>1. Ask(Host(h)) /\ Goto(h, "reserve") /\ UNCHANGED blame
    BY <1>5 DEF Admit
  <2>2. CrowdSound' /\ \A w \in Workers : Room(w)' = Room(w)
    BY <1>1, <1>3, <2>1, MoveKeepsCrowd
  <2>3. /\ breaker' \in [Workers -> BreakerType] /\ leaked' \in [Workers -> Nat]
        /\ BreakerSound' /\ OpenBreakerShields'
    BY <1>1, <1>3, <2>1, <2>2, AdmitKeeps
  <2>4. pc' \in [Handlers -> Places]
    BY <1>1, <2>1, GotoType DEF Places
  <2>5. TypeOK'
    BY <1>1, <1>2, <1>4, <2>1, <2>3, <2>4 DEF TypeOK, BreakerType
  <2> QED
    BY <1>2, <2>2, <2>3, <2>5 DEF BackpressureInv
<1>6. CASE Denied(h, n) \/ AnswerLost(h, n) \/ Shed(h, n)
  <2>1. Goto(h, "idle") /\ UNCHANGED <<breaker, blame, leaked>>
    BY <1>6 DEF Denied, AnswerLost, Shed
  <2>2. CrowdSound' /\ \A w \in Workers : Room(w)' = Room(w)
    BY <1>1, <1>3, <2>1, MoveKeepsCrowd
  <2>3. BreakerSound' /\ OpenBreakerShields'
    BY <1>1, <2>1, <2>2, FinishKeeps
  <2>4. pc' \in [Handlers -> Places]
    BY <1>1, <2>1, GotoType DEF Places
  <2>5. TypeOK'
    BY <1>1, <1>2, <1>4, <2>1, <2>4 DEF TypeOK
  <2> QED
    BY <1>2, <2>2, <2>3, <2>5 DEF BackpressureInv
<1> QED
  BY <1>5, <1>6

\* The other steps of a handler.
LEMMA HandlerPreserves ==
  ASSUME BackpressureInv, NEW h \in Handlers,
         \/ Deliver(h) \/ Reserved(h) \/ NotReserved(h)
         \/ SendAccepted(h) \/ SendTransient(h) \/ SendPermanent(h)
         \/ Completed(h) \/ CompleteFails(h)
  PROVE  BackpressureInv'
<1>1. /\ TypeOK /\ BucketSound /\ CrowdSound /\ BreakerSound /\ OpenBreakerShields
      /\ now \in Nat
  BY DEF BackpressureInv, TypeOK
<1>2. UNCHANGED limiter /\ UNCHANGED lines
  BY DEF Deliver, Reserved, NotReserved, SendAccepted, SendTransient, SendPermanent,
         Completed, CompleteFails
<1>3. BucketSound'
  BY <1>1, <1>2, LimiterIdle DEF limiter
<1>4. pc[h] # "idle" \/ ChannelOf(h) = channel[Host(h)]
  BY DEF Deliver, Reserved, NotReserved, SendAccepted, SendTransient, SendPermanent,
         Completed, CompleteFails
<1>5. PICK k \in Places : Goto(h, k)
  BY DEF Deliver, Reserved, NotReserved, SendAccepted, SendTransient, SendPermanent,
         Completed, CompleteFails, Places
<1>6. CrowdSound' /\ \A w \in Workers : Room(w)' = Room(w)
  BY <1>1, <1>2, <1>4, <1>5, MoveKeepsCrowd
<1>7. ASSUME breaker' \in [Workers -> BreakerType], leaked' \in [Workers -> Nat],
             blame' \in [Workers -> BOOLEAN], BreakerSound', OpenBreakerShields'
      PROVE  BackpressureInv'
  <2>1. pc' \in [Handlers -> Places]
    BY <1>1, <1>5, GotoType
  <2>2. TypeOK'
    BY <1>1, <1>2, <1>7, <2>1 DEF TypeOK, BreakerType, limiter, lines
  <2> QED
    BY <1>3, <1>6, <1>7, <2>2 DEF BackpressureInv
<1>8. CASE Reserved(h)
  <2>1. leaked' \in [Workers -> Nat] /\ BreakerSound' /\ OpenBreakerShields'
    BY <1>1, <1>6, <1>8, ReservedKeeps
  <2>2. breaker' \in [Workers -> BreakerType] /\ blame' \in [Workers -> BOOLEAN]
    BY <1>1, <1>8 DEF Reserved, TypeOK, BreakerType
  <2> QED
    BY <1>7, <2>1, <2>2
<1>9. CASE Deliver(h) \/ NotReserved(h) \/ SendPermanent(h) \/ Completed(h)
  <2>1. PICK l \in {"idle", "acquire"} : Goto(h, l)
    BY <1>9 DEF Deliver, NotReserved, SendPermanent, Completed
  <2>2. UNCHANGED <<breaker, blame, leaked>>
    BY <1>9 DEF Deliver, NotReserved, SendPermanent, Completed
  <2>3. BreakerSound' /\ OpenBreakerShields'
    BY <1>1, <1>6, <2>1, <2>2, FinishKeeps
  <2>4. /\ breaker' \in [Workers -> BreakerType] /\ leaked' \in [Workers -> Nat]
        /\ blame' \in [Workers -> BOOLEAN]
    BY <1>1, <2>2 DEF TypeOK, BreakerType
  <2> QED
    BY <1>7, <2>3, <2>4
<1>10. CASE SendAccepted(h)
  <2>1. /\ breaker' \in [Workers -> BreakerType] /\ leaked' \in [Workers -> Nat]
        /\ BreakerSound' /\ OpenBreakerShields'
    BY <1>1, <1>6, <1>10, SendAcceptedKeeps
  <2>2. blame' \in [Workers -> BOOLEAN]
    BY <1>1, <1>10 DEF SendAccepted, TypeOK
  <2> QED
    BY <1>7, <2>1, <2>2
<1>11. CASE SendTransient(h) \/ CompleteFails(h)
  <2>1. /\ recordFailure(Host(h)) /\ Goto(h, "idle")
        /\ \/ pc[h] = "send" /\ blame' = [blame EXCEPT ![Host(h)] = TRUE]
           \/ pc[h] = "complete" /\ blame' = blame
    BY <1>11 DEF SendTransient, CompleteFails
  <2>2. /\ breaker' \in [Workers -> BreakerType] /\ leaked' \in [Workers -> Nat]
        /\ BreakerSound' /\ OpenBreakerShields'
    BY <1>1, <1>6, <2>1, FailureKeeps
  <2>3. blame' \in [Workers -> BOOLEAN]
    BY <1>1, <2>1 DEF TypeOK
  <2> QED
    BY <1>7, <2>2, <2>3
<1> QED
  BY <1>8, <1>9, <1>10, <1>11

LEMMA BackpressureStep == BackpressureInv /\ [Next]_vars => BackpressureInv'
<1> SUFFICES ASSUME BackpressureInv, [Next]_vars PROVE BackpressureInv'
  OBVIOUS
<1>1. TypeOK /\ BucketSound /\ CrowdSound /\ BreakerSound /\ OpenBreakerShields
  BY DEF BackpressureInv
<1>2. ASSUME NEW h \in Handlers, AcquireStep(h) PROVE BackpressureInv'
  BY <1>2, AcquirePreserves DEF AcquireStep
<1>3. ASSUME NEW h \in Handlers, HandlerStep(h) PROVE BackpressureInv'
  BY <1>2, <1>3, HandlerPreserves DEF HandlerStep
<1>4. ASSUME NEW w \in Workers, Restart(w) PROVE BackpressureInv'
  <2>1. /\ breaker' \in [Workers -> BreakerType] /\ leaked' \in [Workers -> Nat]
        /\ crowd' \in [Workers -> Nat]
        /\ CrowdSound' /\ BreakerSound' /\ OpenBreakerShields'
    BY <1>1, <1>4, RestartKeeps
  <2>2. UNCHANGED limiter /\ now \in Nat /\ channel' = channel
    BY <1>1, <1>4 DEF Restart, TypeOK
  <2>3. BucketSound'
    BY <1>1, <2>2, LimiterIdle DEF limiter
  <2>4. pc' \in [Handlers -> Places] /\ blame' \in [Workers -> BOOLEAN]
    BY <1>1, <1>4 DEF Restart, TypeOK, Places
  <2>5. TypeOK'
    BY <1>1, <2>1, <2>2, <2>4 DEF TypeOK, BreakerType, limiter
  <2> QED
    BY <2>1, <2>3, <2>5 DEF BackpressureInv
<1>5. ASSUME NEW w \in Workers, NEW c \in Channels, Reconnect(w, c) PROVE BackpressureInv'
  <2>1. UNCHANGED <<limiter, breaker, pc, blame, leaked>> /\ now \in Nat
    BY <1>1, <1>5 DEF Reconnect, TypeOK
  <2>2. CrowdSound' /\ channel' \in [Workers -> Channels] /\ crowd' \in [Workers -> Nat]
    BY <1>1, <1>5, ReconnectRoom
  <2>3. BreakerSound' /\ OpenBreakerShields'
    BY <1>1, <1>5, ReconnectKeeps
  <2>4. BucketSound'
    BY <1>1, <2>1, LimiterIdle DEF limiter
  <2>5. TypeOK'
    BY <1>1, <2>1, <2>2 DEF TypeOK, limiter
  <2> QED
    BY <2>2, <2>3, <2>4, <2>5 DEF BackpressureInv
<1>6. CASE Tick
  <2>1. now \in Nat /\ now' \in Nat /\ now' >= now
    BY <1>1, <1>6 DEF Tick, TypeOK
  <2>2. BucketSound'
    BY <1>1, <1>6, <2>1, LimiterIdle DEF Tick
  <2>3. TypeOK'
    BY <1>1, <1>6, <2>1 DEF Tick, TypeOK, lines
  <2>4. CrowdSound' /\ BreakerSound' /\ OpenBreakerShields'
    BY <1>1, <1>6
    DEF Tick, lines, CrowdSound, InUse, Busy, BreakerSound, OpenBreakerShields, At, Room
  <2> QED
    BY <2>2, <2>3, <2>4 DEF BackpressureInv
<1>7. CASE UNCHANGED vars
  <2>1. TypeOK' /\ BucketSound'
    BY <1>1, <1>7 DEF vars, limiter, lines, TypeOK, BucketSound
  <2>2. CrowdSound' /\ BreakerSound' /\ OpenBreakerShields'
    BY <1>1, <1>7
    DEF vars, limiter, lines, CrowdSound, InUse, Busy, BreakerSound, OpenBreakerShields, At, Room
  <2> QED
    BY <2>1, <2>2 DEF BackpressureInv
<1> QED
  BY <1>3, <1>4, <1>5, <1>6, <1>7 DEF Next

\* The bucket and the breakers stay sound in every behaviour.
THEOREM BackpressureInvariant == Spec => []BackpressureInv
<1> QED
  BY BackpressureInit, BackpressureStep, PTL DEF Spec

(***************************************************************************)
(* The theorems.                                                           *)
(***************************************************************************)

\* Every variable keeps its type: no interleaving of the scripts takes the bucket
\* below zero or above the burst, whatever the clocks say.
THEOREM BackpressureTypes == Spec => []TypeOK
<1>1. BackpressureInv => TypeOK
  BY DEF BackpressureInv
<1> QED
  BY <1>1, BackpressureInvariant, PTL

\* The workers together start at most a burst, a token per unit of time, and what
\* their clocks went back by.
THEOREM RateIsBounded == Spec => []RateBound
<1>1. BackpressureInv => RateBound
  <2> SUFFICES ASSUME BackpressureInv PROVE RateBound
    OBVIOUS
  <2>1. /\ bucket.tokens \in 0..Burst /\ bucket.ts \in Int /\ granted \in Nat /\ back \in Nat
        /\ now \in Nat /\ Burst \in Nat /\ MaxSkew \in Nat
    BY BackpressureAssumption DEF BackpressureInv, TypeOK
  <2> QED
    BY <2>1 DEF BackpressureInv, BucketSound, RateBound
<1> QED
  BY <1>1, BackpressureInvariant, PTL

\* Between the opening of a breaker and its next probe fewer sends start than the
\* process had room for handlers, those of the channels it lost included.
THEOREM BreakersShield == Spec => []OpenBreakerShields
<1>1. BackpressureInv => OpenBreakerShields
  BY DEF BackpressureInv
<1> QED
  BY <1>1, BackpressureInvariant, PTL

\* As long as a process has had room for fewer handlers than the threshold, on its
\* channel and on those it lost, failures of the database and the broker do not open
\* the breaker of a provider that works.
THEOREM HealthyStaysClosed == Spec => []HealthyProviderKeepsBreakerClosed
<1>1. BackpressureInv => HealthyProviderKeepsBreakerClosed
  <2> SUFFICES ASSUME BackpressureInv, NEW w \in Workers, ~blame[w], Room(w) < Threshold
               PROVE  breaker[w].state = "CLOSED"
    BY DEF HealthyProviderKeepsBreakerClosed
  <2>1. TypeOK /\ CrowdSound
    BY DEF BackpressureInv
  <2>2. breaker[w].failures + Cardinality(At(w, "complete")) <= Room(w)
    BY DEF BackpressureInv, BreakerSound
  <2>3. Cardinality(At(w, "complete")) \in Nat /\ Room(w) \in Nat
    BY <2>1, Counts, RoomType
  <2>4. breaker[w].failures \in Nat /\ Threshold \in Nat
    BY <2>1, BackpressureAssumption DEF TypeOK
  <2>5. breaker[w].failures # Threshold
    BY <2>2, <2>3, <2>4
  <2> QED
    BY <2>5 DEF BackpressureInv, BreakerSound
<1> QED
  BY <1>1, BackpressureInvariant, PTL

=============================================================================
