------------------------------ MODULE Backpressure ------------------------------
(***************************************************************************)
(* What protects the provider: the token bucket all workers share in Redis *)
(* and the circuit breaker each worker keeps in memory, for one provider,  *)
(* with the clocks Delivery leaves out.                                    *)
(*                                                                         *)
(* The unit of time is that of one token, 1000 / RATE_LIMIT_PER_SECOND ms, *)
(* so the refill of an interval is its length.  `now` is the clock of      *)
(* Redis and of the breakers.  The time a worker sends with an acquire is  *)
(* read on the worker's clock and before the call travels, so it differs   *)
(* from `now` by up to MaxSkew either way.                                 *)
(***************************************************************************)
EXTENDS Integers, FiniteSets

CONSTANTS
  Workers,     \* worker processes
  Channels,    \* bound: the channels of a worker that can be in use at once
  Slots,       \* unsettled messages of one channel: CONSUMER_PREFETCH
  Burst,       \* RATE_LIMIT_BURST
  Threshold,   \* BREAKER_FAILURE_THRESHOLD
  Cooldown,    \* BREAKER_COOLDOWN_MS, in units
  MaxSkew,     \* how far the time of an acquire may be off
  MaxTime,     \* bound: the last moment of a behaviour
  MaxBack      \* bound: how far the bucket's timestamp goes back in all

\* The prefetch bounds the messages of a channel.  A channel that was lost delivers
\* nothing more, and its handlers run on beside those of the next.
Handlers == Workers \X (Channels \X Slots)
HandlersOf(w) == {w} \X (Channels \X Slots)
Host(h) == h[1]
ChannelOf(h) == h[2][1]

ASSUME BackpressureAssumption ==
  /\ IsFiniteSet(Workers) /\ IsFiniteSet(Channels) /\ IsFiniteSet(Slots)
  /\ Burst \in Nat \ {0} /\ Threshold \in Nat \ {0} /\ Cooldown \in Nat
  /\ MaxSkew \in Nat /\ 2 * MaxSkew <= Burst
  /\ MaxTime \in Nat /\ MaxBack \in Nat

VARIABLES
  now,
  bucket,    \* the hash rl:<provider>: tokens, ts and the moment it expires
  breaker,   \* the breaker of a worker
  channel,   \* the channel a worker consumes on
  pc,        \* the await a handler is suspended in, or "idle"
  granted,   \* history: acquires that were answered 1
  back,      \* history: how far ts was moved back, in all
  blame,     \* history: the provider failed this worker since its last success
  leaked,    \* history: sends this worker started since its breaker opened
  crowd      \* history: the most channels this process has had in use at once

limiter == <<now, bucket, granted, back>>
lines == <<channel, crowd>>
vars == <<limiter, lines, breaker, pc, blame, leaked>>

States == {"CLOSED", "OPEN", "HALF_OPEN"}
ClosedBreaker == [state |-> "CLOSED", failures |-> 0, openedAt |-> 0]

\* No key yet: a hash that has expired.
Init ==
  /\ now = 0
  /\ bucket = [tokens |-> 0, ts |-> 0, expires |-> 0]
  /\ breaker = [w \in Workers |-> ClosedBreaker]
  /\ channel \in [Workers -> Channels]
  /\ pc = [h \in Handlers |-> "idle"]
  /\ granted = 0 /\ back = 0
  /\ blame = [w \in Workers |-> FALSE]
  /\ leaked = [w \in Workers |-> 0]
  /\ crowd = [w \in Workers |-> 1]

(***************************************************************************)
(* The script of RateLimiterService.acquire, run by Redis for a worker     *)
(* that gave the time n.                                                   *)
(***************************************************************************)
Later(a, b) == IF a > b THEN a - b ELSE 0

\* Mutant: the script forgets that a clock may be behind the one before it.
RefillEitherWay(n) ==
  IF now < bucket.expires
  THEN LET t == bucket.tokens + n - bucket.ts IN IF t > Burst THEN Burst ELSE t
  ELSE Burst

\* The tokens there are at time n, the bucket's own expiry included.
Refill(n) ==
  IF now < bucket.expires
  THEN LET t == bucket.tokens + Later(n, bucket.ts) IN IF t > Burst THEN Burst ELSE t
  ELSE Burst

\* Mutant: the script stores the tokens and not the time it counted them at.
StoreTokens(n, t) ==
  /\ bucket' = [bucket EXCEPT !.tokens = t, !.expires = now + 2 * Burst]
  /\ back' = back + Later(bucket.ts, n)

Store(n, t) ==
  /\ bucket' = [tokens |-> t, ts |-> n, expires |-> now + 2 * Burst]
  /\ back' = back + Later(bucket.ts, n)

Acquiring(h, n) ==
  /\ pc[h] = "acquire"
  /\ back + Later(bucket.ts, n) <= MaxBack
  /\ UNCHANGED <<now, lines>>

Granted(h, n) ==
  /\ Acquiring(h, n) /\ Refill(n) >= 1
  /\ Store(n, Refill(n) - 1)
  /\ granted' = granted + 1

(***************************************************************************)
(* The circuit breaker.  The count saturates at the threshold: the code    *)
(* only compares with >=.                                                  *)
(***************************************************************************)
SetBreaker(w, b) ==
  /\ breaker' = [breaker EXCEPT ![w] = b]
  /\ leaked' = IF b.state = "OPEN" /\ breaker[w].state = "OPEN" THEN leaked
               ELSE [leaked EXCEPT ![w] = 0]

CooledDown(w) == now - breaker[w].openedAt >= Cooldown

\* Mutant: the breaker lets a probe through and stays open.
AskWithoutProbe(w) == UNCHANGED <<breaker, leaked>>

\* What isOpen does to the breaker when it answers false.
Ask(w) ==
  IF breaker[w].state = "OPEN"
  THEN SetBreaker(w, [breaker[w] EXCEPT !.state = "HALF_OPEN"])
  ELSE UNCHANGED <<breaker, leaked>>

\* Mutant: a success closes the breaker and does not forget the failures.
recordSuccessOfProbe(w) == SetBreaker(w, [breaker[w] EXCEPT !.state = "CLOSED"])
recordSuccess(w) == SetBreaker(w, ClosedBreaker)

recordFailure(w) ==
  LET b == breaker[w]
      n == IF b.failures < Threshold THEN b.failures + 1 ELSE Threshold
  IN  SetBreaker(w, IF b.state = "HALF_OPEN" \/ n >= Threshold
                    THEN [state |-> "OPEN", failures |-> n, openedAt |-> now]
                    ELSE [b EXCEPT !.failures = n])

(***************************************************************************)
(* A handler of DeliveryService.process.  Where Delivery has the rest of   *)
(* the handling (the deferral, the retry, the dead letter, the ack), none  *)
(* of which touches the bucket or the breaker, it is idle.                 *)
(***************************************************************************)
Goto(h, l) == pc' = [pc EXCEPT ![h] = l]

\* A message arrives on the worker's channel, which has a slot for it.
Deliver(h) ==
  /\ pc[h] = "idle" /\ ChannelOf(h) = channel[Host(h)]
  /\ Goto(h, "acquire")
  /\ UNCHANGED <<limiter, lines, breaker, blame, leaked>>

\* No token: the message is deferred.
Denied(h, n) ==
  /\ Acquiring(h, n) /\ Refill(n) < 1
  /\ Store(n, Refill(n))
  /\ Goto(h, "idle")
  /\ UNCHANGED <<breaker, granted, blame, leaked>>

\* Redis runs the script and its answer is lost: the token is spent for nothing.
AnswerLost(h, n) ==
  /\ Acquiring(h, n) /\ Refill(n) >= 1
  /\ Store(n, Refill(n) - 1)
  /\ Goto(h, "idle")
  /\ UNCHANGED <<granted, breaker, blame, leaked>>

\* A token was taken, and the breaker is open: the message is deferred.
Shed(h, n) ==
  /\ Granted(h, n)
  /\ breaker[Host(h)].state = "OPEN" /\ ~CooledDown(Host(h))
  /\ Goto(h, "idle")
  /\ UNCHANGED <<breaker, blame, leaked>>

\* A token was taken, and isOpen answers false.  In HALF_OPEN it does so to all.
Admit(h, n) ==
  /\ Granted(h, n)
  /\ breaker[Host(h)].state = "OPEN" => CooledDown(Host(h))
  /\ Ask(Host(h))
  /\ Goto(h, "reserve")
  /\ UNCHANGED blame

\* The attempt is reserved, and the provider is called without a second look at
\* the breaker.
Reserved(h) ==
  /\ pc[h] = "reserve"
  /\ Goto(h, "send")
  /\ leaked' = IF breaker[Host(h)].state = "OPEN"
               THEN [leaked EXCEPT ![Host(h)] = @ + 1] ELSE leaked
  /\ UNCHANGED <<limiter, lines, breaker, blame>>

\* A duplicate, or the database failed: neither counts.
NotReserved(h) ==
  /\ pc[h] = "reserve"
  /\ Goto(h, "idle")
  /\ UNCHANGED <<limiter, lines, breaker, blame, leaked>>

SendAccepted(h) ==
  /\ pc[h] = "send"
  /\ recordSuccess(Host(h))
  /\ blame' = [blame EXCEPT ![Host(h)] = FALSE]
  /\ Goto(h, "complete")
  /\ UNCHANGED <<limiter, lines>>

SendTransient(h) ==
  /\ pc[h] = "send"
  /\ recordFailure(Host(h))
  /\ blame' = [blame EXCEPT ![Host(h)] = TRUE]
  /\ Goto(h, "idle")
  /\ UNCHANGED <<limiter, lines>>

SendPermanent(h) ==
  /\ pc[h] = "send"
  /\ Goto(h, "idle")
  /\ UNCHANGED <<limiter, lines, breaker, blame, leaked>>

\* The DELIVERED row is written and the status event published.
Completed(h) ==
  /\ pc[h] = "complete"
  /\ Goto(h, "idle")
  /\ UNCHANGED <<limiter, lines, breaker, blame, leaked>>

\* Either of the two fails: counted as if the provider had failed.
CompleteFails(h) ==
  /\ pc[h] = "complete"
  /\ recordFailure(Host(h))
  /\ Goto(h, "idle")
  /\ UNCHANGED <<limiter, lines, blame>>

(***************************************************************************)
(* Time, a channel that is lost and replaced, and a worker that is killed  *)
(* and started again.                                                      *)
(***************************************************************************)
Tick ==
  /\ now < MaxTime /\ now' = now + 1
  /\ UNCHANGED <<bucket, granted, back, lines, breaker, pc, blame, leaked>>

\* The channels of a worker with a handler under way, and the one it consumes on.
Busy(w) == {ChannelOf(h) : h \in {g \in HandlersOf(w) : pc[g] # "idle"}}
InUse(w) == Busy(w) \cup {channel[w]}

\* The worker's channel is lost and it consumes on a new one, with a prefetch of its
\* own.  The handlers of the lost one run on, and its messages are the broker's again.
\* What a handler leaves behind to be delivered twice is Delivery's subject.
Reconnect(w, c) ==
  /\ c \notin InUse(w)
  /\ channel' = [channel EXCEPT ![w] = c]
  /\ LET n == Cardinality(Busy(w) \cup {c})
     IN  crowd' = [crowd EXCEPT ![w] = IF n > @ THEN n ELSE @]
  /\ UNCHANGED <<limiter, breaker, pc, blame, leaked>>

Restart(w) ==
  /\ SetBreaker(w, ClosedBreaker)
  /\ pc' = [h \in Handlers |-> IF h \in HandlersOf(w) THEN "idle" ELSE pc[h]]
  /\ blame' = [blame EXCEPT ![w] = FALSE]
  /\ crowd' = [crowd EXCEPT ![w] = 1]
  /\ UNCHANGED <<limiter, channel>>

\* The times an acquire may carry.
Stamps == (now - MaxSkew)..(now + MaxSkew)

AcquireStep(h) ==
  \E n \in Stamps : Denied(h, n) \/ AnswerLost(h, n) \/ Shed(h, n) \/ Admit(h, n)

HandlerStep(h) ==
  \/ Deliver(h) \/ AcquireStep(h)
  \/ Reserved(h) \/ NotReserved(h)
  \/ SendAccepted(h) \/ SendTransient(h) \/ SendPermanent(h)
  \/ Completed(h) \/ CompleteFails(h)

Next ==
  \/ \E h \in Handlers : HandlerStep(h)
  \/ \E w \in Workers : Restart(w) \/ \E c \in Channels : Reconnect(w, c)
  \/ Tick

Spec == Init /\ [][Next]_vars

(***************************************************************************)
(* Properties.                                                             *)
(***************************************************************************)
Places == {"idle", "acquire", "reserve", "send", "complete"}

TypeOK ==
  /\ now \in Nat
  /\ bucket \in [tokens : 0..Burst, ts : Int, expires : Nat]
  /\ breaker \in [Workers -> [state : States, failures : 0..Threshold, openedAt : Nat]]
  /\ pc \in [Handlers -> Places]
  /\ granted \in Nat /\ back \in Nat
  /\ blame \in [Workers -> BOOLEAN] /\ leaked \in [Workers -> Nat]
  /\ channel \in [Workers -> Channels] /\ crowd \in [Workers -> Nat]

\* All workers together start no more sends than a burst and a token per unit of
\* time, whatever order their requests reach Redis in, whenever the key expires and
\* however many workers die.  What they get beyond that is what their clocks
\* disagree by: each time a later request carries an earlier time, the interval
\* between the two is refilled once more.
RateBound == granted <= Burst + now + MaxSkew + back

At(w, l) == {h \in HandlersOf(w) : pc[h] = l}

\* The handlers a process has had room for, at most: a prefetch for each channel that
\* was in use at once.  Until its first reconnect that is CONSUMER_PREFETCH, and after
\* one that finds all handlers done it still is.
Room(w) == Cardinality(Slots) * crowd[w]

\* An open breaker shields the provider: from its opening to its next probe the
\* only sends a worker starts are those of handlers that had asked before, on its
\* channel or on one it lost, which are fewer than it had room for, however many late
\* failures push the cooldown on.
OpenBreakerShields ==
  \A w \in Workers : breaker[w].state = "OPEN" =>
    leaked[w] + Cardinality(At(w, "reserve")) < Room(w)

\* Failures of the database and the broker are counted as the provider's, but each
\* follows a send that succeeded.  As long as the handlers a process has had room
\* for, those of lost channels included, are fewer than the threshold, they never
\* open the breaker of a provider that works.
HealthyProviderKeepsBreakerClosed ==
  \A w \in Workers : ~blame[w] /\ Room(w) < Threshold => breaker[w].state = "CLOSED"

(***************************************************************************)
(* The inductive invariant.                                                *)
(***************************************************************************)
\* The tokens that are left were not handed out either, and a hash that expired
\* was left alone for long enough to be full.
BucketSound ==
  /\ granted + bucket.tokens <= Burst + bucket.ts + back \/ bucket.expires = 0
  /\ IF bucket.expires = 0 THEN granted = 0 /\ bucket.ts = 0
     ELSE bucket.ts + 2 * Burst <= bucket.expires + MaxSkew
  /\ bucket.ts <= now + MaxSkew

\* Only a count that reached the threshold opens a breaker, and until the provider
\* fails it counts handlers that no longer complete.
BreakerSound ==
  \A w \in Workers :
    /\ breaker[w].state # "CLOSED" => breaker[w].failures = Threshold
    /\ ~blame[w] => breaker[w].failures + Cardinality(At(w, "complete")) <= Room(w)

\* No process has more channels in use than it ever had.
CrowdSound == \A w \in Workers : Cardinality(InUse(w)) <= crowd[w]

BackpressureInv ==
  TypeOK /\ BucketSound /\ CrowdSound /\ BreakerSound /\ OpenBreakerShields

=============================================================================
