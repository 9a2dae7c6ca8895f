----------------------------- MODULE BudgetProofs -----------------------------
(***************************************************************************)
(* What a job brings forth is paid for by what the broker took back, for   *)
(* every number of jobs, workers, slots, attempts and faults.              *)
(*                                                                         *)
(* The proof counts copies and handlers.  Sets stand for the counts, so    *)
(* that a step that moves one message exchanges one element.               *)
(***************************************************************************)
EXTENDS DeliveryProofs, Functions

(***************************************************************************)
(* Counting.                                                               *)
(***************************************************************************)
\* Part of a finite set has no more elements.
LEMMA Shrinks ==
  ASSUME NEW S, IsFiniteSet(S), NEW T, T \subseteq S
  PROVE  /\ IsFiniteSet(T) /\ Cardinality(T) \in Nat /\ Cardinality(S) \in Nat
         /\ Cardinality(T) <= Cardinality(S)
<1>1. T \in SUBSET S
  OBVIOUS
<1> QED
  BY <1>1, FS_Subset, FS_CardinalityType

\* A set that loses an element has one fewer at most.
LEMMA Loses ==
  ASSUME NEW S, IsFiniteSet(S), NEW x \in S, NEW T, T \subseteq S \ {x}
  PROVE  Cardinality(T) + 1 <= Cardinality(S)
<1>1. IsFiniteSet(S \ {x}) /\ Cardinality(S \ {x}) = Cardinality(S) - 1
  BY FS_RemoveElement
<1> QED
  BY <1>1, Shrinks, FS_CardinalityType

\* A set that gains an element has one more at most.
LEMMA Gains ==
  ASSUME NEW S, IsFiniteSet(S), NEW x, NEW T, T \subseteq S \cup {x}
  PROVE  IsFiniteSet(T) /\ Cardinality(T) <= Cardinality(S) + 1
<1>0. Cardinality(S) \in Nat
  BY FS_CardinalityType
<1>1. IsFiniteSet(S \cup {x}) /\ Cardinality(S \cup {x}) <= Cardinality(S) + 1
  BY <1>0, FS_AddElement
<1>2. /\ IsFiniteSet(T) /\ Cardinality(T) \in Nat /\ Cardinality(S) \in Nat
      /\ Cardinality(S \cup {x}) \in Nat /\ Cardinality(T) <= Cardinality(S \cup {x})
  BY <1>1, Shrinks, FS_CardinalityType
<1> QED
  BY <1>1, <1>2

\* A set that exchanges an element for another does not grow.
LEMMA Exchanges ==
  ASSUME NEW S, IsFiniteSet(S), NEW x \in S, NEW y, NEW T, T \subseteq (S \ {x}) \cup {y}
  PROVE  Cardinality(T) <= Cardinality(S)
<1>1. IsFiniteSet(S \ {x}) /\ Cardinality(S \ {x}) = Cardinality(S) - 1
  BY FS_RemoveElement
<1>2. IsFiniteSet(T) /\ Cardinality(T) <= Cardinality(S \ {x}) + 1
  BY <1>1, Gains
<1> QED
  BY <1>1, <1>2, FS_CardinalityType

(***************************************************************************)
(* Messages, copies and carriers are finite sets.                          *)
(***************************************************************************)
\* The messages of a job up to an attempt are finitely many, and never change.
LEMMA UpToFacts ==
  ASSUME NEW m \in Msgs
  PROVE  /\ m \in UpTo(m) /\ UpTo(m) \subseteq Msgs /\ IsFiniteSet(UpTo(m))
         /\ UpTo(m)' = UpTo(m)
<1>1. m \in UpTo(m) /\ UpTo(m) \subseteq Msgs /\ m.attempt \in Nat
  BY ConstantsAssumption DEF UpTo, Msgs, Attempts
<1>2. IsFiniteSet(0..m.attempt)
  BY <1>1, FS_Interval
<1> DEFINE f == [n \in UpTo(m) |-> n.attempt]
<1>3. f \in Injection(UpTo(m), 0..m.attempt)
  <2>1. \A n \in UpTo(m) : n.attempt \in 0..m.attempt
    BY ConstantsAssumption DEF UpTo, Msgs, Attempts
  <2>2. ASSUME NEW n \in UpTo(m), NEW k \in UpTo(m), n.attempt = k.attempt PROVE n = k
    <3>1. n \in Msgs /\ k \in Msgs /\ n.job = k.job
      BY DEF UpTo
    <3> QED
      BY <2>2, <3>1 DEF Msgs
  <2> QED
    BY <2>1, <2>2 DEF Injection, IsInjective
<1>4. IsFiniteSet(UpTo(m))
  BY <1>2, <1>3, FS_Injection
<1> QED
  BY <1>1, <1>4 DEF UpTo

\* A copy is a place of a message in a queue.
LEMMA CopyOf ==
  ASSUME NEW m \in Msgs
  PROVE  /\ \A c : c \in Copies(m) <=>
              \E t \in 0..NumTiers, n \in UpTo(m) : \E i \in 1..InQueue(t, n) : c = <<t, n, i>>
         /\ \A c : c \in Copies(m)' <=>
              \E t \in 0..NumTiers, n \in UpTo(m) : \E i \in 1..InQueue(t, n)' : c = <<t, n, i>>
<1> DEFINE Stack(t, n) == {<<t, n, i>> : i \in 1..InQueue(t, n)}
<1>1. Copies(m) = UNION {Stack(t, n) : t \in 0..NumTiers, n \in UpTo(m)}
  BY DEF Copies
<1>2. Copies(m)' = UNION {Stack(t, n)' : t \in 0..NumTiers, n \in UpTo(m)}
  BY UpToFacts DEF Copies
<1>3. \A t, n, c : c \in Stack(t, n) <=> \E i \in 1..InQueue(t, n) : c = <<t, n, i>>
  OBVIOUS
<1>4. \A t, n, c : c \in Stack(t, n)' <=> \E i \in 1..InQueue(t, n)' : c = <<t, n, i>>
  OBVIOUS
<1> HIDE DEF Stack
<1>5. ASSUME NEW c
      PROVE  c \in UNION {Stack(t, n) : t \in 0..NumTiers, n \in UpTo(m)} <=>
               \E t \in 0..NumTiers, n \in UpTo(m) : c \in Stack(t, n)
  OBVIOUS
<1>6. ASSUME NEW c
      PROVE  c \in UNION {Stack(t, n)' : t \in 0..NumTiers, n \in UpTo(m)} <=>
               \E t \in 0..NumTiers, n \in UpTo(m) : c \in Stack(t, n)'
  OBVIOUS
<1> QED
  BY <1>1, <1>2, <1>3, <1>4, <1>5, <1>6

\* A queue holds a number of copies of each message.
LEMMA InQueueType ==
  TypeOK => \A t \in 0..NumTiers, n \in Msgs : InQueue(t, n) \in Nat
BY ConstantsAssumption DEF TypeOK, InQueue, Tiers

\* The copies of what may still become m are finitely many.
LEMMA CopiesFinite ==
  ASSUME TypeOK, NEW m \in Msgs
  PROVE  IsFiniteSet(Copies(m)) /\ Cardinality(Copies(m)) \in Nat
<1> DEFINE Places == (0..NumTiers) \X UpTo(m)
           Stack(p) == {<<p[1], p[2], i>> : i \in 1..InQueue(p[1], p[2])}
           f == [p \in Places |-> Stack(p)]
           Stacks == {Stack(p) : p \in Places}
<1>1. IsFiniteSet(Places)
  <2>1. IsFiniteSet(0..NumTiers)
    BY ConstantsAssumption, FS_Interval
  <2> QED
    BY <2>1, FS_Product, UpToFacts
<1>2. f \in Surjection(Places, Stacks)
  BY DEF Surjection
<1>3. IsFiniteSet(Stacks)
  <2> HIDE DEF f, Stacks, Places
  <2> QED
    BY <1>1, <1>2, FS_Surjection
<1>4. ASSUME NEW p \in Places PROVE IsFiniteSet(Stack(p))
  <2>1. InQueue(p[1], p[2]) \in Nat
    BY <1>4, InQueueType, UpToFacts
  <2> DEFINE g == [i \in 1..InQueue(p[1], p[2]) |-> <<p[1], p[2], i>>]
  <2>2. g \in Surjection(1..InQueue(p[1], p[2]), Stack(p))
    BY DEF Surjection
  <2> QED
    BY <2>1, <2>2, FS_Interval, FS_Surjection
<1>5. IsFiniteSet(UNION Stacks)
  <2>1. \A T \in Stacks : IsFiniteSet(T)
    BY <1>4
  <2> HIDE DEF Stacks
  <2> QED
    BY <1>3, <2>1, FS_UNION
<1>6. Copies(m) \subseteq UNION Stacks
  <2> SUFFICES ASSUME NEW c \in Copies(m) PROVE c \in UNION Stacks
    OBVIOUS
  <2>1. PICK t \in 0..NumTiers, n \in UpTo(m) : \E i \in 1..InQueue(t, n) : c = <<t, n, i>>
    BY CopyOf
  <2>2. <<t, n>> \in Places /\ c \in Stack(<<t, n>>)
    BY <2>1
  <2> QED
    BY <2>2
<1> QED
  BY <1>5, <1>6, Shrinks

\* So are the handlers that may still come to a point with m, before a step and after.
LEMMA CarriersFinite ==
  ASSUME NEW m, NEW L
  PROVE  /\ IsFiniteSet(Carriers(m, L)) /\ Cardinality(Carriers(m, L)) \in Nat
         /\ IsFiniteSet(Carriers(m, L)') /\ Cardinality(Carriers(m, L)') \in Nat
<1>1. Carriers(m, L) \subseteq Handlers /\ Carriers(m, L)' \subseteq Handlers
  BY DEF Carriers
<1> QED
  BY <1>1, HandlerFacts, Shrinks

CopiesCounted == \A m \in Msgs : Cardinality(Copies(m)) \in Nat

\* The same as a formula of one state, to be had of the next one as well.
LEMMA CopiesCount == TypeOK => CopiesCounted
BY CopiesFinite DEF CopiesCounted

(***************************************************************************)
(* Queues.                                                                 *)
(***************************************************************************)

\* What the broker takes back is paid for: beside the copies X that were there or
\* were published, there are as many new ones as messages taken back of the job.
LEMMA RequeuePays ==
  ASSUME TypeOK, NEW hs \in SUBSET Handlers, Requeue(hs), NEW m \in Msgs,
         NEW X, IsFiniteSet(X), Copies(m) \subseteq X,
         \A t \in Tiers, n \in UpTo(m) : \A i \in 1..retryQ'[t][n] : <<t, n, i>> \in X
  PROVE  /\ Cardinality(Copies(m)') + redelivered[m.job] <= Cardinality(X) + redelivered'[m.job]
         /\ Cardinality(Copies(m)') \in Nat
<1> DEFINE Back(n) == {h \in hs : held[h] /\ msg[h] = n}
           BackOf == {h \in hs : held[h] /\ msg[h].job = m.job}
           New == Copies(m)' \ X
           Tag == [n \in UpTo(m) |-> CHOOSE g \in Injection(1..Cardinality(Back(n)), Back(n)) : TRUE]
           F == [c \in New |-> Tag[c[2]][c[3] - mainQ[c[2]]]]
<1>1. IsFiniteSet(BackOf) /\ Cardinality(BackOf) \in Nat
  <2>1. BackOf \subseteq Handlers
    OBVIOUS
  <2> QED
    BY <2>1, HandlerFacts, Shrinks
<1>2. \A n \in UpTo(m) : /\ Cardinality(Back(n)) \in Nat
                         /\ Tag[n] \in Injection(1..Cardinality(Back(n)), Back(n))
  <2> TAKE n \in UpTo(m)
  <2>1. Back(n) \subseteq Handlers
    OBVIOUS
  <2>2. IsFiniteSet(Back(n)) /\ Cardinality(Back(n)) \in Nat
    BY <2>1, HandlerFacts, Shrinks
  <2>3. ExistsBijection(1..Cardinality(Back(n)), Back(n))
    BY <2>2, FS_CardinalityType
  <2>4. \E g : g \in Injection(1..Cardinality(Back(n)), Back(n))
    BY <2>3 DEF ExistsBijection, Bijection
  <2> QED
    BY <2>2, <2>4
<1>3. \A n \in UpTo(m) : mainQ[n] \in Nat /\ mainQ'[n] = mainQ[n] + Cardinality(Back(n))
  BY UpToFacts DEF Requeue, TypeOK
<1>4. redelivered[m.job] \in Nat /\ redelivered'[m.job] = redelivered[m.job] + Cardinality(BackOf)
  BY MessageFacts DEF Requeue, TypeOK
<1>5. \A n \in UpTo(m) : Back(n) \subseteq BackOf
  BY DEF UpTo
<1>6. \A n, k \in UpTo(m) : n # k => Back(n) \cap Back(k) = {}
  OBVIOUS
<1> HIDE DEF Back, BackOf, Tag
<1>7. ASSUME NEW c \in New
      PROVE  \E n \in UpTo(m) : \E i \in 1..Cardinality(Back(n)) : c = <<0, n, mainQ[n] + i>>
  <2>1. PICK t \in 0..NumTiers, n \in UpTo(m) : \E i \in 1..InQueue(t, n)' : c = <<t, n, i>>
    BY CopyOf
  <2>2. PICK i \in 1..InQueue(t, n)' : c = <<t, n, i>>
    BY <2>1
  <2>3. t = 0
    <3> SUFFICES ASSUME t # 0 PROVE FALSE
      OBVIOUS
    <3>1. t \in Tiers /\ InQueue(t, n)' = retryQ'[t][n]
      BY ConstantsAssumption DEF Tiers, InQueue
    <3> QED
      BY <2>2, <3>1
  <2>4. InQueue(0, n)' = mainQ'[n] /\ InQueue(0, n) = mainQ[n]
    BY DEF InQueue
  <2>5. i > mainQ[n]
    <3> SUFFICES ASSUME i \in 1..mainQ[n] PROVE FALSE
      BY <2>2, <2>3, <2>4, <1>2, <1>3
    <3>1. c \in Copies(m)
      BY <2>2, <2>3, <2>4, CopyOf, ConstantsAssumption
    <3> QED
      BY <3>1
  <2>6. i - mainQ[n] \in 1..Cardinality(Back(n)) /\ i = mainQ[n] + (i - mainQ[n])
    BY <1>2, <1>3, <2>2, <2>3, <2>4, <2>5
  <2> QED
    BY <2>2, <2>3, <2>6
<1>8. \A n \in UpTo(m) : \A i \in 1..Cardinality(Back(n)) : <<0, n, mainQ[n] + i>> \in New =>
        F[<<0, n, mainQ[n] + i>>] = Tag[n][i] /\ Tag[n][i] \in Back(n)
  <2> SUFFICES ASSUME NEW n \in UpTo(m), NEW i \in 1..Cardinality(Back(n)),
                      <<0, n, mainQ[n] + i>> \in New
               PROVE  F[<<0, n, mainQ[n] + i>>] = Tag[n][i] /\ Tag[n][i] \in Back(n)
    OBVIOUS
  <2>1. (mainQ[n] + i) - mainQ[n] = i
    BY <1>2, <1>3
  <2>2. Tag[n] \in [1..Cardinality(Back(n)) -> Back(n)]
    BY <1>2 DEF Injection
  <2> QED
    BY <2>1, <2>2
<1> HIDE DEF F, New
<1>9. F \in Injection(New, BackOf)
  <2>1. F = [c \in New |-> F[c]]
    BY DEF F
  <2>2. ASSUME NEW c \in New PROVE F[c] \in BackOf
    <3>1. PICK n \in UpTo(m) : \E i \in 1..Cardinality(Back(n)) : c = <<0, n, mainQ[n] + i>>
      BY <1>7
    <3> QED
      BY <3>1, <1>5, <1>8
  <2>3. ASSUME NEW c \in New, NEW d \in New, F[c] = F[d] PROVE c = d
    <3>a. PICK n \in UpTo(m) : \E i \in 1..Cardinality(Back(n)) : c = <<0, n, mainQ[n] + i>>
      BY <1>7
    <3>b. PICK k \in UpTo(m) : \E l \in 1..Cardinality(Back(k)) : d = <<0, k, mainQ[k] + l>>
      BY <1>7
    <3>1. PICK i \in 1..Cardinality(Back(n)) : c = <<0, n, mainQ[n] + i>>
      BY <3>a
    <3>2. PICK l \in 1..Cardinality(Back(k)) : d = <<0, k, mainQ[k] + l>>
      BY <3>b
    <3>3. Tag[n][i] = Tag[k][l] /\ Tag[n][i] \in Back(n) /\ Tag[k][l] \in Back(k)
      BY <2>3, <3>1, <3>2, <1>8
    <3>4. n = k
      BY <3>3, <1>6
    <3>5. i = l
      BY <3>3, <3>4, <1>2 DEF Injection, IsInjective
    <3> QED
      BY <3>1, <3>2, <3>4, <3>5
  <2> QED
    BY <2>1, <2>2, <2>3 DEF Injection, IsInjective
<1>10. IsFiniteSet(New) /\ Cardinality(New) <= Cardinality(BackOf) /\ Cardinality(New) \in Nat
  BY <1>1, <1>9, FS_Injection, FS_CardinalityType
<1>11. /\ IsFiniteSet(X \cup New) /\ Cardinality(X \cup New) \in Nat
       /\ Cardinality(X \cup New) <= Cardinality(X) + Cardinality(New)
  <2>1. IsFiniteSet(X \cup New) /\ IsFiniteSet(X \cap New)
    BY <1>10, FS_Union, FS_Intersection
  <2>2. Cardinality(X \cup New) = Cardinality(X) + Cardinality(New) - Cardinality(X \cap New)
    BY <1>10, FS_Union
  <2> QED
    BY <1>10, <2>1, <2>2, FS_CardinalityType
<1>12. Cardinality(Copies(m)') <= Cardinality(X \cup New) /\ Cardinality(Copies(m)') \in Nat
  <2>1. Copies(m)' \subseteq X \cup New
    BY DEF New
  <2> QED
    BY <1>11, <2>1, Shrinks
<1> QED
  BY <1>1, <1>4, <1>10, <1>11, <1>12, FS_CardinalityType

\* Nothing taken back, nothing paid.
LEMMA NothingTakenBack == TypeOK /\ UNCHANGED <<mainQ, redelivered>> => Requeue({})
<1> QED
  BY FS_EmptySet DEF Requeue, TypeOK

\* A step that leaves the queues alone leaves the copies alone.
LEMMA CopiesKept ==
  ASSUME NEW m \in Msgs, UNCHANGED <<mainQ, retryQ>>
  PROVE  Copies(m)' = Copies(m)
BY UpToFacts DEF Copies, InQueue

\* A copy that is in a tier is counted.
LEMMA TierCopies ==
  ASSUME NEW m \in Msgs
  PROVE  \A t \in Tiers, n \in UpTo(m) : \A i \in 1..retryQ[t][n] : <<t, n, i>> \in Copies(m)
<1> SUFFICES ASSUME NEW t \in Tiers, NEW n \in UpTo(m), NEW i \in 1..retryQ[t][n]
             PROVE  <<t, n, i>> \in Copies(m)
  OBVIOUS
<1>1. t \in 0..NumTiers /\ InQueue(t, n) = retryQ[t][n]
  BY ConstantsAssumption DEF Tiers, InQueue
<1> QED
  BY <1>1, CopyOf

(***************************************************************************)
(* Handlers.                                                               *)
(***************************************************************************)
Points == {Unsent, Unburied, Untold}

\* A handler goes on towards a point, comes to it, or lets its message go.
LEMMA Moves ==
  ASSUME TypeOK, NEW h \in Handlers, HandlerStep(h) \/ HandlerFault(h)
  PROVE  \/ msg'[h] = NoMsg /\ pc'[h] = "idle"
         \/ msg'[h] = msg[h] /\ \A L \in Points \cup {Onward} : pc'[h] \in L => pc[h] \in L
<1> DEFINE Goal == \/ msg'[h] = NoMsg /\ pc'[h] = "idle"
                   \/ msg'[h] = msg[h] /\ \A L \in Points \cup {Onward} : pc'[h] \in L => pc[h] \in L
<1>1. ASSUME NEW l, Goto(h, l), UNCHANGED msg,
             \A L \in {Unsent, Unburied, Untold, Onward} : l \in L => pc[h] \in L
      PROVE  Goal
  BY <1>1 DEF Goto, TypeOK, Points
<1>2. CASE Release({h})
  BY <1>2 DEF Release
<1>3. CASE HandlerFault(h)
  BY <1>2, <1>3 DEF HandlerFault, AcquireFails, QueryFails, PublishRejected, Nack
<1> USE DEF Unsent, Unburied, Untold, Onward, Labels, QueryLabels, CompleteLabels, PublishLabels,
            StatusLabels
<1>4. CASE RateLimited(h) \/ BreakerOpen(h) \/ Admit(h)
  BY <1>1, <1>4 DEF RateLimited, BreakerOpen, Admit, Acquiring
<1>5. CASE Insert(h) \/ Select(h)
  BY <1>1, <1>5 DEF Insert, Select, Granted
<1>6. CASE SendAccepted(h) \/ SendTransient(h) \/ SendPermanent(h)
  BY <1>1, <1>6 DEF SendAccepted, SendTransient, SendPermanent, Sending
<1>7. CASE Complete(h)
  BY <1>1, <1>7 DEF Complete, AfterComplete
<1>8. CASE Publish(h)
  BY <1>1, <1>8 DEF Publish, AfterPublish
<1>9. CASE Ack(h)
  BY <1>2, <1>9 DEF Ack
<1> HIDE DEF Goal
<1> QED
  BY <1>3, <1>4, <1>5, <1>6, <1>7, <1>8, <1>9 DEF HandlerStep, Goal

\* A step of a handler adds nobody to those that may still come to a point.
LEMMA CarriersShrink ==
  ASSUME TypeOK, NEW h \in Handlers, HandlerStep(h) \/ HandlerFault(h),
         NEW m \in Msgs, NEW L \in Points
  PROVE  Carriers(m, L)' \subseteq Carriers(m, L)
<1> SUFFICES ASSUME NEW g \in Handlers, msg'[g] \in UpTo(m),
                    pc'[g] \in IF msg'[g] = m THEN L ELSE Onward
             PROVE  msg[g] \in UpTo(m) /\ pc[g] \in IF msg[g] = m THEN L ELSE Onward
  BY UpToFacts DEF Carriers
<1>1. CASE g # h
  BY <1>1, OtherHandlers
<1>2. CASE g = h
  BY <1>2, Moves, UpToFacts, HandlerFacts
<1> QED
  BY <1>1, <1>2

\* What a handler does to the queues: it may have its message taken back, and may
\* put one into a tier.
LEMMA QueuesOfHandler ==
  ASSUME TypeOK, NEW h \in Handlers, HandlerStep(h) \/ HandlerFault(h)
  PROVE  /\ Requeue({}) \/ Requeue({h})
         /\ \/ retryQ' = retryQ
            \/ /\ pc[h] \in {"deferRate", "deferBreaker"} /\ pc'[h] \in {"ack", "idle"}
               /\ \E t \in Tiers : retryQ' = PutTier(t, msg[h])
            \/ /\ pc[h] = "publishRetry" /\ pc'[h] \in {"statusRetry", "idle"}
               /\ retryQ' = PutTier(NextAttempt(msg[h]).attempt, NextAttempt(msg[h]))
<1>1. CASE Publish(h)
  BY <1>1, NothingTakenBack, MessageFacts DEF Publish, Route, Goto, AfterPublish, TypeOK
<1>2. CASE PublishRejected(h)
  BY <1>2, MessageFacts DEF PublishRejected, Route, Nack, Release
<1>3. CASE AcquireFails(h) \/ QueryFails(h)
  BY <1>3 DEF AcquireFails, QueryFails, Nack
<1>4. CASE HandlerStep(h) /\ ~Publish(h)
  <2>1. UNCHANGED <<mainQ, retryQ, redelivered>>
    BY <1>4
    DEF HandlerStep, RateLimited, BreakerOpen, Admit, Acquiring, Insert, Select, SendAccepted,
        SendTransient, SendPermanent, Sending, Complete, Ack, queues
  <2> QED
    BY <2>1, NothingTakenBack
<1> QED
  BY <1>1, <1>2, <1>3, <1>4 DEF HandlerFault

(***************************************************************************)
(* Every step pays for the chances it makes.                               *)
(***************************************************************************)

\* A handler that leaves a point without putting a message into a tier uses up its
\* chance; one that puts a message into a tier exchanges its chance for the copy.
LEMMA HandlerPays ==
  ASSUME TypeOK, HandlersProgress, NEW h \in Handlers, HandlerStep(h) \/ HandlerFault(h),
         NEW m \in Msgs, NEW L \in Points
  PROVE  /\ Chances(m, L)' + redelivered[m.job] <= Chances(m, L) + redelivered'[m.job]
         /\ retryQ' = retryQ /\ h \in Carriers(m, L) /\ h \notin Carriers(m, L)' =>
              Chances(m, L)' + 1 + redelivered[m.job] <= Chances(m, L) + redelivered'[m.job]
<1> DEFINE C == Copies(m)
           H == Carriers(m, L)
<1>1. PICK hs \in SUBSET Handlers : Requeue(hs)
  BY QueuesOfHandler
<1>2. /\ H' \subseteq H /\ IsFiniteSet(H) /\ Cardinality(H) \in Nat /\ Cardinality(H') \in Nat
      /\ Cardinality(H') <= Cardinality(H)
      /\ h \in H /\ h \notin H' => Cardinality(H') + 1 <= Cardinality(H)
  <2>1. H' \subseteq H
    BY CarriersShrink
  <2>2. h \in H /\ h \notin H' => H' \subseteq H \ {h}
    BY <2>1
  <2> HIDE DEF H
  <2>3. IsFiniteSet(H) /\ Cardinality(H) \in Nat /\ Cardinality(H') \in Nat
    BY CarriersFinite DEF H
  <2>4. Cardinality(H') <= Cardinality(H)
    BY <2>1, <2>3, Shrinks
  <2>5. h \in H /\ h \notin H' => Cardinality(H') + 1 <= Cardinality(H)
    BY <2>2, <2>3, Loses
  <2> QED
    BY <2>1, <2>3, <2>4, <2>5
<1>3. IsFiniteSet(C) /\ Cardinality(C) \in Nat
  BY CopiesFinite
<1>4. /\ Chances(m, L) = Cardinality(C) + Cardinality(H)
      /\ Chances(m, L)' = Cardinality(C') + Cardinality(H')
  BY DEF Chances
<1>5. redelivered[m.job] \in Nat /\ redelivered'[m.job] \in Nat
  <2>1. TypeOK'
    BY TypeStep DEF Next
  <2> QED
    BY <2>1, MessageFacts DEF TypeOK
<1>6. ASSUME \A t \in Tiers, n \in UpTo(m) : retryQ'[t][n] = retryQ[t][n]
      PROVE  /\ Cardinality(C') + redelivered[m.job] <= Cardinality(C) + redelivered'[m.job]
             /\ Cardinality(C') \in Nat
  <2>1. \A t \in Tiers, n \in UpTo(m) : \A i \in 1..retryQ'[t][n] : <<t, n, i>> \in C
    BY <1>6, TierCopies
  <2> QED
    BY <1>1, <1>3, <2>1, RequeuePays
<1> HIDE DEF C, H
<1>7. CASE retryQ' = retryQ
  BY <1>2, <1>3, <1>4, <1>5, <1>6, <1>7 DEF H
<1>8. ASSUME NEW t \in Tiers, NEW n \in Msgs, retryQ' = PutTier(t, n), retryQ' # retryQ,
             n \in UpTo(m) => h \in H /\ h \notin H'
      PROVE  Chances(m, L)' + redelivered[m.job] <= Chances(m, L) + redelivered'[m.job]
  <2>1. /\ retryQ'[t][n] = retryQ[t][n] + 1 /\ retryQ[t][n] \in Nat
        /\ \A u \in Tiers, k \in Msgs : u # t \/ k # n => retryQ'[u][k] = retryQ[u][k]
    BY <1>8 DEF PutTier, Put, TypeOK
  <2>2. CASE n \notin UpTo(m)
    <3>1. \A u \in Tiers, k \in UpTo(m) : retryQ'[u][k] = retryQ[u][k]
      BY <2>1, <2>2, UpToFacts
    <3> QED
      BY <1>2, <1>3, <1>4, <1>5, <1>6, <3>1
  <2>3. CASE n \in UpTo(m)
    <3> DEFINE x == <<t, n, retryQ[t][n] + 1>>
               X == C \cup {x}
    <3>1. IsFiniteSet(X) /\ Cardinality(X) <= Cardinality(C) + 1 /\ Cardinality(X) \in Nat
      <4> HIDE DEF x
      <4>1. IsFiniteSet(X) /\ Cardinality(X) <= Cardinality(C) + 1
        BY <1>3, Gains
      <4> QED
        BY <4>1, FS_CardinalityType
    <3>2. ASSUME NEW u \in Tiers, NEW k \in UpTo(m), NEW i \in 1..retryQ'[u][k]
          PROVE  <<u, k, i>> \in X
      <4>1. CASE i \in 1..retryQ[u][k]
        BY <4>1, TierCopies DEF C
      <4>2. CASE i \notin 1..retryQ[u][k]
        BY <2>1, <3>2, <4>2, UpToFacts
      <4> QED
        BY <4>1, <4>2
    <3>3. C \subseteq X
      OBVIOUS
    <3> HIDE DEF X
    <3>4. /\ Cardinality(C') + redelivered[m.job] <= Cardinality(X) + redelivered'[m.job]
          /\ Cardinality(C') \in Nat
      BY <1>1, <3>1, <3>2, <3>3, RequeuePays DEF C
    <3>5. Cardinality(H') + 1 <= Cardinality(H)
      BY <1>2, <1>8, <2>3
    <3> QED
      BY <1>2, <1>3, <1>4, <1>5, <3>1, <3>4, <3>5
  <2> QED
    BY <2>2, <2>3
<1>9. CASE /\ retryQ' # retryQ /\ pc[h] \in {"deferRate", "deferBreaker"} /\ pc'[h] \in {"ack", "idle"}
           /\ \E t \in Tiers : retryQ' = PutTier(t, msg[h])
  <2>1. msg[h] \in Msgs
    BY <1>9, BusyFacts
  <2>2. msg[h] \in UpTo(m) => h \in H /\ h \notin H'
    BY <1>9
    DEF H, Carriers, Points, Unsent, Unburied, Untold, Onward, Labels, QueryLabels,
        CompleteLabels, PublishLabels, StatusLabels
  <2> QED
    BY <1>8, <1>9, <2>1, <2>2
<1>10. CASE /\ retryQ' # retryQ /\ pc[h] = "publishRetry" /\ pc'[h] \in {"statusRetry", "idle"}
            /\ retryQ' = PutTier(NextAttempt(msg[h]).attempt, NextAttempt(msg[h]))
  <2>1. msg[h] \in Msgs /\ CanRetry(msg[h])
    BY <1>10, BusyFacts DEF HandlersProgress, Progress
  <2>2. /\ NextAttempt(msg[h]) \in Msgs /\ NextAttempt(msg[h]).job = msg[h].job
        /\ NextAttempt(msg[h]).attempt = msg[h].attempt + 1
        /\ NextAttempt(msg[h]).attempt \in Tiers
    BY <2>1, MessageFacts
  <2>3. ASSUME NextAttempt(msg[h]) \in UpTo(m) PROVE msg[h] \in UpTo(m) /\ msg[h] # m
    BY <2>1, <2>2, <2>3, MessageFacts DEF UpTo, Attempts
  <2>4. ASSUME NextAttempt(msg[h]) \in UpTo(m) PROVE h \in H /\ h \notin H'
    <3>1. h \in H
      BY <1>10, <2>3, <2>4 DEF H, Carriers, Onward
    <3>2. msg'[h] = NoMsg \/ msg'[h] = msg[h]
      BY Moves
    <3>3. NoMsg \notin UpTo(m)
      BY HandlerFacts, UpToFacts
    <3>4. h \notin H'
      BY <1>10, <2>3, <2>4, <3>2, <3>3, UpToFacts DEF H, Carriers, Onward, Unsent
    <3> QED
      BY <3>1, <3>4
  <2> QED
    BY <1>8, <1>10, <2>2, <2>4
<1> QED
  BY <1>7, <1>9, <1>10, QueuesOfHandler

\* The end of a worker or of its channel: its messages are taken back.
LEMMA WorkerPays ==
  ASSUME TypeOK, NEW hs \in SUBSET Handlers, Requeue(hs), retryQ' = retryQ,
         Release(hs) \/ UNCHANGED <<pc, msg>>, NEW m \in Msgs, NEW L \in Points
  PROVE  Chances(m, L)' + redelivered[m.job] <= Chances(m, L) + redelivered'[m.job]
<1>1. Carriers(m, L)' \subseteq Carriers(m, L)
  <2> SUFFICES ASSUME NEW g \in Handlers, msg'[g] \in UpTo(m),
                      pc'[g] \in IF msg'[g] = m THEN L ELSE Onward
               PROVE  msg[g] \in UpTo(m) /\ pc[g] \in IF msg[g] = m THEN L ELSE Onward
    BY UpToFacts DEF Carriers
  <2>1. CASE Release(hs)
    BY <2>1, HandlerFacts, UpToFacts DEF Release
  <2> QED
    BY <2>1
<1>2. Cardinality(Carriers(m, L)') <= Cardinality(Carriers(m, L))
  BY <1>1, CarriersFinite, Shrinks
<1>3. /\ Cardinality(Copies(m)') + redelivered[m.job]
           <= Cardinality(Copies(m)) + redelivered'[m.job]
      /\ Cardinality(Copies(m)') \in Nat
  BY CopiesFinite, TierCopies, RequeuePays
<1>4. redelivered[m.job] \in Nat /\ redelivered'[m.job] \in Nat
  BY RequeueFacts, MessageFacts DEF TypeOK
<1> QED
  BY <1>2, <1>3, <1>4, CarriersFinite, CopiesFinite DEF Chances

\* A published job is one message more.
LEMMA EnqueuePays ==
  ASSUME TypeOK, NEW j \in Jobs, Enqueue(j), NEW m \in Msgs, NEW L
  PROVE  Chances(m, L)' <= Chances(m, L) + (IF m.job = j THEN 1 ELSE 0)
<1> DEFINE n == [job |-> j, attempt |-> 0]
           x == <<0, n, mainQ[n] + 1>>
<1>1. n \in Msgs /\ n.job = j
  BY MessageFacts
<1>0. mainQ[n] \in Nat /\ mainQ' = [mainQ EXCEPT ![n] = @ + 1] /\ retryQ' = retryQ
  BY <1>1 DEF Enqueue, Put, TypeOK
<1> HIDE DEF n
<1>2. ASSUME NEW c \in Copies(m)', c \notin Copies(m) PROVE c = x /\ n \in UpTo(m)
  <2>1. PICK t \in 0..NumTiers, k \in UpTo(m) : \E i \in 1..InQueue(t, k)' : c = <<t, k, i>>
    BY CopyOf
  <2>2. PICK i \in 1..InQueue(t, k)' : c = <<t, k, i>>
    BY <2>1
  <2>3. i \notin 1..InQueue(t, k)
    BY <1>2, <2>2, CopyOf
  <2>4. t = 0 /\ k = n
    <3> SUFFICES ASSUME ~(t = 0 /\ k = n) PROVE FALSE
      OBVIOUS
    <3>1. k \in Msgs
      BY UpToFacts
    <3>2. InQueue(t, k)' = InQueue(t, k)
      BY <1>0, <3>1 DEF InQueue, TypeOK
    <3> QED
      BY <2>3, <3>2
  <2>5. i = mainQ[n] + 1
    <3>1. InQueue(t, k)' = mainQ[n] + 1 /\ InQueue(t, k) = mainQ[n]
      BY <1>0, <1>1, <2>4 DEF InQueue, TypeOK
    <3> QED
      BY <1>0, <2>3, <3>1
  <2> QED
    BY <2>2, <2>4, <2>5
<1>3. Carriers(m, L)' = Carriers(m, L)
  BY UpToFacts DEF Carriers, Enqueue, handler
<1> HIDE DEF n, x
<1>4. CASE m.job = j
  <2>1. Copies(m)' \subseteq Copies(m) \cup {x}
    BY <1>2
  <2>2. Cardinality(Copies(m)') <= Cardinality(Copies(m)) + 1 /\ Cardinality(Copies(m)') \in Nat
    BY <2>1, CopiesFinite, Gains, FS_CardinalityType
  <2> QED
    BY <1>3, <1>4, <2>2, CarriersFinite, CopiesFinite DEF Chances
<1>5. CASE m.job # j
  <2>1. Copies(m)' \subseteq Copies(m)
    BY <1>1, <1>2, <1>5 DEF UpTo
  <2>2. Cardinality(Copies(m)') <= Cardinality(Copies(m)) /\ Cardinality(Copies(m)') \in Nat
    BY <2>1, CopiesFinite, Shrinks
  <2> QED
    BY <1>3, <1>5, <2>2, CarriersFinite, CopiesFinite DEF Chances
<1> QED
  BY <1>4, <1>5

\* A message whose delay is over changes its queue.
LEMMA ExpirePays ==
  ASSUME TypeOK, NEW t \in Tiers, NEW n \in Msgs, Expire(t, n), NEW m \in Msgs, NEW L
  PROVE  Chances(m, L)' <= Chances(m, L)
<1> DEFINE x == <<t, n, retryQ[t][n]>>
           y == <<0, n, mainQ[n] + 1>>
<1>0. /\ retryQ[t][n] \in Nat \ {0} /\ mainQ[n] \in Nat /\ t \in 0..NumTiers /\ t # 0
      /\ mainQ' = [mainQ EXCEPT ![n] = @ + 1]
      /\ retryQ'[t][n] = retryQ[t][n] - 1
      /\ \A u \in Tiers, k \in Msgs : u # t \/ k # n => retryQ'[u][k] = retryQ[u][k]
  BY ConstantsAssumption DEF Expire, Put, Take, TypeOK, Tiers
<1>1. ASSUME NEW c \in Copies(m)'
      PROVE  (c \in Copies(m) /\ c # x) \/ (c = y /\ n \in UpTo(m))
  <2>1. PICK u \in 0..NumTiers, k \in UpTo(m) : \E i \in 1..InQueue(u, k)' : c = <<u, k, i>>
    BY CopyOf
  <2>2. PICK i \in 1..InQueue(u, k)' : c = <<u, k, i>>
    BY <2>1
  <2>3. k \in Msgs /\ InQueue(u, k) \in Nat
    BY UpToFacts, InQueueType
  <2>4. CASE u = t /\ k = n
    <3>1. InQueue(u, k) = retryQ[t][n] /\ InQueue(u, k)' = retryQ[t][n] - 1
      BY <1>0, <2>4 DEF InQueue
    <3>2. i \in 1..InQueue(u, k) /\ i # retryQ[t][n]
      BY <1>0, <2>2, <3>1
    <3> QED
      BY <2>2, <2>4, <3>2, CopyOf
  <2>5. CASE u = 0 /\ k = n
    <3>1. InQueue(u, k) = mainQ[n] /\ InQueue(u, k)' = mainQ[n] + 1
      BY <1>0, <2>5 DEF InQueue, TypeOK
    <3>2. i \in 1..InQueue(u, k) \/ i = mainQ[n] + 1
      BY <1>0, <2>2, <3>1
    <3> QED
      BY <1>0, <2>2, <2>5, <3>2, CopyOf
  <2>6. CASE ~(u = t /\ k = n) /\ ~(u = 0 /\ k = n)
    <3>1. InQueue(u, k)' = InQueue(u, k)
      <4>1. CASE u = 0
        BY <1>0, <2>3, <2>6, <4>1 DEF InQueue, TypeOK
      <4>2. CASE u # 0
        <5>1. u \in Tiers
          BY <4>2, ConstantsAssumption DEF Tiers
        <5> QED
          BY <1>0, <2>3, <2>6, <4>2, <5>1 DEF InQueue
      <4> QED
        BY <4>1, <4>2
    <3> QED
      BY <2>2, <2>6, <3>1, CopyOf
  <2> QED
    BY <2>4, <2>5, <2>6
<1>2. n \in UpTo(m) => x \in Copies(m)
  BY <1>0, TierCopies
<1>3. Carriers(m, L)' = Carriers(m, L)
  BY UpToFacts DEF Carriers, Expire, handler
<1> HIDE DEF x, y
<1>4. CASE n \in UpTo(m)
  <2>1. Copies(m)' \subseteq (Copies(m) \ {x}) \cup {y}
    BY <1>1
  <2>2. Cardinality(Copies(m)') <= Cardinality(Copies(m))
    BY <1>2, <1>4, <2>1, CopiesFinite, Exchanges
  <2>3. Cardinality(Copies(m)') \in Nat
    BY <2>1, CopiesFinite, FS_RemoveElement, Gains, FS_CardinalityType, <1>2, <1>4
  <2> QED
    BY <1>3, <2>2, <2>3, CarriersFinite, CopiesFinite DEF Chances
<1>5. CASE n \notin UpTo(m)
  <2>1. Copies(m)' \subseteq Copies(m)
    BY <1>1, <1>5
  <2> QED
    BY <1>3, <2>1, CarriersFinite, CopiesFinite, Shrinks DEF Chances
<1> QED
  BY <1>4, <1>5

\* A delivery exchanges a copy for a handler.
LEMMA DeliverPays ==
  ASSUME TypeOK, NEW h \in Handlers, NEW n \in Msgs, Deliver(h, n), NEW m \in Msgs, NEW L
  PROVE  Chances(m, L)' <= Chances(m, L)
<1> DEFINE x == <<0, n, mainQ[n]>>
<1>0. /\ mainQ[n] \in Nat \ {0} /\ mainQ' = [mainQ EXCEPT ![n] = @ - 1] /\ retryQ' = retryQ
      /\ 0 \in 0..NumTiers
  BY ConstantsAssumption DEF Deliver, Take, TypeOK
<1>1. ASSUME NEW c \in Copies(m)' PROVE c \in Copies(m) /\ (n \in UpTo(m) => c # x)
  <2>1. PICK u \in 0..NumTiers, k \in UpTo(m) : \E i \in 1..InQueue(u, k)' : c = <<u, k, i>>
    BY CopyOf
  <2>2. PICK i \in 1..InQueue(u, k)' : c = <<u, k, i>>
    BY <2>1
  <2>3. k \in Msgs /\ InQueue(u, k) \in Nat
    BY UpToFacts, InQueueType
  <2>4. CASE u = 0 /\ k = n
    <3>1. InQueue(u, k) = mainQ[n] /\ InQueue(u, k)' = mainQ[n] - 1
      BY <1>0, <2>4 DEF InQueue, TypeOK
    <3>2. i \in 1..InQueue(u, k) /\ i # mainQ[n]
      BY <1>0, <2>2, <3>1
    <3> QED
      BY <2>2, <2>4, <3>2, CopyOf
  <2>5. CASE ~(u = 0 /\ k = n)
    <3>1. InQueue(u, k)' = InQueue(u, k)
      BY <1>0, <2>3, <2>5 DEF InQueue, TypeOK
    <3> QED
      BY <2>2, <2>5, <3>1, CopyOf
  <2> QED
    BY <2>4, <2>5
<1>2. n \in UpTo(m) => x \in Copies(m)
  <2>1. InQueue(0, n) = mainQ[n]
    BY DEF InQueue
  <2> QED
    BY <1>0, <2>1, CopyOf
<1>3. \A g \in Carriers(m, L)' : g \in Carriers(m, L) \/ (g = h /\ n \in UpTo(m))
  BY UpToFacts DEF Carriers, Deliver, Goto, TypeOK
<1> HIDE DEF x
<1>4. CASE n \in UpTo(m)
  <2>1. Copies(m)' \subseteq Copies(m) \ {x}
    BY <1>1, <1>4
  <2>2. Cardinality(Copies(m)') + 1 <= Cardinality(Copies(m)) /\ Cardinality(Copies(m)') \in Nat
    BY <1>2, <1>4, <2>1, CopiesFinite, Loses, Shrinks
  <2>3. Carriers(m, L)' \subseteq Carriers(m, L) \cup {h}
    BY <1>3
  <2>4. Cardinality(Carriers(m, L)') <= Cardinality(Carriers(m, L)) + 1
    BY <2>3, CarriersFinite, Gains
  <2> QED
    BY <2>2, <2>4, CarriersFinite, CopiesFinite DEF Chances
<1>5. CASE n \notin UpTo(m)
  <2>1. Copies(m)' \subseteq Copies(m)
    BY <1>1
  <2>2. Cardinality(Copies(m)') <= Cardinality(Copies(m)) /\ Cardinality(Copies(m)') \in Nat
    BY <2>1, CopiesFinite, Shrinks
  <2>3. Carriers(m, L)' \subseteq Carriers(m, L)
    BY <1>3, <1>5
  <2>4. Cardinality(Carriers(m, L)') <= Cardinality(Carriers(m, L))
    BY <2>3, CarriersFinite, Shrinks
  <2> QED
    BY <2>2, <2>4, CarriersFinite, CopiesFinite DEF Chances
<1> QED
  BY <1>4, <1>5

\* Handlers publish no jobs.
LEMMA HandlerSubmitsNothing ==
  ASSUME NEW h \in Handlers, HandlerStep(h) \/ HandlerFault(h)
  PROVE  submitted' = submitted
BY DEF HandlerStep, HandlerFault, RateLimited, BreakerOpen, Admit, Acquiring, Insert, Select,
       SendAccepted, SendTransient, SendPermanent, Sending, Complete, Publish, Ack,
       AcquireFails, QueryFails, PublishRejected

\* Whatever happens, the chances of a job grow by no more than its budget.
LEMMA StepPays ==
  ASSUME TypeOK, HandlersProgress, [Next]_vars, NEW m \in Msgs, NEW L \in Points
  PROVE  /\ Chances(m, L)' + Budget(m.job) <= Chances(m, L) + Budget(m.job)'
         /\ Chances(m, L) \in Nat /\ Chances(m, L)' \in Nat
         /\ Budget(m.job) \in Nat /\ Budget(m.job)' \in Nat
<1>1. TypeOK'
  BY TypeStep
<1>2. Budget(m.job) \in Nat /\ Budget(m.job)' \in Nat
  BY <1>1, MessageFacts DEF Budget, TypeOK
<1>3. Chances(m, L) \in Nat /\ Chances(m, L)' \in Nat
  <2>1. TypeOK' => CopiesCounted'
    BY CopiesCount, PTL
  <2>2. Cardinality(Copies(m)) \in Nat /\ Cardinality(Copies(m)') \in Nat
    BY <1>1, <2>1, CopiesFinite, UpToFacts DEF CopiesCounted
  <2> QED
    BY <2>2, CarriersFinite DEF Chances
<1>4. redelivered[m.job] \in Nat /\ redelivered'[m.job] \in Nat
  BY <1>1, MessageFacts DEF TypeOK
<1>5. ASSUME submitted' = submitted,
             Chances(m, L)' + redelivered[m.job] <= Chances(m, L) + redelivered'[m.job]
      PROVE  Chances(m, L)' + Budget(m.job) <= Chances(m, L) + Budget(m.job)'
  BY <1>3, <1>4, <1>5 DEF Budget
<1>6. ASSUME submitted' = submitted, redelivered' = redelivered, Chances(m, L)' <= Chances(m, L)
      PROVE  Chances(m, L)' + Budget(m.job) <= Chances(m, L) + Budget(m.job)'
  BY <1>3, <1>4, <1>5, <1>6
<1>7. ASSUME UNCHANGED <<mainQ, retryQ, pc, msg, submitted, redelivered>>
      PROVE  Chances(m, L)' + Budget(m.job) <= Chances(m, L) + Budget(m.job)'
  <2>1. Carriers(m, L)' = Carriers(m, L)
    BY <1>7, UpToFacts DEF Carriers
  <2>2. Copies(m)' = Copies(m)
    BY <1>7, CopiesKept
  <2>3. Chances(m, L)' = Chances(m, L)
    BY <2>1, <2>2 DEF Chances
  <2> QED
    BY <1>3, <1>6, <1>7, <2>3
<1>8. CASE UNCHANGED vars
  <2>1. UNCHANGED <<mainQ, retryQ, pc, msg, submitted, redelivered>>
    BY <1>8 DEF vars, queues, handler
  <2> QED
    BY <1>2, <1>3, <1>7, <2>1
<1>9. ASSUME NEW j \in Jobs, Enqueue(j)
      PROVE  Chances(m, L)' + Budget(m.job) <= Chances(m, L) + Budget(m.job)'
  <2>1. Chances(m, L)' <= Chances(m, L) + (IF m.job = j THEN 1 ELSE 0)
    BY <1>9, EnqueuePays
  <2>2. Budget(m.job)' = Budget(m.job) + (IF m.job = j THEN 1 ELSE 0)
    BY <1>4, <1>9 DEF Enqueue, Budget
  <2> QED
    BY <1>2, <1>3, <2>1, <2>2
<1>10. ASSUME NEW t \in Tiers, NEW n \in Msgs, Expire(t, n)
       PROVE  Chances(m, L)' + Budget(m.job) <= Chances(m, L) + Budget(m.job)'
  <2>1. Chances(m, L)' <= Chances(m, L)
    BY <1>10, ExpirePays
  <2> QED
    BY <1>6, <1>10, <2>1 DEF Expire
<1>11. ASSUME NEW h \in Handlers, NEW n \in Msgs, Deliver(h, n)
       PROVE  Chances(m, L)' + Budget(m.job) <= Chances(m, L) + Budget(m.job)'
  <2>1. Chances(m, L)' <= Chances(m, L)
    BY <1>11, DeliverPays
  <2> QED
    BY <1>6, <1>11, <2>1 DEF Deliver
<1>12. ASSUME NEW h \in Handlers, HandlerStep(h) \/ HandlerFault(h)
       PROVE  Chances(m, L)' + Budget(m.job) <= Chances(m, L) + Budget(m.job)'
  <2>1. Chances(m, L)' + redelivered[m.job] <= Chances(m, L) + redelivered'[m.job]
    BY <1>12, HandlerPays
  <2> QED
    BY <1>5, <1>12, <2>1, HandlerSubmitsNothing
<1>13. ASSUME NEW w \in Workers, Start(w) \/ Connect(w) \/ Stop(w)
       PROVE  Chances(m, L)' + Budget(m.job) <= Chances(m, L) + Budget(m.job)'
  BY <1>7, <1>13 DEF Start, Connect, Stop, queues, handler
<1>14. ASSUME NEW w \in Workers, Exit(w) \/ Crash(w) \/ ChannelLost(w)
       PROVE  Chances(m, L)' + Budget(m.job) <= Chances(m, L) + Budget(m.job)'
  <2>1. /\ HandlersOf(w) \in SUBSET Handlers /\ Requeue(HandlersOf(w)) /\ retryQ' = retryQ
        /\ submitted' = submitted
        /\ Release(HandlersOf(w)) \/ UNCHANGED <<pc, msg>>
    BY <1>14, HandlerFacts DEF Exit, Crash, Terminate, ChannelLost
  <2>2. Chances(m, L)' + redelivered[m.job] <= Chances(m, L) + redelivered'[m.job]
    BY <2>1, WorkerPays
  <2> QED
    BY <1>5, <2>1, <2>2
<1>15. CASE Quiescent
  BY <1>8, <1>15 DEF Quiescent
<1> QED
  BY <1>2, <1>3, <1>8, <1>9, <1>10, <1>11, <1>12, <1>13, <1>14, <1>15 DEF Next

(***************************************************************************)
(* Every output uses up a chance.                                          *)
(***************************************************************************)

\* A handler of m passes a point.
Passes(h, m, L) ==
  /\ HandlerStep(h) \/ HandlerFault(h)
  /\ retryQ' = retryQ
  /\ msg[h] = m /\ pc[h] \in L /\ pc'[h] \notin L

\* Passing a point costs a chance.
LEMMA PassingPays ==
  ASSUME TypeOK, HandlersProgress, NEW h \in Handlers, NEW m \in Msgs, NEW L \in Points,
         Passes(h, m, L)
  PROVE  Chances(m, L)' + 1 + Budget(m.job) <= Chances(m, L) + Budget(m.job)'
<1>1. msg'[h] = NoMsg \/ msg'[h] = m
  BY Moves DEF Passes
<1>2. NoMsg \notin UpTo(m) /\ m \in UpTo(m) /\ UpTo(m)' = UpTo(m)
  BY HandlerFacts, UpToFacts
<1>3. h \in Carriers(m, L) /\ h \notin Carriers(m, L)'
  BY <1>1, <1>2 DEF Passes, Carriers
<1>4. Chances(m, L)' + 1 + redelivered[m.job] <= Chances(m, L) + redelivered'[m.job]
  BY <1>3, HandlerPays DEF Passes
<1>5. submitted' = submitted
  BY HandlerSubmitsNothing DEF Passes
<1>6. TypeOK' /\ Next
  <2>1. Next
    BY DEF Next, Passes
  <2> QED
    BY <2>1, TypeStep
<1>7. redelivered[m.job] \in Nat /\ redelivered'[m.job] \in Nat
  BY <1>6, MessageFacts DEF TypeOK
<1>8. Chances(m, L) \in Nat /\ Chances(m, L)' \in Nat
  BY <1>6, StepPays
<1> QED
  BY <1>4, <1>5, <1>7, <1>8 DEF Budget

\* Only a handler that sends m adds to its sends.
LEMMA SendPasses ==
  ASSUME TypeOK, [Next]_vars, NEW m \in Msgs
  PROVE  \/ sends'[m] = sends[m]
         \/ sends'[m] = sends[m] + 1 /\ \E h \in Handlers : pc[h] = "send" /\ Passes(h, m, Unsent)
<1> DEFINE Goal == \/ sends'[m] = sends[m]
                   \/ /\ sends'[m] = sends[m] + 1
                      /\ \E h \in Handlers : pc[h] = "send" /\ Passes(h, m, Unsent)
<1>1. ASSUME NEW h \in Handlers, SendAccepted(h) \/ SendTransient(h) PROVE Goal
  <2>1. HandlerStep(h) /\ retryQ' = retryQ /\ pc[h] = "send" /\ pc'[h] \notin Unsent
    BY <1>1
    DEF HandlerStep, SendAccepted, SendTransient, Sending, queues, Goto, TypeOK, Unsent
  <2>2. pc[h] \in Unsent
    BY <2>1 DEF Unsent
  <2>3. PICK k \in {0, 1} : sends' = [sends EXCEPT ![msg[h]] = @ + k]
    BY <1>1 DEF SendAccepted, SendTransient
  <2>4. CASE msg[h] = m
    BY <2>1, <2>2, <2>3, <2>4 DEF Passes, TypeOK
  <2>5. CASE msg[h] # m
    BY <2>3, <2>5 DEF TypeOK
  <2> QED
    BY <2>4, <2>5
<1>2. ASSUME NEW h \in Handlers, HandlerStep(h) \/ HandlerFault(h),
             ~(SendAccepted(h) \/ SendTransient(h))
      PROVE  sends' = sends
  BY <1>2
  DEF HandlerStep, HandlerFault, RateLimited, BreakerOpen, Admit, Acquiring, Insert, Select,
      SendPermanent, Complete, Publish, Ack, AcquireFails, QueryFails, PublishRejected
<1>3. ASSUME NEW w \in Workers,
             \/ Start(w) \/ Connect(w) \/ Stop(w) \/ Exit(w) \/ ChannelLost(w) \/ Crash(w)
      PROVE  sends' = sends
  BY <1>3 DEF Start, Connect, Stop, Exit, ChannelLost, Crash, Terminate
<1>4. ASSUME \/ \E j \in Jobs : Enqueue(j)
             \/ \E t \in Tiers, n \in Msgs : Expire(t, n)
             \/ \E h \in Handlers, n \in Msgs : Deliver(h, n)
             \/ Quiescent \/ UNCHANGED vars
      PROVE  sends' = sends
  BY <1>4 DEF Enqueue, Expire, Deliver, Quiescent, vars
<1> HIDE DEF Goal
<1>5. sends' = sends => Goal
  BY DEF Goal
<1>6. Goal
  BY <1>1, <1>2, <1>3, <1>4, <1>5 DEF Next
<1> QED
  BY <1>6 DEF Goal

\* Only a handler publishes.
LEMMA OnlyHandlersPublish ==
  ASSUME [Next]_vars
  PROVE  \/ UNCHANGED <<dlq, statusQ>>
         \/ \E h \in Handlers : (HandlerStep(h) \/ HandlerFault(h)) /\ Route(h)
                                  /\ pc[h] \in PublishLabels
                                  /\ (Goto(h, AfterPublish(pc[h])) \/ Release({h}))
<1>1. ASSUME NEW h \in Handlers, Publish(h) \/ PublishRejected(h)
      PROVE  \/ UNCHANGED <<dlq, statusQ>>
             \/ /\ HandlerStep(h) \/ HandlerFault(h)
                /\ Route(h) /\ pc[h] \in PublishLabels
                /\ (Goto(h, AfterPublish(pc[h])) \/ Release({h}))
  BY <1>1 DEF Publish, PublishRejected, Nack, HandlerStep, HandlerFault
<1>2. ASSUME NEW h \in Handlers, HandlerStep(h) \/ HandlerFault(h),
             ~(Publish(h) \/ PublishRejected(h))
      PROVE  UNCHANGED <<dlq, statusQ>>
  BY <1>2
  DEF HandlerStep, HandlerFault, RateLimited, BreakerOpen, Admit, Acquiring, Insert, Select,
      SendAccepted, SendTransient, SendPermanent, Sending, Complete, Ack, AcquireFails,
      QueryFails, queues
<1>3. ASSUME NEW w \in Workers,
             \/ Start(w) \/ Connect(w) \/ Stop(w) \/ Exit(w) \/ ChannelLost(w) \/ Crash(w)
      PROVE  UNCHANGED <<dlq, statusQ>>
  BY <1>3 DEF Start, Connect, Stop, Exit, ChannelLost, Crash, Terminate, queues
<1>4. ASSUME \/ \E j \in Jobs : Enqueue(j)
             \/ \E t \in Tiers, n \in Msgs : Expire(t, n)
             \/ \E h \in Handlers, n \in Msgs : Deliver(h, n)
             \/ Quiescent \/ UNCHANGED vars
      PROVE  UNCHANGED <<dlq, statusQ>>
  BY <1>4 DEF Enqueue, Expire, Deliver, Quiescent, vars, queues
<1> QED
  BY <1>1, <1>2, <1>3, <1>4 DEF Next

\* Where a handler is after it has published.
LEMMA AfterRoute ==
  ASSUME TypeOK, NEW h \in Handlers, Goto(h, AfterPublish(pc[h])) \/ Release({h})
  PROVE  pc'[h] \in {"idle", AfterPublish(pc[h])}
BY DEF Goto, Release, TypeOK

\* Only a handler that gives m up adds to its dead letters.
LEMMA BurialPasses ==
  ASSUME TypeOK, [Next]_vars, NEW m \in Msgs
  PROVE  \/ dlq'[m] = dlq[m]
         \/ dlq'[m] = dlq[m] + 1 /\ \E h \in Handlers : Passes(h, m, Unburied)
<1> SUFFICES ASSUME dlq'[m] # dlq[m]
             PROVE  dlq'[m] = dlq[m] + 1 /\ \E h \in Handlers : Passes(h, m, Unburied)
  OBVIOUS
<1>1. PICK h \in Handlers :
         /\ HandlerStep(h) \/ HandlerFault(h)
         /\ Route(h) /\ pc[h] \in PublishLabels
         /\ Goto(h, AfterPublish(pc[h])) \/ Release({h})
  BY OnlyHandlersPublish
<1>2. /\ pc[h] \in {"malformed", "publishDead"} /\ dlq' = Put(dlq, msg[h]) /\ retryQ' = retryQ
  BY <1>1 DEF Route
<1>3. msg[h] = m /\ dlq'[m] = dlq[m] + 1
  BY <1>2 DEF Put, TypeOK
<1>4. pc'[h] \in {"idle", "ack", "statusDead"}
  BY <1>1, <1>2, AfterRoute DEF AfterPublish
<1>5. Passes(h, m, Unburied)
  BY <1>1, <1>2, <1>3, <1>4 DEF Passes, Unburied, Unsent
<1> QED
  BY <1>3, <1>5

\* Only a handler of m that tells the API adds to the events of m.
LEMMA EventPasses ==
  ASSUME TypeOK, HandlersProgress, [Next]_vars, NEW m \in Msgs
  PROVE  \/ EventsFrom(m)' = EventsFrom(m)
         \/ EventsFrom(m)' = EventsFrom(m) + 1 /\ \E h \in Handlers : Passes(h, m, Untold)
<1> SUFFICES ASSUME EventsFrom(m)' # EventsFrom(m)
             PROVE  /\ EventsFrom(m)' = EventsFrom(m) + 1
                    /\ \E h \in Handlers : Passes(h, m, Untold)
  OBVIOUS
<1> DEFINE Of(n, s) == [job |-> n.job, attempt |-> n.attempt, status |-> s]
           Count == /\ statusQ[Of(m, "DELIVERED")] \in Nat
                    /\ statusQ[Of(m, "DEAD_LETTERED")] \in Nat
                    /\ CanRetry(m) => statusQ[Of(NextAttempt(m), "RETRY_SCHEDULED")] \in Nat
<1>1. statusQ' # statusQ
  BY DEF EventsFrom
<1>2. PICK h \in Handlers :
         /\ HandlerStep(h) \/ HandlerFault(h)
         /\ Route(h) /\ pc[h] \in PublishLabels
         /\ Goto(h, AfterPublish(pc[h])) \/ Release({h})
  BY <1>1, OnlyHandlersPublish
<1>3. pc[h] \in StatusLabels /\ statusQ' = Put(statusQ, EventOf(h))
  BY <1>1, <1>2 DEF Route
<1>4. retryQ' = retryQ
  BY <1>2, <1>3 DEF Route, StatusLabels
<1>5. msg[h] \in Msgs /\ (pc[h] = "statusRetry" => CanRetry(msg[h]))
  BY <1>3, BusyFacts DEF StatusLabels, HandlersProgress, Progress
<1>6. EventOf(h) = IF pc[h] = "statusRetry" THEN Of(NextAttempt(msg[h]), "RETRY_SCHEDULED")
                   ELSE Of(msg[h], IF pc[h] = "statusDelivered" THEN "DELIVERED"
                                   ELSE "DEAD_LETTERED")
  BY <1>3 DEF EventOf, StatusOf, StatusLabels, NextAttempt
<1>7. \A n \in Msgs : /\ \A s \in Statuses : Of(n, s) \in Events
                      /\ CanRetry(n) => Of(NextAttempt(n), "RETRY_SCHEDULED") \in Events
  BY MessageFacts DEF Events, Statuses, Msgs
<1>8. \A n, k \in Msgs : \A s : Of(n, s) = Of(k, s) => n = k
  BY DEF Msgs
<1>9. \A n, k \in Msgs : Of(NextAttempt(n), "RETRY_SCHEDULED") = Of(NextAttempt(k), "RETRY_SCHEDULED")
        => n = k
  BY ConstantsAssumption DEF Msgs, NextAttempt, Attempts
<1>10. \A n, k, s, r : Of(n, s) = Of(k, r) => s = r
  OBVIOUS
<1>11. /\ EventsFrom(m) = statusQ[Of(m, "DELIVERED")] + statusQ[Of(m, "DEAD_LETTERED")]
            + IF CanRetry(m) THEN statusQ[Of(NextAttempt(m), "RETRY_SCHEDULED")] ELSE 0
       /\ EventsFrom(m)' = statusQ'[Of(m, "DELIVERED")] + statusQ'[Of(m, "DEAD_LETTERED")]
            + IF CanRetry(m) THEN statusQ'[Of(NextAttempt(m), "RETRY_SCHEDULED")] ELSE 0
  BY DEF EventsFrom, CanRetry, NextAttempt
<1>12. Count
  BY <1>7 DEF TypeOK, Statuses
<1>13. \A e \in Events : statusQ'[e] = statusQ[e] + (IF e = EventOf(h) THEN 1 ELSE 0)
  BY <1>3 DEF Put, TypeOK
<1>14. /\ Of(m, "DELIVERED") \in Events /\ Of(m, "DEAD_LETTERED") \in Events
       /\ CanRetry(m) => Of(NextAttempt(m), "RETRY_SCHEDULED") \in Events
  BY <1>7 DEF Statuses
<1> HIDE DEF Of
<1>15. CASE msg[h] # m
  <2>1. /\ Of(m, "DELIVERED") # EventOf(h) /\ Of(m, "DEAD_LETTERED") # EventOf(h)
        /\ Of(NextAttempt(m), "RETRY_SCHEDULED") # EventOf(h)
    BY <1>3, <1>5, <1>6, <1>8, <1>9, <1>10, <1>15 DEF StatusLabels
  <2>2. EventsFrom(m)' = EventsFrom(m)
    BY <1>11, <1>12, <1>13, <1>14, <2>1
  <2> QED
    BY <2>2
<1>16. CASE msg[h] = m
  <2>1. EventsFrom(m)' = EventsFrom(m) + 1
    <3>1. CASE pc[h] = "statusDelivered"
      <4>1. /\ Of(m, "DELIVERED") = EventOf(h) /\ Of(m, "DEAD_LETTERED") # EventOf(h)
            /\ Of(NextAttempt(m), "RETRY_SCHEDULED") # EventOf(h)
        BY <1>6, <1>10, <1>16, <3>1
      <4> QED
        BY <1>11, <1>12, <1>13, <1>14, <4>1
    <3>2. CASE pc[h] = "statusDead"
      <4>1. /\ Of(m, "DELIVERED") # EventOf(h) /\ Of(m, "DEAD_LETTERED") = EventOf(h)
            /\ Of(NextAttempt(m), "RETRY_SCHEDULED") # EventOf(h)
        BY <1>6, <1>10, <1>16, <3>2
      <4> QED
        BY <1>11, <1>12, <1>13, <1>14, <4>1
    <3>3. CASE pc[h] = "statusRetry"
      <4>1. /\ Of(m, "DELIVERED") # EventOf(h) /\ Of(m, "DEAD_LETTERED") # EventOf(h)
            /\ Of(NextAttempt(m), "RETRY_SCHEDULED") = EventOf(h) /\ CanRetry(m)
        BY <1>5, <1>6, <1>10, <1>16, <3>3
      <4> QED
        BY <1>11, <1>12, <1>13, <1>14, <4>1
    <3> QED
      BY <1>3, <3>1, <3>2, <3>3 DEF StatusLabels
  <2>2. pc'[h] \in {"idle", "ack"}
    BY <1>2, <1>3, AfterRoute DEF AfterPublish, StatusLabels
  <2>3. Passes(h, m, Untold)
    BY <1>2, <1>3, <1>4, <1>16, <2>2
    DEF Passes, Untold, StatusLabels, PublishLabels, Labels
  <2> QED
    BY <2>1, <2>3
<1> QED
  BY <1>15, <1>16

(***************************************************************************)
(* The invariant.                                                          *)
(***************************************************************************)
\* The outputs of an attempt are counted by naturals.
LEMMA OutputTypes ==
  TypeOK => \A m \in Msgs : sends[m] \in Nat /\ dlq[m] \in Nat /\ EventsFrom(m) \in Nat
<1> SUFFICES ASSUME TypeOK, NEW m \in Msgs PROVE EventsFrom(m) \in Nat
  BY DEF TypeOK
<1> DEFINE Of(n, s) == [job |-> n.job, attempt |-> n.attempt, status |-> s]
<1>1. /\ Of(m, "DELIVERED") \in Events /\ Of(m, "DEAD_LETTERED") \in Events
      /\ CanRetry(m) => Of(NextAttempt(m), "RETRY_SCHEDULED") \in Events
  BY MessageFacts DEF Events, Statuses, Msgs
<1>2. EventsFrom(m) = statusQ[Of(m, "DELIVERED")] + statusQ[Of(m, "DEAD_LETTERED")]
        + IF CanRetry(m) THEN statusQ[Of(NextAttempt(m), "RETRY_SCHEDULED")] ELSE 0
  BY DEF EventsFrom
<1> HIDE DEF Of
<1> QED
  BY <1>1, <1>2 DEF TypeOK

\* No step makes more outputs and chances of an attempt than its job has budget.
LEMMA WithinBudgetStep ==
  TypeOK /\ HandlersProgress /\ WithinBudget /\ [Next]_vars => WithinBudget'
<1> SUFFICES ASSUME TypeOK, HandlersProgress, WithinBudget, [Next]_vars, NEW m \in Msgs
             PROVE  /\ Chances(m, Unsent)' + sends'[m] <= Budget(m.job)'
                    /\ Chances(m, Unburied)' + dlq'[m] <= Budget(m.job)'
                    /\ Chances(m, Untold)' + EventsFrom(m)' <= Budget(m.job)'
  BY DEF WithinBudget, Unsent, Unburied, Untold
<1>1. \A L \in Points :
        /\ Chances(m, L)' + Budget(m.job) <= Chances(m, L) + Budget(m.job)'
        /\ Chances(m, L) \in Nat /\ Chances(m, L)' \in Nat
        /\ Budget(m.job) \in Nat /\ Budget(m.job)' \in Nat
  BY StepPays
<1>2. \A L \in Points : \A h \in Handlers : Passes(h, m, L) =>
        Chances(m, L)' + 1 + Budget(m.job) <= Chances(m, L) + Budget(m.job)'
  BY PassingPays
<1>3. Unsent \in Points /\ Unburied \in Points /\ Untold \in Points
  BY DEF Points
<1>4. Chances(m, Unsent)' + sends'[m] <= Budget(m.job)'
  <2>1. Chances(m, Unsent) + sends[m] <= Budget(m.job) /\ sends[m] \in Nat
    BY OutputTypes DEF WithinBudget
  <2> QED
    BY <1>1, <1>2, <1>3, <2>1, SendPasses
<1>5. Chances(m, Unburied)' + dlq'[m] <= Budget(m.job)'
  <2>1. Chances(m, Unburied) + dlq[m] <= Budget(m.job) /\ dlq[m] \in Nat
    BY OutputTypes DEF WithinBudget
  <2> QED
    BY <1>1, <1>2, <1>3, <2>1, BurialPasses
<1>6. Chances(m, Untold)' + EventsFrom(m)' <= Budget(m.job)'
  <2>1. Chances(m, Untold) + EventsFrom(m) <= Budget(m.job) /\ EventsFrom(m) \in Nat
    BY OutputTypes DEF WithinBudget
  <2> QED
    BY <1>1, <1>2, <1>3, <2>1, EventPasses
<1> QED
  BY <1>4, <1>5, <1>6

(***************************************************************************)
(* Jobs the broker has taken nothing back of.                              *)
(***************************************************************************)

\* What is taken back is remembered.
LEMMA RequeueRemembers ==
  ASSUME TypeOK, NEW hs \in SUBSET Handlers, Requeue(hs)
  PROVE  /\ \A j \in Jobs : redelivered'[j] >= redelivered[j]
         /\ \A h \in hs : held[h] /\ msg[h] \in Msgs => redelivered'[msg[h].job] > 0
<1> DEFINE BackOf(j) == {h \in hs : held[h] /\ msg[h].job = j}
<1>1. \A j \in Jobs : /\ IsFiniteSet(BackOf(j)) /\ Cardinality(BackOf(j)) \in Nat
                      /\ redelivered[j] \in Nat
                      /\ redelivered'[j] = redelivered[j] + Cardinality(BackOf(j))
  <2> TAKE j \in Jobs
  <2>1. BackOf(j) \subseteq Handlers
    OBVIOUS
  <2>2. IsFiniteSet(BackOf(j)) /\ Cardinality(BackOf(j)) \in Nat
    BY <2>1, HandlerFacts, Shrinks
  <2> QED
    BY <2>2 DEF Requeue, TypeOK
<1>2. ASSUME NEW h \in hs, held[h], msg[h] \in Msgs PROVE redelivered'[msg[h].job] > 0
  <2>1. msg[h].job \in Jobs /\ h \in BackOf(msg[h].job)
    BY <1>2, MessageFacts
  <2> DEFINE S == BackOf(msg[h].job)
  <2>2. h \in S /\ IsFiniteSet(S) /\ {} \subseteq S \ {h}
    BY <1>1, <2>1
  <2>3. Cardinality(S) >= 1
    <3> HIDE DEF S
    <3> QED
      BY <2>2, Loses, FS_EmptySet, FS_CardinalityType
  <2> QED
    BY <1>1, <2>1, <2>3
<1>3. ASSUME NEW j \in Jobs PROVE redelivered'[j] >= redelivered[j]
  <2> HIDE DEF BackOf
  <2> QED
    BY <1>1
<1> QED
  BY <1>2, <1>3

\* A job that is undisturbed after a step was so before it.
LEMMA DisturbedStays ==
  ASSUME TypeOK, [Next]_vars
  PROVE  \A j \in Jobs : redelivered'[j] = 0 => redelivered[j] = 0
<1>1. redelivered' = redelivered \/ \E hs \in SUBSET Handlers : Requeue(hs)
  <2>1. ASSUME NEW h \in Handlers, HandlerStep(h) \/ HandlerFault(h)
        PROVE  \E hs \in SUBSET Handlers : Requeue(hs)
    BY <2>1, QueuesOfHandler
  <2>2. ASSUME NEW w \in Workers, ChannelLost(w) \/ Exit(w) \/ Crash(w)
        PROVE  \E hs \in SUBSET Handlers : Requeue(hs)
    BY <2>2, HandlerFacts DEF ChannelLost, Exit, Crash, Terminate
  <2>3. ASSUME NEW w \in Workers, Start(w) \/ Connect(w) \/ Stop(w)
        PROVE  redelivered' = redelivered
    BY <2>3 DEF Start, Connect, Stop
  <2>4. ASSUME \/ \E j \in Jobs : Enqueue(j)
               \/ \E t \in Tiers, n \in Msgs : Expire(t, n)
               \/ \E h \in Handlers, n \in Msgs : Deliver(h, n)
               \/ Quiescent \/ UNCHANGED vars
        PROVE  redelivered' = redelivered
    BY <2>4 DEF Enqueue, Expire, Deliver, Quiescent, vars
  <2> QED
    BY <2>1, <2>2, <2>3, <2>4 DEF Next
<1> QED
  BY <1>1, RequeueRemembers DEF TypeOK

\* While its job is undisturbed, one handler has a message.
LEMMA OneCarrier ==
  ASSUME TypeOK, WithinBudget, NEW g \in Handlers, NEW h \in Handlers,
         pc[g] \in Untold, pc[h] \in Untold, msg[g] = msg[h], Undisturbed(msg[h].job)
  PROVE  g = h
<1> DEFINE m == msg[h]
           S == Carriers(m, Untold)
<1>1. m \in Msgs /\ m \in UpTo(m)
  BY BusyFacts, UpToFacts DEF Untold
<1>2. g \in S /\ h \in S
  BY <1>1 DEF Carriers
<1>3. Cardinality(S) <= 1
  <2>1. Chances(m, Untold) + EventsFrom(m) <= Budget(m.job)
    BY <1>1 DEF WithinBudget
  <2>2. Budget(m.job) <= 1
    BY DEF Budget, Undisturbed
  <2>3. Budget(m.job) \in Nat
    BY <1>1, MessageFacts DEF Budget, TypeOK
  <2> HIDE DEF m
  <2> QED
    BY <1>1, <2>1, <2>2, <2>3, OutputTypes, CopiesFinite, CarriersFinite DEF Chances
<1> SUFFICES ASSUME g # h PROVE FALSE
  OBVIOUS
<1>4. IsFiniteSet(S) /\ {h} \subseteq S \ {g}
  BY <1>2, CarriersFinite
<1>5. Cardinality({h}) = 1
  BY FS_Singleton
<1> HIDE DEF S
<1>6. Cardinality({h}) + 1 <= Cardinality(S) /\ Cardinality(S) \in Nat
  BY <1>2, <1>4, Loses, FS_CardinalityType
<1> QED
  BY <1>3, <1>5, <1>6

\* What a handler does to the rows, to the jobs whose hand-off is interrupted, and to
\* itself while it has a message.
LEMMA WhatAHandlerDoes ==
  ASSUME TypeOK, NEW g \in Handlers, HandlerStep(g) \/ HandlerFault(g)
  PROVE  /\ \A m \in Msgs : ledger'[m] # ledger[m] =>
              msg[g] = m /\ (ledger'[m] = "PENDING" \/ pc[g] \in CompleteLabels)
         /\ orphaned' # orphaned => /\ orphaned' = orphaned \cup {msg[g].job}
                                    /\ Requeue({g}) /\ pc[g] # "idle"
         /\ pc'[g] # "idle" => /\ pc[g] # "idle" /\ msg'[g] = msg[g] /\ held'[g] = held[g]
                               /\ pc'[g] = "send" => ledger'[msg[g]] = "PENDING"
<1> DEFINE
      Rows == \A m \in Msgs : ledger'[m] # ledger[m] =>
                msg[g] = m /\ (ledger'[m] = "PENDING" \/ pc[g] \in CompleteLabels)
      Lost == orphaned' # orphaned => /\ orphaned' = orphaned \cup {msg[g].job}
                                      /\ Requeue({g}) /\ pc[g] # "idle"
      Self == pc'[g] # "idle" => /\ pc[g] # "idle" /\ msg'[g] = msg[g] /\ held'[g] = held[g]
                                 /\ pc'[g] = "send" => ledger'[msg[g]] = "PENDING"
<1>1. ASSUME NEW l, pc[g] # "idle", Goto(g, l), UNCHANGED <<msg, held>>,
             l = "send" => ledger'[msg[g]] = "PENDING"
      PROVE  Self
  BY <1>1 DEF Goto, TypeOK
<1>2. Release({g}) => Self
  BY DEF Release
<1>3. msg[g] \in Msgs => \A o : \A m \in Msgs : m # msg[g] => Update(msg[g], o)[m] = ledger[m]
  BY DEF Update, TypeOK
<1>4. CASE RateLimited(g) \/ BreakerOpen(g) \/ Admit(g)
  BY <1>1, <1>4 DEF RateLimited, BreakerOpen, Admit, Acquiring
<1>5. CASE Insert(g)
  <2>1. msg[g] \in Msgs /\ pc[g] # "idle"
    BY <1>5, BusyFacts DEF Insert
  <2>2. Rows /\ Lost
    BY <1>5, <2>1 DEF Insert, TypeOK
  <2>3. CASE ledger[msg[g]] = "NONE"
    BY <1>1, <1>5, <2>1, <2>2, <2>3 DEF Insert, Granted, TypeOK
  <2>4. CASE ledger[msg[g]] # "NONE"
    BY <1>1, <1>5, <2>1, <2>2, <2>4 DEF Insert
  <2> QED
    BY <2>3, <2>4
<1>6. CASE Select(g)
  BY <1>1, <1>6 DEF Select, Granted
<1>7. CASE SendAccepted(g) \/ SendTransient(g) \/ SendPermanent(g)
  BY <1>1, <1>7 DEF SendAccepted, SendTransient, SendPermanent, Sending
<1>8. CASE Complete(g)
  <2>1. msg[g] \in Msgs /\ pc[g] # "idle"
    BY <1>8, BusyFacts DEF Complete, CompleteLabels
  <2> QED
    BY <1>1, <1>3, <1>8, <2>1 DEF Complete, AfterComplete, CompleteLabels
<1>9. CASE Publish(g)
  BY <1>1, <1>9 DEF Publish, AfterPublish, PublishLabels, StatusLabels
<1>10. CASE Ack(g)
  BY <1>2, <1>10 DEF Ack
<1>11. CASE HandlerFault(g)
  <2>1. pc[g] # "idle" /\ msg[g] \in Msgs
    BY <1>11, BusyFacts
    DEF HandlerFault, AcquireFails, QueryFails, PublishRejected, QueryLabels, CompleteLabels,
        PublishLabels, StatusLabels
  <2>2. Nack(g)
    BY <1>11 DEF HandlerFault, AcquireFails, QueryFails, PublishRejected
  <2>3. Self /\ Lost
    BY <1>2, <1>11, <2>1, <2>2 DEF Nack, HandlerFault, AcquireFails, QueryFails, PublishRejected
  <2>4. Rows
    BY <1>3, <1>11, <2>1 DEF HandlerFault, AcquireFails, QueryFails, PublishRejected, TypeOK
  <2> QED
    BY <2>3, <2>4
<1> QED
  BY <1>4, <1>5, <1>6, <1>7, <1>8, <1>9, <1>10, <1>11 DEF HandlerStep

\* An undisturbed job is not orphaned, its handlers hold their messages, and nobody
\* completes the row of an attempt while its handler is about to send.
LEMMA UndisturbedSoundStep ==
  TypeOK /\ HandlersProgress /\ WithinBudget /\ UndisturbedSound /\ [Next]_vars
    => UndisturbedSound'
<1> SUFFICES ASSUME TypeOK, HandlersProgress, WithinBudget, UndisturbedSound, [Next]_vars
             PROVE  UndisturbedSound'
  OBVIOUS
<1> DEFINE Sound(h) == pc[h] # "idle" /\ redelivered[msg[h].job] = 0 =>
                         held[h] /\ (pc[h] = "send" => ledger[msg[h]] = "PENDING")
           SoundNext(h) == pc'[h] # "idle" /\ redelivered'[msg'[h].job] = 0 =>
                             held'[h] /\ (pc'[h] = "send" => ledger'[msg'[h]] = "PENDING")
<1>a. \A h \in Handlers : Sound(h)
  BY DEF UndisturbedSound, Undisturbed
<1>b. \A j \in orphaned : redelivered[j] # 0
  BY DEF UndisturbedSound, Undisturbed
<1>c. (\A h \in Handlers : SoundNext(h)) /\ (\A j \in orphaned' : redelivered'[j] # 0)
        => UndisturbedSound'
  BY DEF UndisturbedSound, Undisturbed
<1>d. TypeOK'
  BY TypeStep
<1>e. \A j \in Jobs : redelivered[j] # 0 => redelivered'[j] # 0
  BY DisturbedStays
<1>f. \A h \in Handlers : /\ pc[h] # "idle" => msg[h] \in Msgs /\ msg[h].job \in Jobs
                          /\ pc'[h] # "idle" => msg'[h] \in Msgs /\ msg'[h].job \in Jobs
  BY <1>d, HandlerFacts, MessageFacts DEF TypeOK
<1>g. orphaned \subseteq Jobs /\ redelivered' \in [Jobs -> Nat]
  BY <1>d DEF TypeOK
<1>h. ASSUME NEW h \in Handlers, pc'[h] # "idle", UNCHANGED <<pc[h], msg[h], held[h]>>,
             pc[h] = "send" => ledger'[msg[h]] = ledger[msg[h]]
      PROVE  SoundNext(h)
  <2>1. redelivered'[msg'[h].job] = 0 => redelivered[msg[h].job] = 0
    BY <1>f, <1>h, DisturbedStays
  <2> QED
    BY <1>a, <1>h, <2>1
<1>i. orphaned' = orphaned => \A j \in orphaned' : redelivered'[j] # 0
  BY <1>b, <1>e, <1>g
\* A handler that has its message is paid for when it is taken back.
<1>j. ASSUME NEW hs \in SUBSET Handlers, Requeue(hs), NEW h \in hs, pc[h] # "idle"
      PROVE  redelivered'[msg[h].job] # 0
  <2>1. CASE redelivered[msg[h].job] = 0
    <3>1. held[h] /\ msg[h] \in Msgs
      BY <1>a, <1>f, <1>j, <2>1
    <3>2. redelivered'[msg[h].job] > 0
      BY <1>j, <3>1, RequeueRemembers
    <3> QED
      BY <3>2
  <2>2. CASE redelivered[msg[h].job] # 0
    BY <1>e, <1>f, <1>j, <2>2
  <2> QED
    BY <2>1, <2>2
<1>1. ASSUME UNCHANGED <<pc, msg, held, ledger, orphaned>> PROVE UndisturbedSound'
  <2>1. \A h \in Handlers : pc'[h] # "idle" => SoundNext(h)
    BY <1>1, <1>h
  <2> QED
    BY <1>1, <1>c, <1>i, <2>1
<1>2. ASSUME NEW g \in Handlers, NEW n \in Msgs, Deliver(g, n) PROVE UndisturbedSound'
  <2>1. /\ orphaned' = orphaned /\ ledger' = ledger
        /\ held'[g] /\ pc'[g] # "send"
        /\ \A h \in Handlers : h # g => UNCHANGED <<pc[h], msg[h], held[h]>>
    BY <1>2 DEF Deliver, Goto, TypeOK
  <2>2. \A h \in Handlers : h # g /\ pc'[h] # "idle" => SoundNext(h)
    BY <1>h, <2>1
  <2>3. SoundNext(g)
    BY <2>1
  <2> QED
    BY <1>c, <1>i, <2>1, <2>2, <2>3
<1>3. ASSUME NEW g \in Handlers, HandlerStep(g) \/ HandlerFault(g) PROVE UndisturbedSound'
  <2>1. \A j \in orphaned' : redelivered'[j] # 0
    <3>1. CASE orphaned' # orphaned
      <4>1. orphaned' = orphaned \cup {msg[g].job} /\ Requeue({g}) /\ pc[g] # "idle"
        BY <1>3, <3>1, WhatAHandlerDoes
      <4>2. redelivered'[msg[g].job] # 0
        BY <1>j, <4>1
      <4> QED
        BY <1>b, <1>e, <1>g, <4>1, <4>2
    <3> QED
      BY <1>i, <3>1
  <2>2. SoundNext(g)
    <3> SUFFICES ASSUME pc'[g] # "idle", redelivered'[msg'[g].job] = 0
                 PROVE  held'[g] /\ (pc'[g] = "send" => ledger'[msg'[g]] = "PENDING")
      OBVIOUS
    <3>1. /\ pc[g] # "idle" /\ msg'[g] = msg[g] /\ held'[g] = held[g]
          /\ pc'[g] = "send" => ledger'[msg[g]] = "PENDING"
      BY <1>3, WhatAHandlerDoes
    <3>2. redelivered[msg[g].job] = 0
      BY <1>f, <3>1, DisturbedStays
    <3> QED
      BY <1>a, <3>1, <3>2
  <2>3. ASSUME NEW h \in Handlers, h # g PROVE SoundNext(h)
    <3> SUFFICES ASSUME pc'[h] # "idle", redelivered'[msg'[h].job] = 0 PROVE SoundNext(h)
      OBVIOUS
    <3>1. pc'[h] = pc[h] /\ msg'[h] = msg[h] /\ held'[h] = held[h]
      BY <1>3, <2>3, OtherHandlers
    <3>2. redelivered[msg[h].job] = 0 /\ msg[h] \in Msgs
      BY <1>f, <3>1, DisturbedStays
    <3>3. pc[h] = "send" => ledger'[msg[h]] = "PENDING"
      <4> SUFFICES ASSUME pc[h] = "send", ledger'[msg[h]] # ledger[msg[h]],
                          ledger'[msg[h]] # "PENDING"
                   PROVE  FALSE
        BY <1>a, <3>2
      <4>1. msg[g] = msg[h] /\ pc[g] \in CompleteLabels
        BY <1>3, <3>2, WhatAHandlerDoes
      <4>2. pc[g] \in Untold /\ pc[h] \in Untold
        BY <4>1 DEF Untold, Labels, CompleteLabels, QueryLabels
      <4> QED
        BY <2>3, <3>2, <4>1, <4>2, OneCarrier DEF Undisturbed
    <3> QED
      BY <1>a, <3>1, <3>2, <3>3
  <2> QED
    BY <1>c, <2>1, <2>2, <2>3
<1>4. ASSUME NEW w \in Workers, ChannelLost(w) PROVE UndisturbedSound'
  <2>1. /\ HandlersOf(w) \in SUBSET Handlers /\ Requeue(HandlersOf(w))
        /\ UNCHANGED <<pc, msg, ledger, orphaned>>
        /\ \A h \in Handlers : h \notin HandlersOf(w) => held'[h] = held[h]
    BY <1>4, HandlerFacts DEF ChannelLost
  <2>2. ASSUME NEW h \in Handlers, h \in HandlersOf(w), pc'[h] # "idle" PROVE SoundNext(h)
    <3>1. redelivered'[msg[h].job] # 0
      BY <1>j, <2>1, <2>2
    <3> QED
      BY <2>1, <3>1
  <2>3. ASSUME NEW h \in Handlers, h \notin HandlersOf(w), pc'[h] # "idle" PROVE SoundNext(h)
    BY <1>h, <2>1, <2>3
  <2>4. \A h \in Handlers : SoundNext(h)
    BY <2>2, <2>3
  <2> QED
    BY <1>c, <1>i, <2>1, <2>4
<1>5. ASSUME NEW w \in Workers, Terminate(w) PROVE UndisturbedSound'
  <2>1. /\ HandlersOf(w) \in SUBSET Handlers /\ Requeue(HandlersOf(w)) /\ ledger' = ledger
        /\ \A h \in HandlersOf(w) : pc'[h] = "idle"
        /\ \A h \in Handlers : h \notin HandlersOf(w) => UNCHANGED <<pc[h], msg[h], held[h]>>
        /\ \A j \in orphaned' : \/ j \in orphaned
                                \/ \E h \in HandlersOf(w) : pc[h] \in HandOffLabels /\ j = msg[h].job
    BY <1>5, HandlerFacts DEF Terminate, Release, TypeOK
  <2>2. \A j \in orphaned' : redelivered'[j] # 0
    BY <1>b, <1>e, <1>g, <1>j, <2>1 DEF HandOffLabels
  <2>3. ASSUME NEW h \in Handlers, pc'[h] # "idle" PROVE SoundNext(h)
    BY <1>h, <2>1, <2>3
  <2>4. \A h \in Handlers : SoundNext(h)
    BY <2>3
  <2> QED
    BY <1>c, <2>2, <2>4
<1>6. CASE UNCHANGED vars
  BY <1>1, <1>6 DEF vars, handler
<1> QED
  BY <1>1, <1>2, <1>3, <1>4, <1>5, <1>6
  DEF Next, Enqueue, Expire, Start, Connect, Stop, Exit, Crash, Quiescent, handler

\* At the start there are no chances, and nothing was brought forth.
LEMMA BudgetInit == Init => WithinBudget /\ UndisturbedSound
<1> SUFFICES ASSUME Init PROVE WithinBudget /\ UndisturbedSound
  OBVIOUS
<1>1. UndisturbedSound
  BY DEF Init, UndisturbedSound
<1>2. ASSUME NEW m \in Msgs PROVE Copies(m) = {}
  <2>1. \A t \in 0..NumTiers, n \in UpTo(m) : InQueue(t, n) = 0
    BY UpToFacts, ConstantsAssumption DEF Init, InQueue, Tiers
  <2> QED
    BY <2>1, CopyOf
<1>3. ASSUME NEW m \in Msgs, NEW L PROVE Carriers(m, L) = {}
  BY UpToFacts, HandlerFacts DEF Init, Carriers
<1>4. \A m \in Msgs : sends[m] = 0 /\ dlq[m] = 0 /\ EventsFrom(m) = 0 /\ Budget(m.job) = 0
  <2> TAKE m \in Msgs
  <2>1. sends[m] = 0 /\ dlq[m] = 0 /\ Budget(m.job) = 0
    BY MessageFacts DEF Init, Budget
  <2>2. CanRetry(m) => NextAttempt(m) \in Msgs
    BY MessageFacts
  <2>3. EventsFrom(m) = 0
    BY <2>2 DEF Init, EventsFrom, Events, Statuses, Msgs
  <2> QED
    BY <2>1, <2>3
<1>5. \A m \in Msgs : \A L : Chances(m, L) = 0
  BY <1>2, <1>3, FS_EmptySet DEF Chances
<1> QED
  BY <1>1, <1>4, <1>5 DEF WithinBudget

\* What an attempt has brought forth and may still bring forth is within the budget of
\* its job, and an undisturbed job is sound: the invariant the theorems below rest on.
THEOREM BudgetInvariant == Spec => []BudgetInv
<1>1. Init => BudgetInv
  BY TypeInit, BudgetInit DEF BudgetInv
<1>2. IInv /\ BudgetInv /\ [Next]_vars => BudgetInv'
  BY TypeStep, WithinBudgetStep, UndisturbedSoundStep DEF IInv, BudgetInv
<1> QED
  BY <1>1, <1>2, Invariant, PTL DEF Spec

\* An attempt sends, dead-letters and tells the API once, and once more for every
\* message of its job the broker took back.
THEOREM OutputsArePaidFor == Spec => []OutputsPaidFor
<1>1. BudgetInv => OutputsPaidFor
  <2> SUFFICES ASSUME BudgetInv, NEW m \in Msgs
               PROVE  /\ sends[m] <= 1 + redelivered[m.job]
                      /\ dlq[m] <= 1 + redelivered[m.job]
                      /\ EventsFrom(m) <= 1 + redelivered[m.job]
    BY DEF OutputsPaidFor
  <2>1. sends[m] \in Nat /\ dlq[m] \in Nat /\ EventsFrom(m) \in Nat /\ redelivered[m.job] \in Nat
    BY OutputTypes, MessageFacts DEF BudgetInv, TypeOK
  <2>2. \A L : Chances(m, L) \in Nat
    BY CopiesFinite, CarriersFinite DEF BudgetInv, Chances
  <2>3. Budget(m.job) <= 1 + redelivered[m.job] /\ Budget(m.job) \in Nat
    BY <2>1 DEF Budget
  <2> QED
    BY <2>1, <2>2, <2>3 DEF BudgetInv, WithinBudget
<1> QED
  BY BudgetInvariant, <1>1, PTL

\* As long as the broker has taken nothing of a job back, its hand-off is not
\* interrupted and no completed attempt of it is sent again.
THEOREM ClaimsHold == Spec => ClaimsHoldUndisturbed
<1> DEFINE Unharmed == \A j \in Jobs : redelivered'[j] = 0 =>
                     /\ j \notin orphaned'
                     /\ \A m \in Msgs : m.job = j /\ sends'[m] > sends[m] => ledger[m] = "PENDING"
<1>1. BudgetInv /\ BudgetInv' /\ [Next]_vars => [Unharmed]_vars
  <2> SUFFICES ASSUME BudgetInv, BudgetInv', [Next]_vars, NEW j \in Jobs, redelivered'[j] = 0
               PROVE  /\ j \notin orphaned'
                      /\ \A m \in Msgs : m.job = j /\ sends'[m] > sends[m]
                           => ledger[m] = "PENDING"
    OBVIOUS
  <2>1. j \notin orphaned'
    BY DEF BudgetInv, UndisturbedSound, Undisturbed
  <2>2. ASSUME NEW m \in Msgs, m.job = j, sends'[m] > sends[m] PROVE ledger[m] = "PENDING"
    <3>1. sends[m] \in Nat
      BY DEF BudgetInv, TypeOK
    <3>2. PICK h \in Handlers : pc[h] = "send" /\ Passes(h, m, Unsent)
      BY <2>2, <3>1, SendPasses DEF BudgetInv
    <3>3. redelivered[j] = 0
      BY DisturbedStays DEF BudgetInv
    <3> QED
      BY <2>2, <3>2, <3>3 DEF Passes, BudgetInv, UndisturbedSound, Undisturbed
  <2> QED
    BY <2>1, <2>2
<1> QED
  BY BudgetInvariant, <1>1, PTL DEF Spec, ClaimsHoldUndisturbed

\* ZeroLoss holds of an undisturbed job: it is in custody, sent or dead-lettered.
UndisturbedKept ==
  \A j \in submitted : Undisturbed(j) => InCustody(j) \/ Accepted(j) \/ DeadLettered(j)

\* No job is lost, with no exception, until the broker takes one of its messages back.
THEOREM NoUndisturbedJobIsLost == Spec => []UndisturbedKept
<1>1. BudgetInv /\ NoSilentLoss => UndisturbedKept
  BY DEF BudgetInv, UndisturbedSound, NoSilentLoss, UndisturbedKept, Settled
<1> QED
  BY BudgetInvariant, NoJobIsDropped, <1>1, PTL

=============================================================================
