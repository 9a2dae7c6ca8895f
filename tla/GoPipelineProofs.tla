--------------------------- MODULE GoPipelineProofs ---------------------------
(***************************************************************************)
(* Proofs about GoPipeline for every number of emails, logins and faults.  *)
(***************************************************************************)
EXTENDS GoPipeline, TLAPS

\* A new process with an empty table.
LEMMA GoInit == Init => GoInv
<1> SUFFICES ASSUME Init PROVE GoInv
  OBVIOUS
<1>1. TypeOK
  BY GoAssumption DEF Init, TypeOK
<1>2. AtMostOnce /\ OnePlace
  BY GoAssumption DEF Init, AtMostOnce, OnePlace
<1>3. RowsAreWhole /\ CopiesSound
  BY GoAssumption DEF Init, RowsAreWhole, CopiesSound, CallbackSound, Credited
<1> QED
  BY <1>1, <1>2, <1>3 DEF GoInv

\* The rows of the table have their columns, and an id that is a number.
LEMMA RowTypes ==
  ASSUME TypeOK, NEW i \in DOMAIN rows
  PROVE  /\ rows[i] \in Rows /\ CopyOf(i) \in Copies
         /\ rows[i].email \in Mailboxes /\ rows[i].account \in Accounts /\ rows[i].count \in Nat
<1>1. rows[i] \in Rows /\ i \in Nat
  BY DEF TypeOK
<1> QED
  BY <1>1 DEF Rows, Copies, CopyOf

\* Saving a row keeps the table a table of as many rows.
LEMMA SaveTypes ==
  ASSUME TypeOK, NEW i \in DOMAIN rows, NEW r \in Rows
  PROVE  [rows EXCEPT ![i] = r] \in Seq(Rows) /\ DOMAIN [rows EXCEPT ![i] = r] = DOMAIN rows
  BY DEF TypeOK

\* A dropped email may have been sent, and that is counted.
LEMMA DroppedCounts ==
  ASSUME TypeOK, SendDropped
  PROVE  attempts' \in [Emails -> Nat] /\ accepted' \in Nat
<1>1. PICK called \in {0, 1} : \E taken \in 0..called :
        /\ attempts' = [attempts EXCEPT ![current] = @ + called]
        /\ accepted' = accepted + taken
  BY DEF SendDropped
<1>2. attempts \in [Emails -> Nat] /\ accepted \in Nat /\ called \in Nat
  BY DEF TypeOK
<1>3. attempts' \in [Emails -> Nat]
  <2>1. attempts' = [attempts EXCEPT ![current] = @ + called]
    BY <1>1
  <2>2. CASE current \in Emails
    <3>1. attempts[current] + called \in Nat
      BY <1>2, <2>2
    <3> QED
      BY <1>2, <2>1, <3>1
  <2>3. CASE current \notin Emails
    BY <1>2, <2>1, <2>3
  <2> QED
    BY <2>2, <2>3
<1>4. accepted' \in Nat
  BY <1>1, <1>2
<1> QED
  BY <1>3, <1>4

\* Every step keeps the types.
LEMMA GoType == GoInv /\ [Next]_vars => TypeOK'
<1> SUFFICES ASSUME GoInv, [Next]_vars PROVE TypeOK'
  OBVIOUS
<1>t. TypeOK
  BY DEF GoInv
<1> USE <1>t, GoAssumption DEF TypeOK, Continue, broker, consumer, login, history
<1>1. ASSUME NEW e \in Emails, Post(e) \/ Consume(e) \/ Take(e) PROVE TypeOK'
  BY <1>1 DEF Post, PublishSendEmailEvent, Consume, Take
<1>2. ASSUME TokenFetched PROVE TypeOK'
  <2>1. sender' \in Mailboxes
    BY <1>2, RowTypes DEF TokenFetched
  <2> QED
    BY <1>2, <2>1 DEF TokenFetched
<1>3. ASSUME TokenFails PROVE TypeOK'
  BY <1>3 DEF TokenFails
<1>4. ASSUME SendAccepted \/ SendDropped PROVE TypeOK'
  <2>1. ASSUME SendAccepted PROVE TypeOK'
    BY <2>1 DEF SendAccepted
  <2>2. ASSUME SendDropped PROVE TypeOK'
    <3>1. attempts' \in [Emails -> Nat] /\ accepted' \in Nat
      BY <2>2, DroppedCounts
    <3> QED
      BY <2>2, <3>1 DEF SendDropped
  <2> QED
    BY <1>4, <2>1, <2>2
<1>5. ASSUME SendRejected \/ Crash \/ \E l \in Logins : FetchFatal(l) PROVE TypeOK'
  <2>1. End /\ attempts' \in [Emails -> Nat] /\ faults' \in 0..MaxFaults
    BY <1>5 DEF SendRejected, Crash, FetchFatal, Fault
  <2>2. at' \in [Logins -> {"new", "email", "find", "create", "save", "done"}]
    BY <2>1 DEF End
  <2> QED
    BY <2>1, <2>2 DEF End
<1>6. ASSUME CountRead PROVE TypeOK'
  <2>1. seen' \in Copies
    BY <1>6, RowTypes DEF CountRead, First, OfSender
  <2> QED
    BY <1>6, <2>1 DEF CountRead
<1>7. ASSUME CountStore PROVE TypeOK'
  <2>1. seen \in Copies /\ seen.id \in DOMAIN rows
    BY <1>7 DEF GoInv, CountStore, CopiesSound, CopySound
  <2>2. [seen.row EXCEPT !.count = @ + 1] \in Rows
    <3>1. seen.row \in Rows /\ seen.row.count + 1 \in Nat
      BY <2>1 DEF Copies, Rows
    <3> QED
      BY <3>1 DEF Rows
  <2>3. rows' \in Seq(Rows)
    BY <1>7, <2>1, <2>2, SaveTypes DEF CountStore
  <2> QED
    BY <1>7, <2>3 DEF CountStore
<1>8. ASSUME CountFails PROVE TypeOK'
  BY <1>8 DEF CountFails, Fault
<1>9. ASSUME NEW l \in Logins, NEW a \in Accounts, Callback(l, a) PROVE TypeOK'
  BY <1>9 DEF Callback
<1>10. ASSUME NEW l \in Logins, NEW m \in Mailboxes, FetchEmail(l, m) PROVE TypeOK'
  BY <1>10 DEF FetchEmail
<1>11. ASSUME NEW l \in Logins, Find(l) PROVE TypeOK'
  <2>1. copy' \in [Logins -> Copies \cup {None}]
    BY <1>11, RowTypes DEF Find, First, OfAccount
  <2> QED
    BY <1>11, <2>1 DEF Find
<1>12. ASSUME NEW l \in Logins, CreateRow(l) PROVE TypeOK'
  <2>1. account[l] \in Accounts /\ mail[l] \in Mailboxes
    BY <1>12 DEF GoInv, CreateRow, CopiesSound, CallbackSound
  <2>2. [account |-> account[l], email |-> mail[l], token |-> l, count |-> 0] \in Rows
    BY <2>1 DEF Rows
  <2> QED
    BY <1>12, <2>2 DEF CreateRow
<1>13. ASSUME NEW l \in Logins, SaveRow(l) PROVE TypeOK'
  <2>1. copy[l] \in Copies /\ copy[l].id \in DOMAIN rows /\ mail[l] \in Mailboxes
    BY <1>13 DEF GoInv, SaveRow, CopiesSound, CallbackSound, CopySound
  <2>2. [copy[l].row EXCEPT !.email = mail[l], !.token = l] \in Rows
    BY <2>1 DEF Copies, Rows
  <2>3. rows' \in Seq(Rows)
    BY <1>13, <2>1, <2>2, SaveTypes DEF SaveRow
  <2> QED
    BY <1>13, <2>3 DEF SaveRow
<1>14. ASSUME NEW l \in Logins, CallbackFails(l) PROVE TypeOK'
  BY <1>14 DEF CallbackFails, Running, Fault
<1>15. ASSUME Start PROVE TypeOK'
  BY <1>15 DEF Start
<1>16. ASSUME ConnectionLost PROVE TypeOK'
  <2>1. queue' \subseteq posted' /\ lost' \subseteq Emails /\ faults' \in 0..MaxFaults
    BY <1>16 DEF ConnectionLost, Fault
  <2> QED
    BY <1>16, <2>1 DEF ConnectionLost
<1>17. CASE UNCHANGED vars
  BY <1>17 DEF vars
<1> QED
  BY <1>1, <1>2, <1>3, <1>4, <1>5, <1>6, <1>7, <1>8, <1>9, <1>10, <1>11, <1>12, <1>13, <1>14,
     <1>15, <1>16, <1>17
  DEF Next, ConsumerStep, Quiescent

\* Only the end that a rejection brings about is a call to a mail API.
LEMMA EndAttempts ==
  ASSUME TypeOK, SendRejected \/ Crash \/ \E l \in Logins : FetchFatal(l)
  PROVE  End /\ \A e \in Emails :
           attempts'[e] = attempts[e] \/ (e = current /\ pc = "send" /\ attempts'[e] = attempts[e] + 1)
<1>1. CASE SendRejected
  <2>1. attempts' = [attempts EXCEPT ![current] = @ + 1] /\ attempts \in [Emails -> Nat]
    BY <1>1 DEF SendRejected, TypeOK
  <2> QED
    BY <1>1, <2>1 DEF SendRejected
<1>2. CASE Crash \/ \E l \in Logins : FetchFatal(l)
  <2>1. attempts' = attempts
    BY <1>2 DEF Crash, FetchFatal
  <2> QED
    BY <1>2, <2>1 DEF Crash, FetchFatal
<1> QED
  BY <1>1, <1>2

\* Every step keeps a message in one place, and no step calls for one twice.
LEMMA PlaceStep == GoInv /\ [Next]_vars => AtMostOnce' /\ OnePlace'
<1> SUFFICES ASSUME GoInv, [Next]_vars PROVE AtMostOnce' /\ OnePlace'
  OBVIOUS
<1>t. TypeOK /\ TypeOK' /\ AtMostOnce /\ OnePlace
  BY GoType DEF GoInv
<1> USE <1>t, GoAssumption
    DEF TypeOK, AtMostOnce, OnePlace, Continue, broker, consumer, login, history
<1>1. ASSUME NEW e \in Emails, Post(e) \/ Consume(e) \/ Take(e) PROVE AtMostOnce' /\ OnePlace'
  <2>1. CASE Post(e)
    BY <2>1 DEF Post, PublishSendEmailEvent
  <2>2. CASE Consume(e)
    BY <2>2 DEF Consume
  <2>3. CASE Take(e)
    BY <2>3 DEF Take
  <2> QED
    BY <1>1, <2>1, <2>2, <2>3
<1>2. ASSUME TokenFetched \/ TokenFails PROVE AtMostOnce' /\ OnePlace'
  BY <1>2 DEF TokenFetched, TokenFails
<1>3. ASSUME SendAccepted \/ SendDropped PROVE AtMostOnce' /\ OnePlace'
  <2>1. /\ attempts[current] = 0 /\ current \in posted \ (queue \cup buffer)
        /\ \A e \in Emails : attempts'[e] = attempts[e] \/ (e = current /\ attempts'[e] \in 0..1)
    BY <1>3 DEF SendAccepted, SendDropped
  <2>2. CASE SendAccepted
    BY <2>1, <2>2 DEF SendAccepted
  <2>3. CASE SendDropped
    BY <2>1, <2>3 DEF SendDropped
  <2> QED
    BY <1>3, <2>2, <2>3
<1>4. ASSUME SendRejected \/ Crash \/ \E l \in Logins : FetchFatal(l) PROVE AtMostOnce' /\ OnePlace'
  <2>1. End /\ \A e \in Emails :
          attempts'[e] = attempts[e] \/ (e = current /\ pc = "send" /\ attempts'[e] = attempts[e] + 1)
    BY <1>4, EndAttempts
  <2> QED
    BY <2>1 DEF End
<1>5. ASSUME CountRead \/ CountStore \/ CountFails PROVE AtMostOnce' /\ OnePlace'
  BY <1>5 DEF CountRead, CountStore, CountFails
<1>6. ASSUME NEW l \in Logins,
             \/ \E a \in Accounts : Callback(l, a)
             \/ \E m \in Mailboxes : FetchEmail(l, m)
             \/ Find(l) \/ CreateRow(l) \/ SaveRow(l) \/ CallbackFails(l)
      PROVE  AtMostOnce' /\ OnePlace'
  BY <1>6 DEF Callback, FetchEmail, Find, CreateRow, SaveRow, CallbackFails
<1>7. ASSUME Start \/ ConnectionLost PROVE AtMostOnce' /\ OnePlace'
  BY <1>7 DEF Start, ConnectionLost
<1>8. CASE UNCHANGED vars
  BY <1>8 DEF vars
<1> QED
  BY <1>1, <1>2, <1>3, <1>4, <1>5, <1>6, <1>7, <1>8 DEF Next, ConsumerStep, Quiescent

\* A copy is sound in the next state.
SoundNext(c) ==
  /\ c.id \in DOMAIN rows' /\ c.row.count <= Credited'
  /\ \E l \in Logins : c.row.token = l /\ account'[l] = c.row.account /\ mail'[l] = c.row.email

\* What a step leaves alone when it neither drops rows nor rewrites a login.
Undisturbed ==
  /\ DOMAIN rows \subseteq DOMAIN rows' /\ Credited <= Credited'
  /\ \A l \in Logins : account[l] # None => account'[l] = account[l]
  /\ \A l \in Logins : mail[l] # None => mail'[l] = mail[l]

\* A sound copy stays sound.
LEMMA SoundKept ==
  ASSUME GoInv, TypeOK', Undisturbed, NEW c \in Copies, CopySound(c)
  PROVE  SoundNext(c)
<1>1. PICK l \in Logins : c.row.token = l /\ account[l] = c.row.account /\ mail[l] = c.row.email
  BY DEF CopySound, Whole
<1>2. c.row.account # None /\ c.row.email # None /\ c.row.count \in Nat
  BY GoAssumption DEF Copies, Rows
<1>3. c.row.token = l /\ account'[l] = c.row.account /\ mail'[l] = c.row.email
  BY <1>1, <1>2 DEF Undisturbed
<1>4. Credited \in Int /\ Credited' \in Int
  BY DEF Credited, GoInv, TypeOK
<1>5. c.row.count <= Credited'
  BY <1>2, <1>4 DEF CopySound, Undisturbed
<1> QED
  BY <1>3, <1>5 DEF CopySound, SoundNext, Undisturbed

\* So do all rows, the copy trackQuota has and the copies of the callbacks.
LEMMA AllKept ==
  ASSUME GoInv, TypeOK', Undisturbed
  PROVE  /\ \A i \in DOMAIN rows : SoundNext(CopyOf(i))
         /\ pc = "store" => seen \in Copies /\ SoundNext(seen)
         /\ \A l \in Logins : at[l] = "save" => copy[l] \in Copies /\ SoundNext(copy[l])
<1>1. ASSUME NEW i \in DOMAIN rows PROVE SoundNext(CopyOf(i))
  <2>1. CopyOf(i) \in Copies
    BY RowTypes DEF GoInv
  <2>2. CopySound(CopyOf(i))
    BY DEF GoInv, RowsAreWhole, CopiesSound, CopySound, CopyOf
  <2> QED
    BY <2>1, <2>2, SoundKept
<1>2. ASSUME pc = "store" PROVE seen \in Copies /\ SoundNext(seen)
  BY <1>2, SoundKept DEF GoInv, TypeOK, CopiesSound
<1>3. ASSUME NEW l \in Logins, at[l] = "save" PROVE copy[l] \in Copies /\ SoundNext(copy[l])
  BY <1>3, SoundKept DEF GoInv, TypeOK, CopiesSound, CallbackSound
<1> QED
  BY <1>1, <1>2, <1>3

\* A callback goes on with the copy it has, or takes one of a row of its user.
CallbackNext(l) ==
  /\ at'[l] \in {"email", "find", "create", "save"} => account'[l] # None
  /\ at'[l] \in {"find", "create", "save"} => mail'[l] # None
  /\ at'[l] = "new" => account'[l] = None
  /\ at'[l] \in {"new", "email"} => mail'[l] = None
  /\ at'[l] = "save" =>
       \/ at[l] = "save" /\ copy'[l] = copy[l] /\ account'[l] = account[l]
       \/ \E i \in DOMAIN rows : copy'[l] = CopyOf(i) /\ account'[l] = rows[i].account

\* With the table as it was, all that can go wrong is what the step itself looked up.
LEMMA TableKept ==
  ASSUME GoInv, TypeOK', Undisturbed, rows' = rows,
         pc' = "store" => \/ pc = "store" /\ seen' = seen
                          \/ \E i \in DOMAIN rows : seen' = CopyOf(i),
         \A l \in Logins : CallbackNext(l)
  PROVE  RowsAreWhole' /\ CopiesSound'
<1>1. RowsAreWhole' /\ \A i \in DOMAIN rows' : rows'[i].count <= Credited'
  BY AllKept DEF SoundNext, CopyOf, RowsAreWhole, Whole
<1>2. ASSUME pc' = "store" PROVE CopySound(seen)'
  BY <1>2, AllKept DEF SoundNext, CopySound, Whole
<1>3. ASSUME NEW l \in Logins PROVE CallbackSound(l)'
  <2>1. ASSUME at'[l] = "save"
        PROVE  copy'[l] # None /\ CopySound(copy[l])' /\ copy'[l].row.account = account'[l]
    <3>1. CASE at[l] = "save" /\ copy'[l] = copy[l] /\ account'[l] = account[l]
      <4>1. SoundNext(copy[l]) /\ copy[l] # None /\ copy[l].row.account = account[l]
        BY <3>1, AllKept DEF GoInv, CopiesSound, CallbackSound
      <4> QED
        BY <3>1, <4>1 DEF SoundNext, CopySound, Whole
    <3>2. CASE \E i \in DOMAIN rows : copy'[l] = CopyOf(i) /\ account'[l] = rows[i].account
      <4>1. PICK i \in DOMAIN rows : copy'[l] = CopyOf(i) /\ account'[l] = rows[i].account
        BY <3>2
      <4>2. SoundNext(CopyOf(i)) /\ CopyOf(i) \in Copies /\ CopyOf(i).row.account = rows[i].account
        BY AllKept, RowTypes DEF GoInv, CopyOf
      <4>3. CopyOf(i) # None
        BY <4>2, GoAssumption
      <4> QED
        BY <4>1, <4>2, <4>3 DEF SoundNext, CopySound, Whole
    <3> QED
      BY <2>1, <3>1, <3>2 DEF CallbackNext
  <2> QED
    BY <2>1 DEF CallbackNext, CallbackSound
<1>4. Credited' >= 0
  <2>1. Credited \in Int /\ Credited' \in Int
    BY DEF GoInv, TypeOK, Credited
  <2> QED
    BY <2>1 DEF GoInv, CopiesSound, Undisturbed
<1> QED
  BY <1>1, <1>2, <1>3, <1>4 DEF CopiesSound

\* Every step keeps rows whole and no further counted than emails were accepted.
LEMMA RowStep == GoInv /\ [Next]_vars => RowsAreWhole' /\ CopiesSound'
<1> SUFFICES ASSUME GoInv, [Next]_vars PROVE RowsAreWhole' /\ CopiesSound'
  OBVIOUS
<1>t. TypeOK /\ TypeOK' /\ CopiesSound
  BY GoType DEF GoInv
<1>c. accepted \in Nat /\ accepted' \in Nat
  BY <1>t DEF TypeOK
<1> USE GoAssumption DEF Continue, broker, consumer, login, history
<1>1. ASSUME UNCHANGED <<rows, login>>,
             accepted' \in Nat, Credited <= Credited',
             pc' = "store" => \/ pc = "store" /\ seen' = seen
                              \/ \E i \in DOMAIN rows : seen' = CopyOf(i)
      PROVE  RowsAreWhole' /\ CopiesSound'
  <2>1. Undisturbed
    BY <1>1 DEF Undisturbed
  <2>2. ASSUME NEW l \in Logins PROVE CallbackNext(l)
    BY <1>1, <1>t DEF CallbackNext, CopiesSound, CallbackSound
  <2> QED
    BY <1>1, <1>t, <2>1, <2>2, TableKept
<1>2. ASSUME NEW e \in Emails, Post(e) \/ Consume(e) \/ Take(e) PROVE RowsAreWhole' /\ CopiesSound'
  <2>1. UNCHANGED <<rows, login>>
    BY <1>2 DEF Post, PublishSendEmailEvent, Consume, Take
  <2>2. pc' = "store" => pc = "store" /\ seen' = seen
    BY <1>2 DEF Post, PublishSendEmailEvent, Consume, Take
  <2>3. Credited <= Credited'
    <3>1. accepted' = accepted /\ (pc' \in {"count", "store"} => pc \in {"count", "store"})
      BY <1>2 DEF Post, PublishSendEmailEvent, Consume, Take
    <3> QED
      BY <1>c, <3>1 DEF Credited
  <2> QED
    BY <1>1, <1>c, <2>1, <2>2, <2>3
<1>3. ASSUME TokenFetched \/ TokenFails PROVE RowsAreWhole' /\ CopiesSound'
  <2>1. UNCHANGED <<rows, login>>
    BY <1>3 DEF TokenFetched, TokenFails
  <2>2. pc' = "store" => pc = "store" /\ seen' = seen
    BY <1>3 DEF TokenFetched, TokenFails
  <2>3. Credited <= Credited'
    <3>1. accepted' = accepted /\ (pc' \in {"count", "store"} => pc \in {"count", "store"})
      BY <1>3 DEF TokenFetched, TokenFails
    <3> QED
      BY <1>c, <3>1 DEF Credited
  <2> QED
    BY <1>1, <1>c, <2>1, <2>2, <2>3
<1>4. ASSUME SendAccepted \/ SendDropped PROVE RowsAreWhole' /\ CopiesSound'
  <2>1. UNCHANGED <<rows, login>>
    BY <1>4 DEF SendAccepted, SendDropped
  <2>2. pc' = "store" => pc = "store" /\ seen' = seen
    BY <1>4 DEF SendAccepted, SendDropped
  <2>3. Credited <= Credited'
    <3>1. \/ pc' = "count" /\ accepted' = accepted + 1
          \/ pc' = "idle" /\ accepted' \in {accepted, accepted + 1}
      BY <1>4, <1>c DEF SendAccepted, SendDropped
    <3>2. pc = "send"
      BY <1>4 DEF SendAccepted, SendDropped
    <3>3. Credited = accepted
      BY <3>2 DEF Credited
    <3>4. Credited' \in {accepted, accepted + 1}
      <4>1. CASE pc' = "count" /\ accepted' = accepted + 1
        <5>1. Credited' = accepted' - 1
          BY <4>1 DEF Credited
        <5> QED
          BY <1>c, <4>1, <5>1
      <4>2. CASE pc' = "idle" /\ accepted' \in {accepted, accepted + 1}
        <5>1. Credited' = accepted'
          BY <4>2 DEF Credited
        <5> QED
          BY <4>2, <5>1
      <4> QED
        BY <3>1, <4>1, <4>2
    <3> QED
      BY <1>c, <3>3, <3>4
  <2> QED
    BY <1>1, <1>c, <2>1, <2>2, <2>3
<1>5. ASSUME CountRead PROVE RowsAreWhole' /\ CopiesSound'
  BY <1>1, <1>5, <1>c DEF CountRead, First, OfSender, Credited
<1>6. ASSUME CountFails PROVE RowsAreWhole' /\ CopiesSound'
  BY <1>1, <1>6, <1>c DEF CountFails, Credited
<1>7. ASSUME Start \/ ConnectionLost PROVE RowsAreWhole' /\ CopiesSound'
  <2>1. UNCHANGED <<rows, login>>
    BY <1>7 DEF Start, ConnectionLost
  <2>2. pc' = "store" => pc = "store" /\ seen' = seen
    BY <1>7 DEF Start, ConnectionLost
  <2>3. Credited <= Credited'
    <3>1. accepted' = accepted /\ (pc' \in {"count", "store"} => pc \in {"count", "store"})
      BY <1>7 DEF Start, ConnectionLost
    <3> QED
      BY <1>c, <3>1 DEF Credited
  <2> QED
    BY <1>1, <1>c, <2>1, <2>2, <2>3
<1>8. CASE UNCHANGED vars
  BY <1>1, <1>8, <1>c DEF vars, Credited
<1>9. ASSUME NEW l \in Logins,
             \/ \E a \in Accounts : Callback(l, a)
             \/ \E m \in Mailboxes : FetchEmail(l, m)
             \/ Find(l) \/ CallbackFails(l)
      PROVE  RowsAreWhole' /\ CopiesSound'
  <2>1. UNCHANGED <<rows, pc, seen, accepted>>
    BY <1>9 DEF Callback, FetchEmail, Find, CallbackFails
  <2>2. Undisturbed
    BY <1>9, <1>t, <2>1
    DEF Callback, FetchEmail, Find, CallbackFails, Undisturbed, Credited, TypeOK, CopiesSound, CallbackSound
  <2>3. ASSUME NEW k \in Logins PROVE CallbackNext(k)
    BY <1>9, <1>t
    DEF Callback, FetchEmail, Find, First, OfAccount, CallbackFails, Running,
        CallbackNext, TypeOK, CopiesSound, CallbackSound
  <2> QED
    BY <1>t, <2>1, <2>2, <2>3, TableKept
<1>10. ASSUME SendRejected \/ Crash \/ \E l \in Logins : FetchFatal(l)
       PROVE  RowsAreWhole' /\ CopiesSound'
  <2>1. End
    BY <1>10 DEF SendRejected, Crash, FetchFatal
  <2>2. Undisturbed
    BY <1>t, <2>1 DEF End, Undisturbed, Credited, TypeOK
  <2>3. ASSUME NEW k \in Logins PROVE CallbackNext(k)
    BY <1>t, <2>1 DEF End, Running, CallbackNext, TypeOK, CopiesSound, CallbackSound
  <2> QED
    BY <1>t, <2>1, <2>2, <2>3, TableKept DEF End
<1>11. ASSUME CountStore PROVE RowsAreWhole' /\ CopiesSound'
  <2>1. /\ seen \in Copies /\ CopySound(seen)
        /\ DOMAIN rows' = DOMAIN rows
        /\ rows'[seen.id] = [seen.row EXCEPT !.count = @ + 1]
        /\ \A i \in DOMAIN rows : i # seen.id => rows'[i] = rows[i]
    BY <1>11, <1>t DEF CountStore, CopiesSound, CopySound, TypeOK
  <2>2. seen.row \in Rows /\ seen.row.count \in Nat /\ Credited' = Credited + 1
    BY <1>11, <1>c, <2>1 DEF CountStore, Copies, Rows, Credited
  <2>c. Credited \in Int
    BY <1>c DEF Credited
  <2>3. Undisturbed
    BY <1>11, <1>c, <2>1 DEF CountStore, Undisturbed, Credited
  <2>4. SoundNext(seen) /\ \A i \in DOMAIN rows : SoundNext(CopyOf(i))
    BY <1>11, <1>t, <2>3, AllKept DEF CountStore
  <2>5. ASSUME NEW i \in DOMAIN rows' PROVE Whole(rows[i])' /\ rows'[i].count <= Credited'
    <3>1. CASE i = seen.id
      <4>1. /\ rows'[i].account = seen.row.account /\ rows'[i].email = seen.row.email
            /\ rows'[i].token = seen.row.token /\ rows'[i].count = seen.row.count + 1
        BY <2>1, <2>2, <3>1 DEF Rows
      <4>2. seen.row.count <= Credited
        BY <2>1 DEF CopySound
      <4>3. rows'[i].count <= Credited'
        BY <2>2, <2>c, <4>1, <4>2
      <4> QED
        BY <2>4, <4>1, <4>3 DEF SoundNext, Whole
    <3>2. CASE i # seen.id
      BY <2>1, <2>4, <3>2 DEF SoundNext, CopyOf, Whole
    <3> QED
      BY <3>1, <3>2
  <2>6. ASSUME NEW l \in Logins PROVE CallbackSound(l)'
    <3>1. at[l] = "save" => SoundNext(copy[l])
      BY <1>t, <2>3, AllKept
    <3> QED
      BY <1>11, <1>t, <3>1 DEF CountStore, SoundNext, CopySound, Whole, CallbackSound, CopiesSound
  <2>7. pc' # "store" /\ Credited' >= 0
    BY <1>11, <1>c DEF CountStore, Credited
  <2> QED
    BY <2>5, <2>6, <2>7 DEF RowsAreWhole, CopiesSound
<1>12. ASSUME NEW l \in Logins, CreateRow(l) \/ SaveRow(l) PROVE RowsAreWhole' /\ CopiesSound'
  <2>1. /\ account'  = account /\ mail' = mail /\ copy' = copy /\ accepted' = accepted
        /\ pc' = pc /\ seen' = seen /\ at' = [at EXCEPT ![l] = "done"]
    BY <1>12 DEF CreateRow, SaveRow
  <2>2. Credited' = Credited /\ Credited \in Int /\ Credited >= 0
    BY <1>c, <1>t, <2>1 DEF Credited, CopiesSound
  <2>3. /\ Undisturbed
        /\ \A i \in DOMAIN rows' :
             \/ i \in DOMAIN rows /\ rows'[i] = rows[i]
             \/ /\ rows'[i].account = account[l] /\ rows'[i].email = mail[l] /\ rows'[i].token = l
                /\ rows'[i].count <= Credited
    <3>1. CASE CreateRow(l)
      <4>1. /\ DOMAIN rows' = 1..(Len(rows) + 1) /\ DOMAIN rows = 1..Len(rows) /\ Len(rows) \in Nat
            /\ \A i \in DOMAIN rows : rows'[i] = rows[i]
            /\ rows'[Len(rows) + 1] = [account |-> account[l], email |-> mail[l], token |-> l, count |-> 0]
        BY <1>t, <3>1 DEF CreateRow, TypeOK
      <4>2. Undisturbed
        BY <2>1, <2>2, <4>1 DEF Undisturbed
      <4> QED
        BY <2>2, <4>1, <4>2
    <3>2. CASE SaveRow(l)
      <4>1. copy[l] \in Copies /\ CopySound(copy[l]) /\ copy[l].row.account = account[l]
        BY <1>t, <3>2 DEF SaveRow, CopiesSound, CallbackSound, TypeOK
      <4>2. /\ DOMAIN rows' = DOMAIN rows
            /\ rows'[copy[l].id] = [copy[l].row EXCEPT !.email = mail[l], !.token = l]
            /\ \A i \in DOMAIN rows : i # copy[l].id => rows'[i] = rows[i]
        BY <1>t, <3>2, <4>1 DEF SaveRow, CopySound, TypeOK
      <4>3. Undisturbed
        BY <2>1, <2>2, <4>2 DEF Undisturbed
      <4>4. /\ rows'[copy[l].id].account = account[l] /\ rows'[copy[l].id].email = mail[l]
            /\ rows'[copy[l].id].token = l /\ rows'[copy[l].id].count <= Credited
        BY <4>1, <4>2 DEF CopySound, Copies, Rows
      <4> QED
        BY <4>2, <4>3, <4>4
    <3> QED
      BY <1>12, <3>1, <3>2
  <2>4. /\ \A i \in DOMAIN rows : SoundNext(CopyOf(i))
        /\ pc = "store" => SoundNext(seen)
        /\ \A k \in Logins : at[k] = "save" => SoundNext(copy[k])
    BY <1>t, <2>3, AllKept
  <2>5. ASSUME NEW i \in DOMAIN rows' PROVE Whole(rows[i])' /\ rows'[i].count <= Credited'
    <3>1. CASE i \in DOMAIN rows /\ rows'[i] = rows[i]
      BY <2>4, <3>1 DEF SoundNext, CopyOf, Whole
    <3>2. CASE /\ rows'[i].account = account[l] /\ rows'[i].email = mail[l] /\ rows'[i].token = l
               /\ rows'[i].count <= Credited
      BY <2>1, <2>2, <3>2 DEF Whole
    <3> QED
      BY <2>3, <3>1, <3>2
  <2>6. ASSUME NEW k \in Logins PROVE CallbackSound(k)'
    <3>1. at'[k] = at[k] \/ at'[k] = "done"
      BY <1>t, <2>1 DEF TypeOK
    <3> QED
      BY <1>t, <2>1, <2>4, <3>1 DEF SoundNext, CopySound, Whole, CallbackSound, CopiesSound
  <2>7. pc' = "store" => CopySound(seen)'
    BY <2>1, <2>4 DEF SoundNext, CopySound, Whole
  <2> QED
    BY <2>2, <2>5, <2>6, <2>7 DEF RowsAreWhole, CopiesSound
<1> QED
  BY <1>t, <1>2, <1>3, <1>4, <1>5, <1>6, <1>7, <1>8, <1>9, <1>10, <1>11, <1>12
  DEF Next, ConsumerStep, Quiescent

\* The inductive invariant holds.
THEOREM GoInvariant == Spec => []GoInv
<1>1. GoInv /\ [Next]_vars => GoInv'
  BY GoType, PlaceStep, RowStep DEF GoInv
<1> QED
  BY <1>1, GoInit, PTL DEF Spec

\* No email is handed to a mail API twice: what is acknowledged on delivery is never
\* delivered again.
THEOREM CalledAtMostOnce == Spec => []AtMostOnce
<1>1. GoInv => AtMostOnce
  BY DEF GoInv
<1> QED
  BY <1>1, GoInvariant, PTL

\* No row mixes the token of one login with the user or the address of another.
THEOREM RowsStayWhole == Spec => []RowsAreWhole
<1>1. GoInv => RowsAreWhole
  BY DEF GoInv
<1> QED
  BY <1>1, GoInvariant, PTL

\* No row counts an email that no mail API has accepted.
THEOREM CountsStayBacked == Spec => []CountsAreBacked
<1>1. GoInv => CountsAreBacked
  <2> SUFFICES ASSUME GoInv, NEW i \in DOMAIN rows PROVE rows[i].count <= accepted
    BY DEF CountsAreBacked
  <2>1. rows[i].count \in Nat /\ accepted \in Nat
    BY RowTypes DEF GoInv, TypeOK
  <2>2. rows[i].count <= Credited
    BY DEF GoInv, CopiesSound
  <2> QED
    BY <2>1, <2>2 DEF Credited
<1> QED
  BY <1>1, GoInvariant, PTL

\* The variables keep their types.
THEOREM GoTypes == Spec => []TypeOK
<1>1. GoInv => TypeOK
  BY DEF GoInv
<1> QED
  BY <1>1, GoInvariant, PTL

=============================================================================
