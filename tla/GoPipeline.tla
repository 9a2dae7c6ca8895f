------------------------------ MODULE GoPipeline ------------------------------
(***************************************************************************)
(* The Go server: one process with a goroutine that consumes email_queue,  *)
(* HTTP handlers that publish to it, and OAuth callbacks that store        *)
(* tokens in the table the consumer reads them from and counts its sends   *)
(* in.                                                                     *)
(*                                                                         *)
(* GetValidAuth is called by the consumer and defined nowhere in the       *)
(* repository: it is modelled as the consumer uses it.  The retry consumer *)
(* has no action: nothing is ever published to failed_email_queue (see     *)
(* SendRejected).                                                          *)
(***************************************************************************)
EXTENDS Integers, Sequences

CONSTANTS
  Emails,      \* requests to send an email
  Logins,      \* OAuth callbacks, and the tokens they bring
  Mailboxes,   \* addresses a login can turn out to have
  FaultKinds,  \* which faults a behaviour may have: see Fault
  MaxFaults,   \* bound: how many of them
  None         \* no email, no copy of a row

\* The callbacks store every login under one of two fixed users.
Accounts == {"google", "microsoft"}
Rows == [account : Accounts, email : Mailboxes, token : Logins, count : Nat]
Copies == [id : Nat, row : Rows]

ASSUME GoAssumption ==
  /\ None \notin Emails \cup Accounts \cup Mailboxes \cup Copies
  /\ FaultKinds \subseteq {"call", "connection", "crash"}
  /\ MaxFaults \in Nat

VARIABLES
  up, connected,   \* the process, and its one connection to the broker
  posted,          \* history: emails a client was told are enqueued
  queue, buffer,   \* email_queue, and deliveries the client library holds
  pc, current,     \* the consumer: the call it is in, and its email
  sender, seen,    \* the mailbox it sends from, and trackQuota's copy of a row
  rows,            \* the auth table, in order of its ids
  at, account, mail, copy,  \* a callback: its call, user, mailbox, copy of a row
  attempts, accepted, handled, lost,  \* history: calls to a mail API by email,
                   \* emails taken, emails finished with, emails dropped unhandled
  faults

broker == <<posted, queue, buffer>>
consumer == <<pc, current, sender, seen>>
login == <<at, account, mail, copy>>
history == <<attempts, accepted, handled, lost>>
vars == <<up, connected, broker, consumer, rows, login, history, faults>>

\* A fault of kind k happens: a database call fails, the connection drops, the
\* process is killed.
Fault(k) == k \in FaultKinds /\ faults < MaxFaults /\ faults' = faults + 1

Init ==
  /\ up = TRUE /\ connected = TRUE
  /\ posted = {} /\ queue = {} /\ buffer = {}
  /\ pc = "idle" /\ current = None /\ sender = None /\ seen = None
  /\ rows = <<>>
  /\ at = [l \in Logins |-> "new"]
  /\ account = [l \in Logins |-> None] /\ mail = [l \in Logins |-> None]
  /\ copy = [l \in Logins |-> None]
  /\ attempts = [e \in Emails |-> 0] /\ accepted = 0
  /\ handled = {} /\ lost = {} /\ faults = 0

(***************************************************************************)
(* Producing and consuming.                                                *)
(***************************************************************************)

PublishSendEmailEvent(e) == queue' = queue \cup {e}

\* POST /email/send-email.  A publish that fails is answered with a 500.
Post(e) ==
  /\ up /\ connected /\ e \notin posted
  /\ posted' = posted \cup {e}
  /\ PublishSendEmailEvent(e)
  /\ UNCHANGED <<up, connected, buffer, consumer, rows, login, history, faults>>

\* Mutant: the consumer is registered without autoAck, and never acknowledges.
ConsumeUnacked(e) ==
  /\ up /\ connected /\ e \in queue
  /\ buffer' = buffer \cup {e}
  /\ UNCHANGED <<up, connected, posted, queue, consumer, rows, login, history, faults>>

\* The broker pushes a message: autoAck, and no prefetch.
Consume(e) ==
  /\ up /\ connected /\ e \in queue
  /\ queue' = queue \ {e}
  /\ buffer' = buffer \cup {e}
  /\ UNCHANGED <<up, connected, posted, consumer, rows, login, history, faults>>

Take(e) ==
  /\ pc = "idle" /\ e \in buffer
  /\ buffer' = buffer \ {e}
  /\ current' = e /\ pc' = "token"
  /\ UNCHANGED <<up, connected, posted, queue, sender, seen, rows, login, history, faults>>

\* The loop goes on with the next message.
Continue ==
  /\ pc' = "idle" /\ current' = None /\ sender' = None /\ seen' = None
  /\ handled' = handled \cup {current}

\* GetValidAuth has a token of some row.
TokenFetched ==
  /\ pc = "token"
  /\ \E i \in DOMAIN rows : sender' = rows[i].email
  /\ pc' = "send"
  /\ UNCHANGED <<up, connected, broker, current, seen, rows, login, history, faults>>

\* Mutant: the loop asks again and again.
TokenFailsForever ==
  /\ pc = "token"
  /\ UNCHANGED vars

\* GetValidAuth has none: the email is dropped.
TokenFails ==
  /\ pc = "token"
  /\ Continue
  /\ UNCHANGED <<up, connected, broker, rows, login, attempts, accepted, lost, faults>>

SendAccepted ==
  /\ pc = "send"
  /\ attempts' = [attempts EXCEPT ![current] = @ + 1]
  /\ accepted' = accepted + 1
  /\ pc' = "count"
  /\ UNCHANGED <<up, connected, broker, current, sender, seen, rows, login, handled, lost, faults>>

\* Mutant: a send that failed is counted like any other.
SendDroppedCounted ==
  /\ pc = "send"
  /\ pc' = "count"
  /\ UNCHANGED <<up, connected, broker, current, sender, seen, rows, login, history, faults>>

\* A disposable address, or no answer from the mail API, which may have taken the
\* email: logged and dropped.
SendDropped ==
  /\ pc = "send"
  /\ \E called \in {0, 1} : \E taken \in 0..called :
       /\ attempts' = [attempts EXCEPT ![current] = @ + called]
       /\ accepted' = accepted + taken
  /\ Continue
  /\ UNCHANGED <<up, connected, broker, rows, login, lost, faults>>

(***************************************************************************)
(* trackQuota: the first row of the mailbox is read, and saved whole with  *)
(* its count incremented.                                                  *)
(***************************************************************************)
OfSender == {i \in DOMAIN rows : rows[i].email = sender}
First(S) == {i \in S : \A j \in S : i <= j}
CopyOf(i) == [id |-> i, row |-> rows[i]]

\* Mutant: a mailbox that no row has any more is counted like any other.
CountReadUnchecked ==
  /\ pc = "count"
  /\ seen' \in IF OfSender = {} THEN {None} ELSE {CopyOf(i) : i \in First(OfSender)}
  /\ pc' = "store"
  /\ UNCHANGED <<up, connected, broker, current, sender, rows, login, history, faults>>

CountRead ==
  /\ pc = "count"
  /\ \E i \in First(OfSender) : seen' = CopyOf(i)
  /\ pc' = "store"
  /\ UNCHANGED <<up, connected, broker, current, sender, rows, login, history, faults>>

CountStore ==
  /\ pc = "store"
  /\ rows' = [rows EXCEPT ![seen.id] = [seen.row EXCEPT !.count = @ + 1]]
  /\ Continue
  /\ UNCHANGED <<up, connected, broker, login, attempts, accepted, lost, faults>>

\* No row has the mailbox any more, or a call fails: nobody looks at the error.
CountFails ==
  /\ \/ pc = "count" /\ OfSender = {} /\ UNCHANGED faults
     \/ pc \in {"count", "store"} /\ Fault("call")
  /\ Continue
  /\ UNCHANGED <<up, connected, broker, rows, login, attempts, accepted, lost>>

(***************************************************************************)
(* OAuth callbacks.                                                        *)
(***************************************************************************)
Running(l) == at[l] \in {"email", "find", "create", "save"}

\* The code is exchanged for a token.
Callback(l, a) ==
  /\ up /\ at[l] = "new"
  /\ at' = [at EXCEPT ![l] = "email"]
  /\ account' = [account EXCEPT ![l] = a]
  /\ UNCHANGED <<up, connected, broker, consumer, rows, mail, copy, history, faults>>

FetchEmail(l, m) ==
  /\ at[l] = "email"
  /\ at' = [at EXCEPT ![l] = "find"]
  /\ mail' = [mail EXCEPT ![l] = m]
  /\ UNCHANGED <<up, connected, broker, consumer, rows, account, copy, history, faults>>

OfAccount(l) == {i \in DOMAIN rows : rows[i].account = account[l]}

\* SaveOrUpdateToken: is there a row for the user?
Find(l) ==
  /\ at[l] = "find"
  /\ \/ /\ OfAccount(l) = {}
        /\ at' = [at EXCEPT ![l] = "create"] /\ UNCHANGED copy
     \/ \E i \in First(OfAccount(l)) :
          at' = [at EXCEPT ![l] = "save"] /\ copy' = [copy EXCEPT ![l] = CopyOf(i)]
  /\ UNCHANGED <<up, connected, broker, consumer, rows, account, mail, history, faults>>

CreateRow(l) ==
  /\ at[l] = "create"
  /\ rows' = Append(rows, [account |-> account[l], email |-> mail[l], token |-> l, count |-> 0])
  /\ at' = [at EXCEPT ![l] = "done"]
  /\ UNCHANGED <<up, connected, broker, consumer, account, mail, copy, history, faults>>

\* Mutant: the address of the new login is not stored.
SaveRowKeepingEmail(l) ==
  /\ at[l] = "save"
  /\ rows' = [rows EXCEPT ![copy[l].id] = [copy[l].row EXCEPT !.token = l]]
  /\ at' = [at EXCEPT ![l] = "done"]
  /\ UNCHANGED <<up, connected, broker, consumer, account, mail, copy, history, faults>>

\* Save writes every column of the copy.
SaveRow(l) ==
  /\ at[l] = "save"
  /\ rows' = [rows EXCEPT ![copy[l].id] = [copy[l].row EXCEPT !.email = mail[l], !.token = l]]
  /\ at' = [at EXCEPT ![l] = "done"]
  /\ UNCHANGED <<up, connected, broker, consumer, account, mail, copy, history, faults>>

\* The exchange, the fetch or a statement fails: 500.
CallbackFails(l) ==
  /\ Running(l) /\ Fault("call")
  /\ at' = [at EXCEPT ![l] = "done"]
  /\ UNCHANGED <<up, connected, broker, consumer, rows, account, mail, copy, history>>

(***************************************************************************)
(* The process.                                                            *)
(***************************************************************************)

\* The process ends, and with it what it had acknowledged and not handled.
End ==
  /\ up' = FALSE /\ connected' = FALSE
  /\ buffer' = {}
  /\ lost' = lost \cup buffer \cup {e \in Emails : e = current}
  /\ pc' = "idle" /\ current' = None /\ sender' = None /\ seen' = None
  /\ at' = [l \in Logins |-> IF Running(l) THEN "done" ELSE at[l]]
  /\ UNCHANGED <<posted, queue, rows, account, mail, copy, accepted, handled>>

\* The mail API answers with another status.  The event is published to
\* failed_email_queue on a channel NewEmailService never sets: nil, and a panic.
SendRejected ==
  /\ pc = "send"
  /\ attempts' = [attempts EXCEPT ![current] = @ + 1]
  /\ End
  /\ UNCHANGED faults

\* The userinfo request gets no answer, or none it can decode: log.Fatal.
FetchFatal(l) ==
  /\ at[l] = "email"
  /\ End
  /\ UNCHANGED <<attempts, faults>>

Crash == up /\ Fault("crash") /\ End /\ UNCHANGED attempts

Start ==
  /\ ~up
  /\ up' = TRUE /\ connected' = TRUE
  /\ UNCHANGED <<broker, consumer, rows, login, history, faults>>

\* The connection drops, perhaps because the broker restarts: messages are not
\* persistent.  The client library drops its buffer, the consumer's loop ends,
\* and nothing ever connects again.
ConnectionLost ==
  /\ up /\ connected /\ Fault("connection")
  /\ connected' = FALSE
  /\ queue' \in {queue, {}} /\ buffer' = {}
  /\ lost' = lost \cup buffer \cup (queue \ queue')
  /\ UNCHANGED <<up, posted, consumer, rows, login, attempts, accepted, handled>>

(***************************************************************************)
(* The specification.                                                      *)
(***************************************************************************)
ConsumerStep ==
  \/ \E e \in Emails : Take(e)
  \/ TokenFetched \/ TokenFails
  \/ SendAccepted \/ SendDropped \/ SendRejected
  \/ CountRead \/ CountStore \/ CountFails

\* Nothing is left to do, or nothing can be done without a connection.
Quiescent ==
  /\ pc = "idle" /\ buffer = {} /\ \A l \in Logins : at[l] = "done"
  /\ up /\ (connected => queue = {} /\ posted = Emails)
  /\ UNCHANGED vars

Next ==
  \/ \E e \in Emails : Post(e) \/ Consume(e)
  \/ ConsumerStep
  \/ \E l \in Logins : Find(l) \/ CreateRow(l) \/ SaveRow(l) \/ CallbackFails(l) \/ FetchFatal(l)
  \/ \E l \in Logins, a \in Accounts : Callback(l, a)
  \/ \E l \in Logins, m \in Mailboxes : FetchEmail(l, m)
  \/ Crash \/ Start \/ ConnectionLost
  \/ Quiescent

Spec == Init /\ [][Next]_vars

\* Fairness.  The broker pushes what it has to its consumer, and the consumer's
\* calls return, with an answer or an error.  The mail clients have timeouts; of the
\* database calls, which have none, and of GetValidAuth it is an assumption.  Nothing
\* restarts the process.
FairSpec ==
  /\ Spec
  /\ \A e \in Emails : WF_vars(Consume(e)) /\ WF_vars(Take(e))
  /\ WF_vars(ConsumerStep)

(***************************************************************************)
(* Properties.                                                             *)
(***************************************************************************)
TypeOK ==
  /\ up \in BOOLEAN /\ connected \in BOOLEAN
  /\ posted \subseteq Emails /\ queue \subseteq posted /\ buffer \subseteq posted
  /\ pc \in {"idle", "token", "send", "count", "store"}
  /\ current \in Emails \cup {None} /\ (pc = "idle" <=> current = None)
  /\ sender \in Mailboxes \cup {None}
  /\ seen \in Copies \cup {None} /\ (pc = "store" => seen # None)
  /\ rows \in Seq(Rows)
  /\ at \in [Logins -> {"new", "email", "find", "create", "save", "done"}]
  /\ account \in [Logins -> Accounts \cup {None}]
  /\ mail \in [Logins -> Mailboxes \cup {None}]
  /\ copy \in [Logins -> Copies \cup {None}]
  /\ attempts \in [Emails -> Nat] /\ accepted \in Nat
  /\ handled \subseteq Emails /\ lost \subseteq Emails
  /\ faults \in 0..MaxFaults

\* A mail API is called at most once for an email, whatever is lost, restarted or
\* rejected: a message is acknowledged before it is handled.
AtMostOnce == \A e \in Emails : attempts[e] <= 1

\* The sender address and the token of a row come from one login of the row's user:
\* concurrent callbacks and quota counts may undo each other, and never mix.
Whole(r) == \E l \in Logins : r.token = l /\ account[l] = r.account /\ mail[l] = r.email
RowsAreWhole == \A i \in DOMAIN rows : Whole(rows[i])

\* No row counts more emails than the mail APIs have accepted, although counts are
\* read, incremented and saved while callbacks save the same rows.
CountsAreBacked == \A i \in DOMAIN rows : rows[i].count <= accepted

\* While the process has its connection an enqueued email does not wait for ever:
\* the consumer finishes with it, whether it was sent, dropped or had no token.
EventuallyHandled ==
  \A e \in Emails : e \in queue ~> e \in handled \cup lost \/ ~up \/ ~connected

(***************************************************************************)
(* The inductive invariant behind them.                                    *)
(***************************************************************************)

\* A message is in one place at a time, and called for only once it left them all.
OnePlace ==
  /\ queue \cap buffer = {}
  /\ current \notin queue \cup buffer
  /\ \A e \in Emails : attempts[e] > 0 => e \in posted \ (queue \cup buffer)
  /\ pc # "idle" => current \in posted
  /\ pc \in {"token", "send"} => attempts[current] = 0

\* The accepted emails trackQuota has had its chance to count.
Credited == IF pc \in {"count", "store"} THEN accepted - 1 ELSE accepted

\* Copies of a row are of a row that is still there, whole and credited as far.
CopySound(c) == c.id \in DOMAIN rows /\ Whole(c.row) /\ c.row.count <= Credited

\* What a callback knows where it is.
CallbackSound(l) ==
  /\ at[l] \in {"email", "find", "create", "save"} => account[l] # None
  /\ at[l] \in {"find", "create", "save"} => mail[l] # None
  /\ at[l] = "new" => account[l] = None
  /\ at[l] \in {"new", "email"} => mail[l] = None
  /\ at[l] = "save" =>
       copy[l] # None /\ CopySound(copy[l]) /\ copy[l].row.account = account[l]

CopiesSound ==
  /\ Credited >= 0
  /\ \A l \in Logins : CallbackSound(l)
  /\ pc = "store" => CopySound(seen)
  /\ \A i \in DOMAIN rows : rows[i].count <= Credited

GoInv == TypeOK /\ AtMostOnce /\ OnePlace /\ RowsAreWhole /\ CopiesSound

=============================================================================
