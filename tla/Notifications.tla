----------------------------- MODULE Notifications -----------------------------
(***************************************************************************)
(* The notification service: the consumers of user.registered,             *)
(* transaction.completed and cashback.eligible, which look users up and    *)
(* send emails.  The three handlers run concurrently in one process.       *)
(* Connections are lost, the process ends and starts again, lookups and    *)
(* emails fail.  What an email says is left out.                           *)
(***************************************************************************)
EXTENDS EventBus

CONSTANTS Users,       \* users
          Payments,    \* completed transfers
          SenderOf,    \* SenderOf[p], ReceiverOf[p]: the parties of p
          ReceiverOf,
          Rewarded,    \* the payments large enough for cashback
          None,        \* no event
          Faults       \* what may go wrong

Event(queues, about) == [queue : queues, about : about]

ASSUME PartiesAssumption ==
    /\ SenderOf \in [Payments -> Users] /\ ReceiverOf \in [Payments -> Users]
    /\ Rewarded \subseteq Payments
    /\ Faults \subseteq {"connection", "crash", "auth", "mail"}
ASSUME BusAssumption ==
    /\ Queues = {"registered", "completed", "cashback"}
    /\ Owner = [q \in Queues |-> "notification"]
    /\ Publisher = "producers"
    /\ Events = Event({"registered"}, Users) \union Event({"completed"}, Payments)
                 \union Event({"cashback"}, Rewarded)
    /\ None \notin Events

VARIABLES
    published,  \* the events that auth-service and transaction-service published
    userCache,  \* the users cached in memory
    task,       \* task[q]: what the handler of q waits for, if it runs
    doing,      \* doing[q]: the event it handles
    pending,    \* pending[q]: the emails it has yet to send
    sent,       \* the emails that went out
    skipped,    \* the emails left out because their recipient was not found
    failed,     \* the events whose handler threw
    again       \* the events taken back and not settled since: those redelivered

workVars == <<userCache, task, doing, pending>>
mailVars == <<sent, skipped, failed>>
vars == <<busVars, published, workVars, mailVars, again>>

KindsOf == [registered |-> {"welcome"}, completed |-> {"sent", "received"},
            cashback |-> {"cashback"}]
Mails == [kind : {"welcome"}, about : Users]
         \union [kind : {"sent", "received", "cashback"}, about : Payments]
MailsOf(e) == [kind : KindsOf[e.queue], about : {e.about}]
Recipient(m) ==
    CASE m.kind = "welcome"  -> m.about
      [] m.kind = "received" -> ReceiverOf[m.about]
      [] OTHER               -> SenderOf[m.about]

\* The events published before e: its parties have registered, and
\* _emitTransactionEvents sends transaction.completed first.
Before(e) ==
    CASE e.queue = "registered" -> {}
      [] e.queue = "completed"  -> Event({"registered"}, {SenderOf[e.about], ReceiverOf[e.about]})
      [] e.queue = "cashback"   -> Event({"completed"}, {e.about})

TypeOK ==
    /\ BusTypeOK
    /\ published \subseteq Events
    /\ userCache \subseteq Users
    /\ task \in [Queues -> {"idle", "lookup", "mail"}]
    /\ doing \in [Queues -> Events \union {None}]
    /\ pending \in [Queues -> SUBSET Mails]
    /\ sent \subseteq Mails
    /\ skipped \subseteq Mails
    /\ failed \subseteq Events
    /\ again \subseteq Events

\* The service never ran; events may have been published already.
Init ==
    /\ BusInit(FALSE)
    /\ published \in SUBSET Events
    /\ \A e \in published : Before(e) \subseteq published
    /\ userCache = {}
    /\ task = [q \in Queues |-> "idle"]
    /\ doing = [q \in Queues |-> None]
    /\ pending = [q \in Queues |-> {}]
    /\ sent = {}
    /\ skipped = {}
    /\ failed = {}
    /\ again = {}
-----------------------------------------------------------------------------
\* An event is published once.  Events lost on a publisher's connection are
\* left out: they never concern this service.
PublishEvent(e) ==
    /\ e \notin published
    /\ Before(e) \subseteq published
    /\ published' = published \union {e}
    /\ Publish(e, {e.queue})
    /\ UNCHANGED <<workVars, mailVars, again>>

\* The callback of consume.  A registered user is cached right away.
Receive(q, e) ==
    /\ Deliver(q, e)
    /\ doing' = [doing EXCEPT ![q] = e]
    /\ IF q = "registered"
       THEN /\ userCache' = userCache \union {e.about}
            /\ task' = [task EXCEPT ![q] = "mail"]
            /\ pending' = [pending EXCEPT ![q] = MailsOf(e)]
       ELSE /\ task' = [task EXCEPT ![q] = "lookup"]
            /\ UNCHANGED <<userCache, pending>>
    /\ UNCHANGED <<published, mailVars, again>>

\* Mutant: the handler returns when it does not find the sender.
FindSender(q, found) ==
    LET mails == MailsOf(doing[q])
        lost == {m \in mails : m.kind # "received" /\ Recipient(m) \notin found}
    IN
    /\ task[q] = "lookup"
    /\ found \subseteq {Recipient(m) : m \in mails}
    /\ userCache' = userCache \union found
    /\ task' = [task EXCEPT ![q] = "mail"]
    /\ pending' = [pending EXCEPT ![q] = IF lost = {} THEN mails ELSE {}]
    /\ skipped' = skipped \union lost
    /\ UNCHANGED <<busVars, published, doing, sent, failed, again>>

\* Mutant: what was not found is cached too.
CacheMisses(q, found) ==
    /\ task[q] = "lookup"
    /\ found \subseteq Users
    /\ userCache' = userCache \union (IF found = {} THEN {None} ELSE found)
    /\ task' = [task EXCEPT ![q] = "mail"]
    /\ UNCHANGED <<busVars, published, doing, pending, sent, skipped, failed, again>>

\* getUser for each party: users who are cached are found, and so are those
\* whom auth-service tells of.  (A failing lookup also misses a user who was
\* cached meanwhile, as if it had been over before.)
FindUsers(q, found) ==
    LET mails == MailsOf(doing[q])
        parties == {Recipient(m) : m \in mails}
    IN
    /\ task[q] = "lookup"
    /\ found \subseteq parties
    /\ IF "auth" \in Faults THEN parties \intersect userCache \subseteq found ELSE found = parties
    /\ userCache' = userCache \union found
    /\ task' = [task EXCEPT ![q] = "mail"]
    /\ pending' = [pending EXCEPT ![q] = {m \in mails : Recipient(m) \in found}]
    /\ skipped' = skipped \union {m \in mails : Recipient(m) \notin found}
    /\ UNCHANGED <<busVars, published, doing, sent, failed, again>>

\* The email that is sent now: the sender's before the receiver's.
Current(q, m) ==
    /\ task[q] = "mail"
    /\ m \in pending[q]
    /\ m.kind = "received" => \A n \in pending[q] : n.kind = "received"

SendMail(q, m) ==
    /\ Current(q, m)
    /\ sent' = sent \union {m}
    /\ pending' = [pending EXCEPT ![q] = @ \ {m}]
    /\ UNCHANGED <<busVars, published, userCache, task, doing, skipped, failed, again>>

Finish(q) ==
    /\ task' = [task EXCEPT ![q] = "idle"]
    /\ doing' = [doing EXCEPT ![q] = None]
    /\ pending' = [pending EXCEPT ![q] = {}]

\* The handler has returned: ack.
Acknowledge(q) ==
    /\ task[q] = "mail" /\ pending[q] = {}
    /\ Settle(q, doing[q])
    /\ Finish(q)
    /\ again' = again \ {doing[q]}
    /\ UNCHANGED <<published, userCache, mailVars>>

\* sendMail throws, perhaps after the email went out: nack, and the emails
\* that were to follow are not sent.
MailFails(q, m) ==
    /\ "mail" \in Faults
    /\ Current(q, m)
    /\ Reject(q, doing[q])
    /\ Finish(q)
    /\ sent' \in {sent, sent \union {m}}
    /\ failed' = failed \union {doing[q]}
    /\ again' = again \ {doing[q]}
    /\ UNCHANGED <<published, userCache, skipped>>
-----------------------------------------------------------------------------
\* What was delivered and not settled will be delivered again.
TakeBack(state) ==
    /\ Detach("notification", state)
    /\ again' = again \union UNION {unacked[q] : q \in Queues}

\* The process ends, and with it its handlers and its cache.
Exit ==
    /\ TakeBack("down")
    /\ userCache' = {}
    /\ task' = [q \in Queues |-> "idle"]
    /\ doing' = [q \in Queues |-> None]
    /\ pending' = [q \in Queues |-> {}]

\* A handler ends on the channel of a lost connection: ack throws, and so does
\* nack in the catch, which Node answers by ending the process.
StaleChannel(q) ==
    /\ task[q] = "mail"
    /\ pending[q] = {} \/ "mail" \in Faults
    /\ doing[q] \notin unacked[q]
    /\ Exit
    /\ UNCHANGED <<published, mailVars>>

\* A crash, or a reconnection that fails.
ProcessEnds ==
    /\ \/ "crash" \in Faults /\ link["notification"] # "down"
       \/ link["notification"] = "closed"
    /\ Exit
    /\ UNCHANGED <<published, mailVars>>

\* The handlers go on.
LoseConnection ==
    /\ "connection" \in Faults
    /\ link["notification"] = "open"
    /\ TakeBack("closed")
    /\ UNCHANGED <<published, workVars, mailVars>>

Reconnection ==
    /\ Reconnect("notification")
    /\ UNCHANGED <<published, workVars, mailVars, again>>

StartUp ==
    /\ Start("notification")
    /\ UNCHANGED <<published, workVars, mailVars, again>>

Handler(q) ==
    \/ \E e \in queue[q] : Receive(q, e)
    \/ \E found \in SUBSET Users : FindUsers(q, found)
    \/ \E m \in pending[q] : SendMail(q, m) \/ MailFails(q, m)
    \/ Acknowledge(q) \/ StaleChannel(q)

Next ==
    \/ \E e \in Events : PublishEvent(e)
    \/ \E q \in Queues : Handler(q)
    \/ ProcessEnds \/ LoseConnection \/ Reconnection \/ StartUp

Spec == Init /\ [][Next]_vars

\* The broker delivers to each consumer, and its handler's lookups and emails
\* end one way or the other.  Nobody has to start a process that ended.
Fairness == WF_vars(\E q \in Queues : Handler(q))

FairSpec == Spec /\ Fairness
-----------------------------------------------------------------------------
Settled(e) == e \in routed[e.queue] \ (queue[e.queue] \union unacked[e.queue])

\* README "Event-Driven Wallet Creation": the service consumes its events
\* independently of the others.  An event is only over when each of its emails
\* went out or its recipient could not be found, or the handler threw, whoever
\* crashed or lost the connection in between.  Each party of a payment counts
\* for itself.
EveryoneIsTold ==
    \A e \in Events : Settled(e) /\ e \notin failed =>
        MailsOf(e) \subseteq sent \union skipped

\* An email that went out is not sent again, unless the broker had to deliver
\* its event again: one that fails does not repeat the one before it, and no two
\* handlers work on one event.
MailedOnce == \A q \in Queues : pending[q] \intersect sent # {} => doing[q] \in again

\* While the service consumes, every event comes to an end: no handler of one
\* queue waits for that of another, or keeps its slot of prefetch(1).
EventsAreSettled ==
    \A e \in Events : e \in routed[e.queue] ~> Settled(e) \/ e.queue \notin attached
=============================================================================
