-------------------------- MODULE NotificationProofs --------------------------
(***************************************************************************)
(* Proofs about Notifications for any users, payments and faults.          *)
(***************************************************************************)
EXTENDS Notifications, TLAPS

\* Each queue holds published events of its own; its handler works on one of
\* them, and has the only one that is not settled.  While the queue is consumed,
\* that is the one it works on.  No handler outlives the process.
PlaceInv ==
    \A q \in Queues :
        /\ \A e \in routed[q] : e \in published /\ e.queue = q
        /\ queue[q] \union unacked[q] \subseteq routed[q]
        /\ queue[q] \intersect unacked[q] = {}
        /\ task[q] = "idle" => unacked[q] = {}
        /\ task[q] # "idle" => doing[q] \in routed[q] /\ unacked[q] \subseteq {doing[q]}
        /\ q \in attached => link["notification"] = "open"
        /\ task[q] # "idle" => link["notification"] # "down"
        /\ task[q] # "idle" /\ q \in attached => doing[q] \in unacked[q]

\* A handler still has the emails it has not dealt with.
ToldInv ==
    /\ EveryoneIsTold
    /\ \A q \in Queues : task[q] = "mail" => MailsOf(doing[q]) \subseteq sent \union skipped \union pending[q]

\* The emails that may still go out are of an event that was taken back, or new.
OnceInv ==
    /\ \A e \in Events \ published : MailsOf(e) \intersect sent = {}
    /\ \A q \in Queues : \A e \in queue[q] \ again : MailsOf(e) \intersect sent = {}
    /\ \A q \in Queues :
        /\ task[q] # "mail" => pending[q] = {}
        /\ task[q] = "mail" => pending[q] \subseteq MailsOf(doing[q])
        /\ task[q] # "idle" /\ doing[q] \notin again =>
               /\ doing[q] \in unacked[q]
               /\ task[q] = "lookup" => MailsOf(doing[q]) \intersect sent = {}
               /\ pending[q] \intersect sent = {}

MailInv == PlaceInv /\ ToldInv /\ OnceInv
-----------------------------------------------------------------------------
\* The emails of an event are emails, and no two events share one.
LEMMA MailFacts ==
    /\ \A e \in Events : MailsOf(e) \subseteq Mails
    /\ \A e, f \in Events : e # f => MailsOf(e) \intersect MailsOf(f) = {}
<1> USE BusAssumption, PartiesAssumption DEF Event, MailsOf, Mails, KindsOf
<1>1. ASSUME NEW e \in Events PROVE MailsOf(e) \subseteq Mails
  <2>1. CASE e \in Event({"registered"}, Users)
    BY <2>1
  <2>2. CASE e \in Event({"completed"}, Payments)
    BY <2>2
  <2>3. CASE e \in Event({"cashback"}, Rewarded)
    BY <2>3
  <2> QED
    BY <2>1, <2>2, <2>3
<1>2. ASSUME NEW e \in Events, NEW f \in Events, NEW m \in MailsOf(e), m \in MailsOf(f)
      PROVE  e = f
  <2>1. m.about = e.about /\ m.about = f.about
    BY <1>2
  <2>2. m.kind \in KindsOf[e.queue] /\ m.kind \in KindsOf[f.queue]
    BY <1>2
  <2>3. e.queue \in Queues /\ f.queue \in Queues
    OBVIOUS
  <2>4. e.queue = f.queue
    BY <2>2, <2>3
  <2>5. e = [queue |-> e.queue, about |-> e.about] /\ f = [queue |-> f.queue, about |-> f.about]
    OBVIOUS
  <2> QED
    BY <2>1, <2>4, <2>5
<1> QED
  BY <1>1, <1>2

\* There are two services, and one of them owns every queue.
LEMMA Places ==
    /\ Services = {"notification", "producers"}
    /\ QueuesOf("notification") = Queues
  BY BusAssumption DEF Services, QueuesOf

\* Every variable has its type at the start.
LEMMA TypeInit == Init => TypeOK
  BY BusAssumption, Places DEF Init, TypeOK, BusInit, BusTypeOK

\* What the bus does keeps the types of its variables.
LEMMA BusTypes ==
    ASSUME BusTypeOK,
           \/ \E e \in Events : Publish(e, {e.queue})
           \/ \E q \in Queues : \E e \in Events : Deliver(q, e) \/ Settle(q, e)
           \/ Start("notification") \/ Reconnect("notification")
           \/ \E state \in {"down", "closed"} : Detach("notification", state)
           \/ UNCHANGED busVars
    PROVE  BusTypeOK'
<1> USE Places DEF BusTypeOK
<1>1. CASE \E e \in Events : Publish(e, {e.queue})
  BY <1>1 DEF Publish
<1>2. CASE \E q \in Queues : \E e \in Events : Deliver(q, e)
  BY <1>2 DEF Deliver
<1>3. CASE \E q \in Queues : \E e \in Events : Settle(q, e)
  BY <1>3 DEF Settle
<1>4. CASE Start("notification") \/ Reconnect("notification")
  BY <1>4 DEF Start, Reconnect
<1>5. CASE \E state \in {"down", "closed"} : Detach("notification", state)
  BY <1>5 DEF Detach
<1>6. CASE UNCHANGED busVars
  BY <1>6 DEF busVars
<1> QED
  BY <1>1, <1>2, <1>3, <1>4, <1>5, <1>6

\* A handler's step keeps the types.
LEMMA HandlerTypes ==
    ASSUME TypeOK, PlaceInv, NEW q \in Queues, Handler(q)
    PROVE  TypeOK'
<1> USE MailFacts DEF TypeOK, workVars, mailVars
<1>0. task[q] # "idle" => doing[q] \in Events
  BY DEF PlaceInv, BusTypeOK
<1>1. ASSUME NEW e \in queue[q], Receive(q, e) PROVE TypeOK'
  <2>1. e \in Events
    BY <1>1 DEF BusTypeOK
  <2>2. BusTypeOK'
    BY <1>1, <2>1, BusTypes DEF Receive
  <2>3. q = "registered" => e.about \in Users
    <3>1. e.queue = q
      BY <2>1 DEF PlaceInv
    <3> QED
      BY <2>1, <3>1, BusAssumption DEF Event
  <2> QED
    BY <1>1, <2>1, <2>2, <2>3 DEF Receive
<1>2. ASSUME NEW found \in SUBSET Users, FindUsers(q, found) PROVE TypeOK'
  BY <1>0, <1>2, BusTypes DEF FindUsers
<1>3. ASSUME NEW m \in pending[q], SendMail(q, m) PROVE TypeOK'
  BY <1>3, BusTypes DEF SendMail
<1>4. ASSUME NEW m \in pending[q], MailFails(q, m) PROVE TypeOK'
  <2>1. doing[q] \in Events
    BY <1>0, <1>4 DEF MailFails, Current
  <2> QED
    BY <1>4, <2>1, BusTypes DEF MailFails, Reject, Finish
<1>5. CASE Acknowledge(q)
  <2>1. doing[q] \in Events
    BY <1>0, <1>5 DEF Acknowledge
  <2> QED
    BY <1>5, <2>1, BusTypes DEF Acknowledge, Finish
<1>6. CASE StaleChannel(q)
  BY <1>6, BusTypes DEF StaleChannel, Exit, TakeBack, BusTypeOK
<1> QED
  BY <1>1, <1>2, <1>3, <1>4, <1>5, <1>6 DEF Handler

\* So do publishers, and processes and connections that come and go.
LEMMA ServiceTypes ==
    ASSUME TypeOK,
           \/ \E e \in Events : PublishEvent(e)
           \/ ProcessEnds \/ LoseConnection \/ Reconnection \/ StartUp
    PROVE  TypeOK'
<1> USE DEF TypeOK, workVars, mailVars
<1>1. CASE \E e \in Events : PublishEvent(e)
  BY <1>1, BusTypes DEF PublishEvent
<1>2. CASE ProcessEnds
  BY <1>2, BusTypes DEF ProcessEnds, Exit, TakeBack, BusTypeOK
<1>3. CASE LoseConnection
  BY <1>3, BusTypes DEF LoseConnection, TakeBack, BusTypeOK
<1>4. CASE Reconnection \/ StartUp
  BY <1>4, BusTypes DEF Reconnection, StartUp
<1> QED
  BY <1>1, <1>2, <1>3, <1>4
-----------------------------------------------------------------------------
\* At the start nothing is on its way and nothing was sent.
LEMMA MailInit == Init => MailInv
  BY DEF Init, BusInit, MailInv, PlaceInv, ToldInv, OnceInv, EveryoneIsTold, Settled

\* The event that is published is new to the queue, and its emails are unsent.
LEMMA PublishMail ==
    ASSUME TypeOK, MailInv, NEW e \in Events, PublishEvent(e)
    PROVE  MailInv'
<1> USE DEF TypeOK, BusTypeOK, MailInv, workVars, mailVars
<1>1. UNCHANGED <<unacked, link, attached, task, doing, pending, sent, skipped, failed, again>>
  BY DEF PublishEvent, Publish
<1>2. published' = published \union {e} /\ e \notin published
  BY DEF PublishEvent
<1>3. \A q \in Queues :
         \/ queue'[q] = queue[q] /\ routed'[q] = routed[q]
         \/ /\ e.queue = q
            /\ queue'[q] = queue[q] \union {e} /\ routed'[q] = routed[q] \union {e}
  BY DEF PublishEvent, Publish
<1>4. PlaceInv'
  BY <1>1, <1>2, <1>3 DEF PlaceInv
<1>5. ToldInv'
  <2>1. \A f \in Events : f.queue \in Queues
    BY BusAssumption DEF Event
  <2> QED
    BY <1>1, <1>3, <2>1 DEF ToldInv, EveryoneIsTold, Settled
<1>6. OnceInv'
  BY <1>1, <1>2, <1>3 DEF OnceInv
<1> QED
  BY <1>4, <1>5, <1>6

\* The handler that receives an event has none, and takes it out of the queue.
LEMMA ReceiveMail ==
    ASSUME TypeOK, MailInv, NEW q \in Queues, NEW e \in queue[q], Receive(q, e)
    PROVE  MailInv'
<1> USE DEF TypeOK, BusTypeOK, MailInv, mailVars
<1>1. /\ UNCHANGED <<published, routed, link, attached, sent, skipped, failed, again>>
      /\ queue' = [queue EXCEPT ![q] = @ \ {e}]
      /\ unacked' = [unacked EXCEPT ![q] = {e}]
      /\ doing' = [doing EXCEPT ![q] = e]
      /\ q \in attached /\ unacked[q] = {} /\ task[q] = "idle"
  BY DEF Receive, Deliver, PlaceInv
<1>2. \/ /\ task' = [task EXCEPT ![q] = "mail"]
         /\ pending' = [pending EXCEPT ![q] = MailsOf(e)]
      \/ /\ task' = [task EXCEPT ![q] = "lookup"]
         /\ pending' = pending
  BY DEF Receive
<1>3. PlaceInv'
  BY <1>1, <1>2 DEF PlaceInv
<1>4. ToldInv'
  <2>1. \A f \in Events : Settled(f)' => Settled(f)
    BY <1>1 DEF Settled
  <2> QED
    BY <1>1, <1>2, <2>1 DEF ToldInv, EveryoneIsTold
<1>5. OnceInv'
  <2>1. e \notin again => MailsOf(e) \intersect sent = {}
    BY DEF OnceInv
  <2>2. \A r \in Queues \ {q} : /\ task'[r] = task[r] /\ doing'[r] = doing[r] /\ pending'[r] = pending[r]
                                /\ queue'[r] = queue[r] /\ unacked'[r] = unacked[r]
    BY <1>1, <1>2
  <2>3. /\ doing'[q] = e /\ unacked'[q] = {e} /\ queue'[q] \subseteq queue[q]
        /\ \/ task'[q] = "mail" /\ pending'[q] = MailsOf(e)
           \/ task'[q] = "lookup" /\ pending'[q] = {}
    <3>1. pending[q] = {}
      BY <1>1 DEF OnceInv
    <3> QED
      BY <1>1, <1>2, <3>1
  <2>4. \A f \in Events \ published' : MailsOf(f) \intersect sent' = {}
    BY <1>1 DEF OnceInv
  <2>5. \A r \in Queues : \A f \in queue'[r] \ again' : MailsOf(f) \intersect sent' = {}
    BY <1>1, <2>2, <2>3 DEF OnceInv
  <2> QED
    BY <1>1, <2>1, <2>2, <2>3, <2>4, <2>5 DEF OnceInv
<1> QED
  BY <1>3, <1>4, <1>5

\* Of the parties of an event, those who are found get their email next, and
\* the others are left out.
LEMMA FindMail ==
    ASSUME TypeOK, MailInv, NEW q \in Queues, NEW found \in SUBSET Users, FindUsers(q, found)
    PROVE  MailInv'
<1> USE DEF TypeOK, BusTypeOK, MailInv, busVars
<1>1. /\ UNCHANGED <<published, routed, link, attached, queue, unacked, doing, sent, failed, again>>
      /\ task[q] = "lookup" /\ task' = [task EXCEPT ![q] = "mail"]
      /\ \E mails \in SUBSET MailsOf(doing[q]) :
            /\ pending' = [pending EXCEPT ![q] = mails]
            /\ skipped' = skipped \union (MailsOf(doing[q]) \ mails)
  <2>1. skipped' = skipped \union (MailsOf(doing[q]) \ {m \in MailsOf(doing[q]) : Recipient(m) \in found})
    BY DEF FindUsers
  <2> QED
    BY <2>1 DEF FindUsers
<1>2. PlaceInv'
  BY <1>1 DEF PlaceInv
<1>3. ToldInv'
  BY <1>1 DEF ToldInv, EveryoneIsTold, Settled
<1>4. OnceInv'
  BY <1>1 DEF OnceInv
<1> QED
  BY <1>2, <1>3, <1>4

\* What is sent is of this handler's event, which no one else will send, unless
\* it was taken back.
LEMMA SendingMail ==
    ASSUME TypeOK, MailInv, NEW q \in Queues, NEW m \in pending[q], SendMail(q, m)
    PROVE  MailInv'
<1> USE DEF TypeOK, BusTypeOK, MailInv, busVars
<1>1. /\ UNCHANGED <<published, routed, link, attached, queue, unacked, task, doing, skipped, failed, again>>
      /\ task[q] = "mail"
      /\ sent' = sent \union {m}
      /\ pending' = [pending EXCEPT ![q] = @ \ {m}]
  BY DEF SendMail, Current
<1>2. PlaceInv'
  BY <1>1 DEF PlaceInv
<1>3. ToldInv'
  BY <1>1 DEF ToldInv, EveryoneIsTold, Settled
<1>4. OnceInv'
  <2>1. m \in MailsOf(doing[q]) /\ doing[q] \in Events /\ doing[q] \in published /\ doing[q].queue = q
    BY <1>1 DEF OnceInv, PlaceInv
  <2>2. \A e \in Events \ {doing[q]} : m \notin MailsOf(e)
    BY <2>1, MailFacts
  <2>3. \A e \in Events \ published : MailsOf(e) \intersect sent' = {}
    BY <1>1, <2>1, <2>2 DEF OnceInv
  <2>4. \A r \in Queues : \A e \in queue[r] \ again : MailsOf(e) \intersect sent' = {}
    <3>1. ASSUME NEW r \in Queues, NEW e \in queue[r] \ again PROVE e # doing[q]
      BY <1>1, <2>1 DEF OnceInv, PlaceInv
    <3> QED
      BY <1>1, <2>2, <3>1 DEF OnceInv
  <2>5. ASSUME NEW r \in Queues, task[r] # "idle", doing[r] \notin again
        PROVE  /\ task[r] = "lookup" => MailsOf(doing[r]) \intersect sent' = {}
               /\ pending'[r] \intersect sent' = {}
    <3>1. CASE r = q
      BY <1>1, <2>5, <3>1 DEF OnceInv
    <3>2. CASE r # q
      <4>1. doing[r] \in Events /\ doing[r] # doing[q]
        BY <2>1, <2>5, <3>2 DEF PlaceInv
      <4>2. m \notin MailsOf(doing[r])
        BY <2>2, <4>1
      <4>3. pending[r] \subseteq MailsOf(doing[r])
        BY <2>5 DEF OnceInv
      <4> QED
        BY <1>1, <2>5, <3>2, <4>2, <4>3 DEF OnceInv
    <3> QED
      BY <3>1, <3>2
  <2> QED
    BY <1>1, <2>3, <2>4, <2>5 DEF OnceInv
<1> QED
  BY <1>2, <1>3, <1>4

\* An event that is over leaves the queue, with all its emails dealt with or
\* with its handler failed.
LEMMA SettleMail ==
    ASSUME TypeOK, MailInv, NEW q \in Queues,
           Acknowledge(q) \/ \E m \in pending[q] : MailFails(q, m)
    PROVE  MailInv'
<1> USE DEF TypeOK, BusTypeOK, MailInv
<1> DEFINE e == doing[q]
<1>1. /\ UNCHANGED <<published, routed, queue, link, attached, skipped>>
      /\ task[q] = "mail" /\ e \in unacked[q]
      /\ unacked' = [unacked EXCEPT ![q] = @ \ {e}]
      /\ task' = [task EXCEPT ![q] = "idle"]
      /\ doing' = [doing EXCEPT ![q] = None]
      /\ pending' = [pending EXCEPT ![q] = {}]
      /\ again' = again \ {e}
  BY DEF Acknowledge, MailFails, Current, Reject, Settle, Finish, mailVars
<1>2. /\ sent \subseteq sent' /\ sent' \subseteq sent \union MailsOf(e)
      /\ \/ pending[q] = {} /\ failed' = failed
         \/ failed' = failed \union {e}
  <2>1. pending[q] \subseteq MailsOf(e)
    BY <1>1 DEF OnceInv
  <2> QED
    BY <2>1 DEF Acknowledge, MailFails, mailVars
<1>3. e \in Events /\ e \in published /\ e.queue = q /\ e \notin queue[q] /\ unacked[q] = {e}
  BY <1>1 DEF PlaceInv
<1>4. PlaceInv'
  BY <1>1, <1>3 DEF PlaceInv
<1>5. ToldInv'
  <2>1. e \in failed' \/ MailsOf(e) \subseteq sent' \union skipped'
    BY <1>1, <1>2 DEF ToldInv
  <2>2. \A f \in Events \ {e} : Settled(f)' => Settled(f)
    BY <1>1, <1>3 DEF Settled, PlaceInv
  <2>3. EveryoneIsTold'
    BY <1>1, <1>2, <2>1, <2>2 DEF EveryoneIsTold, ToldInv
  <2> QED
    BY <1>1, <1>2, <2>3 DEF ToldInv
<1>6. OnceInv'
  <2>1. \A f \in Events \ {e} : MailsOf(f) \intersect sent = MailsOf(f) \intersect sent'
    BY <1>2, <1>3, MailFacts
  <2>2. \A f \in Events \ published' : MailsOf(f) \intersect sent' = {}
    BY <1>1, <1>3, <2>1 DEF OnceInv
  <2>3. \A r \in Queues : \A f \in queue'[r] \ again' : MailsOf(f) \intersect sent' = {}
    <3>1. ASSUME NEW r \in Queues, NEW f \in queue[r] PROVE f \in Events \ {e}
      BY <1>3 DEF PlaceInv
    <3> QED
      BY <1>1, <2>1, <3>1 DEF OnceInv
  <2>4. ASSUME NEW r \in Queues \ {q}, task[r] # "idle"
        PROVE  /\ doing[r] \in Events \ {e}
               /\ pending[r] \intersect sent = pending[r] \intersect sent'
    <3>1. doing[r] \in Events \ {e}
      BY <1>3, <2>4 DEF PlaceInv
    <3>2. pending[r] \subseteq MailsOf(doing[r])
      BY <2>4 DEF OnceInv
    <3> QED
      BY <1>2, <2>1, <3>1, <3>2
  <2> QED
    BY <1>1, <2>1, <2>2, <2>3, <2>4 DEF OnceInv
<1> QED
  BY <1>4, <1>5, <1>6

\* What the broker takes back is marked, and no event is over by that.
LEMMA TakeBackMail ==
    ASSUME TypeOK, MailInv, UNCHANGED <<published, mailVars>>,
           \/ TakeBack("closed") /\ UNCHANGED workVars
           \/ Exit
    PROVE  MailInv'
<1> USE Places DEF TypeOK, BusTypeOK, MailInv, mailVars, workVars
<1>1. /\ UNCHANGED <<bound, routed>>
      /\ attached' = {}
      /\ queue' = [r \in Queues |-> queue[r] \union unacked[r]]
      /\ unacked' = [r \in Queues |-> {}]
      /\ again' = again \union UNION {unacked[r] : r \in Queues}
  BY DEF Exit, TakeBack, Detach
<1>2. \/ UNCHANGED <<task, doing, pending>> /\ link'["notification"] # "down"
      \/ /\ task' = [r \in Queues |-> "idle"]
         /\ pending' = [r \in Queues |-> {}]
  BY DEF Exit, TakeBack, Detach
<1>3. \A r \in Queues : unacked[r] \subseteq again'
  BY <1>1
<1>4. PlaceInv'
  BY <1>1, <1>2 DEF PlaceInv
<1>5. ToldInv'
  <2>1. \A f \in Events : Settled(f)' => Settled(f)
    <3>1. \A f \in Events : f.queue \in Queues
      BY BusAssumption DEF Event
    <3> QED
      BY <1>1, <3>1 DEF Settled
  <2> QED
    BY <1>1, <1>2, <2>1 DEF ToldInv, EveryoneIsTold
<1>6. OnceInv'
  BY <1>1, <1>2, <1>3 DEF OnceInv
<1> QED
  BY <1>4, <1>5, <1>6

\* A new connection, or a new process, finds what the old one left.
LEMMA LinkMail ==
    ASSUME TypeOK, MailInv, Reconnection \/ StartUp
    PROVE  MailInv'
<1> USE Places DEF TypeOK, BusTypeOK, MailInv, workVars, mailVars
<1>1. /\ UNCHANGED <<routed, queue, unacked, published, task, doing, pending, sent, skipped, failed, again>>
      /\ link'["notification"] = "open"
  BY DEF Reconnection, StartUp, Reconnect, Start
<1>2. \A r \in Queues : r \in attached' /\ task[r] # "idle" => r \in attached
  BY DEF Reconnection, StartUp, Reconnect, Start, PlaceInv
<1>3. PlaceInv'
  BY <1>1, <1>2 DEF PlaceInv
<1>4. ToldInv' /\ OnceInv'
  BY <1>1 DEF ToldInv, OnceInv, EveryoneIsTold, Settled
<1> QED
  BY <1>3, <1>4
-----------------------------------------------------------------------------
\* Types and emails are right together, at all times.
LEMMA MailInvariant == Spec => [](TypeOK /\ MailInv)
<1>1. Init => TypeOK /\ MailInv
  BY TypeInit, MailInit
<1>2. TypeOK /\ MailInv /\ [Next]_vars => (TypeOK /\ MailInv)'
  <2> SUFFICES ASSUME TypeOK, MailInv, [Next]_vars PROVE TypeOK' /\ MailInv'
    OBVIOUS
  <2>1. ASSUME NEW e \in Events, PublishEvent(e) PROVE TypeOK' /\ MailInv'
    BY <2>1, ServiceTypes, PublishMail
  <2>2. ASSUME NEW q \in Queues, Handler(q) PROVE TypeOK' /\ MailInv'
    <3>1. TypeOK'
      BY <2>2, HandlerTypes DEF MailInv
    <3>2. CASE Acknowledge(q) \/ \E m \in pending[q] : MailFails(q, m)
      BY <3>1, <3>2, SettleMail
    <3>3. CASE StaleChannel(q)
      BY <3>1, <3>3, TakeBackMail DEF StaleChannel
    <3>4. CASE \E e \in queue[q] : Receive(q, e)
      BY <3>1, <3>4, ReceiveMail
    <3>5. CASE \E found \in SUBSET Users : FindUsers(q, found)
      BY <3>1, <3>5, FindMail
    <3>6. CASE \E m \in pending[q] : SendMail(q, m)
      BY <3>1, <3>6, SendingMail
    <3> QED
      BY <2>2, <3>2, <3>3, <3>4, <3>5, <3>6 DEF Handler
  <2>3. CASE ProcessEnds \/ LoseConnection
    BY <2>3, ServiceTypes, TakeBackMail DEF ProcessEnds, LoseConnection
  <2>4. CASE Reconnection \/ StartUp
    BY <2>4, ServiceTypes, LinkMail
  <2>5. CASE UNCHANGED vars
    BY <2>5 DEF vars, busVars, workVars, mailVars, TypeOK, BusTypeOK, MailInv, PlaceInv, ToldInv,
                OnceInv, EveryoneIsTold, Settled
  <2> QED
    BY <2>1, <2>2, <2>3, <2>4, <2>5 DEF Next
<1> QED
  BY <1>1, <1>2, PTL DEF Spec

\* The variables of the bus, the handlers and the emails keep their types.
THEOREM TypeCorrect == Spec => []TypeOK
  BY MailInvariant, PTL

\* Whatever crashes, is lost, or cannot be looked up, no event is over while
\* an email of it is unsent and its recipient was found, except by a failure.
THEOREM NobodyForgotten == Spec => []EveryoneIsTold
<1>1. MailInv => EveryoneIsTold
  BY DEF MailInv, ToldInv
<1> QED
  BY <1>1, MailInvariant, PTL

\* Nobody gets an email a second time, unless the broker took its event back.
THEOREM NoRepeats == Spec => []MailedOnce
<1>1. MailInv => MailedOnce
  BY DEF MailInv, OnceInv, MailedOnce
<1> QED
  BY <1>1, MailInvariant, PTL
=============================================================================
