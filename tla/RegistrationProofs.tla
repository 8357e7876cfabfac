-------------------------- MODULE RegistrationProofs --------------------------
(***************************************************************************)
(* Proofs about UserRegistration for any emails, attempts and faults.      *)
(***************************************************************************)
EXTENDS UserRegistration, TLAPS

\* The event a handler works on reached the queue of the wallet service.
HandlerInv ==
    /\ task # "idle" => doing \in routed["wallet"]
    /\ queue["wallet"] \union unacked["wallet"] \subseteq routed["wallet"]

\* Only users that exist are published, and only what was published is handled.
PublishInv == \A a \in Attempts : pc[a] \in {"publish", "otp"} => a \in accounts

AgreeInv == HandlerInv /\ PublishInv /\ AccountsAgree

\* A handler that is past its INSERT has its wallet, or failed.
HandledInv == task \in {"fetch", "settle"} => doing \in wallets \union failed

LossInv == HandledInv /\ NoEventLost
-----------------------------------------------------------------------------
\* Every variable has its type at the start.
LEMMA TypeInit == Init => TypeOK
  BY FaultsAssumption, BusAssumption
     DEF Init, TypeOK, BusInit, BusTypeOK, Request, Services, Answers, RegisterSteps, GoogleSteps

\* What the bus does keeps the types of its variables.
LEMMA BusTypes ==
    ASSUME BusTypeOK,
           \/ \E e \in Events : Publish(e, Queues) \/ Deliver("wallet", e)
           \/ \E s \in Services : Start(s) \/ Reconnect(s)
           \/ \E s \in Services, state \in {"down", "closed"} : Detach(s, state)
           \/ Settle("wallet", doing)
           \/ UNCHANGED busVars
    PROVE  BusTypeOK'
<1> USE BusAssumption DEF BusTypeOK, Services, QueuesOf
<1>1. CASE \E e \in Events : Publish(e, Queues)
  BY <1>1 DEF Publish
<1>2. CASE \E e \in Events : Deliver("wallet", e)
  BY <1>2 DEF Deliver
<1>3. CASE \E s \in Services : Start(s)
  BY <1>3 DEF Start
<1>4. CASE \E s \in Services : Reconnect(s)
  BY <1>4 DEF Reconnect
<1>5. CASE \E s \in Services, state \in {"down", "closed"} : Detach(s, state)
  <2>1. PICK s \in Services, state \in {"down", "closed"} : Detach(s, state)
    BY <1>5
  <2>2. link' \in [Services -> {"down", "open", "closed"}]
    BY <2>1 DEF Detach
  <2>3. queue' \in [Queues -> SUBSET Events] /\ unacked' \in [Queues -> SUBSET Events]
    BY <2>1 DEF Detach
  <2>4. bound' \subseteq Queues /\ routed' \in [Queues -> SUBSET Events] /\ attached' \subseteq Queues
    BY <2>1 DEF Detach
  <2> QED
    BY <2>2, <2>3, <2>4
<1>6. CASE Settle("wallet", doing)
  BY <1>6 DEF Settle
<1>7. CASE UNCHANGED busVars
  BY <1>7 DEF busVars
<1> QED
  BY <1>1, <1>2, <1>3, <1>4, <1>5, <1>6, <1>7

\* A step of a request keeps the types, whatever it is.
LEMMA AuthTypes ==
    ASSUME TypeOK, NEW a \in Attempts, Arrive(a) \/ AuthStep(a)
    PROVE  TypeOK'
<1> USE DEF TypeOK, authVars, walletVars, workVars, Goto, Respond, Answers, RegisterSteps, GoogleSteps
<1>0. BusTypeOK'
  <2>1. Publish(a, Queues) \/ UNCHANGED busVars
    BY DEF Arrive, AuthStep, FindEmail, CreateUser, PublishRegistered, SendOTP,
           FindLink, FindUser, CreateGoogleUser, CreateLink
  <2> QED
    BY <2>1, BusTypes, BusAssumption
<1>1. CASE Arrive(a)
  BY <1>0, <1>1 DEF Arrive
<1>2. CASE FindEmail(a)
  BY <1>0, <1>2 DEF FindEmail
<1>3. CASE CreateUser(a)
  BY <1>0, <1>3 DEF CreateUser, Create
<1>4. CASE PublishRegistered(a)
  BY <1>0, <1>4 DEF PublishRegistered
<1>5. CASE SendOTP(a)
  BY <1>0, <1>5 DEF SendOTP
<1>6. CASE FindLink(a)
  BY <1>0, <1>6 DEF FindLink
<1>7. CASE FindUser(a)
  BY <1>0, <1>7 DEF FindUser
<1>8. CASE CreateGoogleUser(a)
  BY <1>0, <1>8 DEF CreateGoogleUser, Create
<1>9. CASE CreateLink(a)
  BY <1>0, <1>9 DEF CreateLink
<1> QED
  BY <1>1, <1>2, <1>3, <1>4, <1>5, <1>6, <1>7, <1>8, <1>9 DEF AuthStep

\* So does a step of the wallet service's consumer.
LEMMA ConsumerTypes ==
    ASSUME TypeOK, HandlerInv, ConsumerStep
    PROVE  TypeOK'
<1> USE BusAssumption DEF TypeOK, authVars, walletVars, Proceed, GoesWrong
<1>0. BusTypeOK'
  BY BusTypes DEF ConsumerStep, Receive, WalletSelect, WalletInsert, WalletFetch,
                  HandlerEnds, Services
<1>1. CASE \E e \in Events : Receive(e)
  BY <1>0, <1>1 DEF Receive
<1>2. CASE WalletSelect
  <2>1. doing \in Attempts
    BY <1>2 DEF WalletSelect, HandlerInv, BusTypeOK
  <2> QED
    BY <1>0, <1>2, <2>1 DEF WalletSelect
<1>3. CASE WalletInsert
  <2>1. doing \in Attempts
    BY <1>3 DEF WalletInsert, HandlerInv, BusTypeOK
  <2> QED
    BY <1>0, <1>3, <2>1 DEF WalletInsert
<1>4. CASE WalletFetch
  BY <1>0, <1>4 DEF WalletFetch
<1>5. CASE HandlerEnds
  BY <1>0, <1>5 DEF HandlerEnds
<1> QED
  BY <1>1, <1>2, <1>3, <1>4, <1>5 DEF ConsumerStep

\* And so do the beginnings and the ends of processes and connections.
LEMMA ServiceTypes ==
    ASSUME TypeOK,
           NEW s \in Services,
           StartUp(s) \/ ProcessEnds(s) \/ LoseConnection(s) \/ Reconnection(s) \/ Migrate
    PROVE  TypeOK'
<1> USE BusAssumption DEF TypeOK, authVars, walletVars, workVars
<1>0. BusTypeOK'
  BY BusTypes DEF StartUp, ProcessEnds, LoseConnection, Reconnection, Migrate
<1>1. CASE StartUp(s) \/ LoseConnection(s) \/ Reconnection(s)
  BY <1>0, <1>1 DEF StartUp, LoseConnection, Reconnection
<1>2. CASE ProcessEnds(s)
  BY <1>0, <1>2 DEF ProcessEnds, AbandonRequests, AbandonWork, Answers, RegisterSteps, GoogleSteps
<1>3. CASE Migrate
  BY <1>0, <1>3 DEF Migrate
<1> QED
  BY <1>1, <1>2, <1>3
-----------------------------------------------------------------------------
\* At the start there are no users, events or wallets.
LEMMA AgreeInit == Init => AgreeInv
  BY BusAssumption, NoneAssumption
     DEF Init, BusInit, AgreeInv, HandlerInv, PublishInv, AccountsAgree

\* Requests create users under unique UPI ids, and publish them afterwards.
LEMMA AuthAgrees ==
    ASSUME TypeOK, AgreeInv, NEW a \in Attempts, Arrive(a) \/ AuthStep(a)
    PROVE  AgreeInv'
<1> USE BusAssumption
    DEF TypeOK, AgreeInv, HandlerInv, PublishInv, AccountsAgree, authVars, walletVars, workVars,
        busVars, Goto, Respond, Email, Handle
<1>1. CASE Arrive(a)
  BY <1>1 DEF Arrive
<1>2. CASE FindEmail(a)
  BY <1>2 DEF FindEmail
<1>3. CASE CreateUser(a) \/ CreateGoogleUser(a)
  <2>1. UNCHANGED <<busVars, request, oauth, walletVars, workVars>>
    BY <1>3 DEF CreateUser, CreateGoogleUser
  <2>2. \/ UNCHANGED accounts
        \/ /\ \A b \in accounts : Handle(b) # Handle(a)
           /\ accounts' = accounts \union {a}
    BY <1>3 DEF CreateUser, CreateGoogleUser, Create
  <2>3. \A b \in Attempts : pc'[b] \in {"publish", "otp"} => b \in accounts'
    BY <1>3 DEF CreateUser, CreateGoogleUser, Create
  <2> QED
    BY <2>1, <2>2, <2>3
<1>4. CASE PublishRegistered(a)
  <2>1. a \in accounts
    BY <1>4 DEF PublishRegistered
  <2>2. \/ UNCHANGED busVars
        \/ /\ unacked' = unacked
           /\ \/ queue' = queue /\ routed' = routed
              \/ /\ queue' = [queue EXCEPT !["wallet"] = @ \union {a}]
                 /\ routed' = [routed EXCEPT !["wallet"] = @ \union {a}]
    BY <1>4 DEF PublishRegistered, Publish, BusTypeOK
  <2> QED
    BY <1>4, <2>1, <2>2 DEF PublishRegistered, BusTypeOK
<1>5. CASE SendOTP(a)
  BY <1>5 DEF SendOTP
<1>6. CASE FindLink(a) \/ FindUser(a)
  BY <1>6 DEF FindLink, FindUser
<1>7. CASE CreateLink(a)
  BY <1>7 DEF CreateLink
<1> QED
  BY <1>1, <1>2, <1>3, <1>4, <1>5, <1>6, <1>7 DEF AuthStep

\* The consumer makes wallets of published users only.
LEMMA ConsumerAgrees ==
    ASSUME TypeOK, AgreeInv, ConsumerStep
    PROVE  AgreeInv'
<1> USE BusAssumption
    DEF TypeOK, BusTypeOK, AgreeInv, HandlerInv, PublishInv, AccountsAgree, authVars, walletVars,
        busVars, Proceed, GoesWrong, Email, Handle
<1>1. CASE \E e \in Events : Receive(e)
  BY <1>1 DEF Receive, Deliver
<1>2. CASE WalletSelect \/ WalletInsert \/ WalletFetch
  BY <1>2 DEF WalletSelect, WalletInsert, WalletFetch
<1>3. CASE HandlerEnds
  BY <1>3 DEF HandlerEnds, Settle, Detach, QueuesOf
<1> QED
  BY <1>1, <1>2, <1>3 DEF ConsumerStep

\* Processes and connections that come and go create and rename nobody.
LEMMA ServiceAgrees ==
    ASSUME TypeOK, AgreeInv,
           NEW s \in Services,
           StartUp(s) \/ ProcessEnds(s) \/ LoseConnection(s) \/ Reconnection(s) \/ Migrate
    PROVE  AgreeInv'
<1> USE BusAssumption
    DEF TypeOK, BusTypeOK, Services, AgreeInv, HandlerInv, PublishInv, AccountsAgree, authVars,
        walletVars, workVars, busVars, Email, Handle
<1>1. CASE StartUp(s) \/ Reconnection(s) \/ Migrate
  BY <1>1 DEF StartUp, Start, QueuesOf, Reconnection, Reconnect, Migrate
<1>2. CASE LoseConnection(s)
  BY <1>2 DEF LoseConnection, Detach, QueuesOf
<1>3. CASE ProcessEnds(s)
  BY <1>3 DEF ProcessEnds, Detach, QueuesOf, AbandonRequests, AbandonWork
<1> QED
  BY <1>1, <1>2, <1>3

\* Types and agreement hold together at all times.
LEMMA AgreeInvariant == Spec => [](TypeOK /\ AgreeInv)
<1>1. Init => TypeOK /\ AgreeInv
  BY TypeInit, AgreeInit
<1>2. TypeOK /\ AgreeInv /\ [Next]_vars => (TypeOK /\ AgreeInv)'
  <2> SUFFICES ASSUME TypeOK, AgreeInv, [Next]_vars PROVE TypeOK' /\ AgreeInv'
    OBVIOUS
  <2>1. ASSUME NEW a \in Attempts, Arrive(a) \/ AuthStep(a) PROVE TypeOK' /\ AgreeInv'
    BY <2>1, AuthTypes, AuthAgrees
  <2>2. CASE ConsumerStep
    BY <2>2, ConsumerTypes, ConsumerAgrees DEF AgreeInv
  <2>3. ASSUME NEW s \in Services,
               StartUp(s) \/ ProcessEnds(s) \/ LoseConnection(s) \/ Reconnection(s) \/ Migrate
        PROVE  TypeOK' /\ AgreeInv'
    BY <2>3, ServiceTypes, ServiceAgrees
  <2>4. CASE UNCHANGED vars
    BY <2>4 DEF vars, busVars, authVars, walletVars, workVars, TypeOK, BusTypeOK, AgreeInv,
                HandlerInv, PublishInv, AccountsAgree, Email, Handle
  <2>5. Services # {}
    BY DEF Services
  <2> QED
    BY <2>1, <2>2, <2>3, <2>4, <2>5 DEF Next
<1> QED
  BY <1>1, <1>2, PTL DEF Spec

\* The variables of the bus, the requests and the consumer keep their types.
THEOREM TypeCorrect == Spec => []TypeOK
  BY AgreeInvariant, PTL

\* However registrations, Google sign-ins, redeliveries and crashes interleave,
\* every wallet is a registered user's, and no UPI id has two users.
THEOREM NoForeignWallet == Spec => []AccountsAgree
<1>1. AgreeInv => AccountsAgree
  BY DEF AgreeInv
<1> QED
  BY <1>1, AgreeInvariant, PTL
-----------------------------------------------------------------------------
\* At the start nothing was routed.
LEMMA LossInit == Init => LossInv
  BY BusAssumption DEF Init, BusInit, LossInv, HandledInv, NoEventLost, Kept

\* No step loses an event but the end of a handler that failed.
LEMMA LossStep == TypeOK /\ AgreeInv /\ LossInv /\ [Next]_vars => LossInv'
<1> SUFFICES ASSUME TypeOK, AgreeInv, LossInv, [Next]_vars PROVE LossInv'
  OBVIOUS
<1> USE BusAssumption
    DEF TypeOK, BusTypeOK, Services, LossInv, HandledInv, NoEventLost, Kept, authVars, walletVars,
        workVars, busVars
<1>1. ASSUME NEW a \in Attempts, Arrive(a) \/ AuthStep(a) PROVE LossInv'
  <2>1. UNCHANGED <<walletVars, workVars>>
    BY <1>1 DEF Arrive, AuthStep, FindEmail, CreateUser, PublishRegistered, SendOTP,
                FindLink, FindUser, CreateGoogleUser, CreateLink
  <2>2. Publish(a, Queues) \/ UNCHANGED busVars
    BY <1>1 DEF Arrive, AuthStep, FindEmail, CreateUser, PublishRegistered, SendOTP,
                FindLink, FindUser, CreateGoogleUser, CreateLink
  <2> QED
    BY <2>1, <2>2 DEF Publish
<1>2. CASE ConsumerStep
  <2>1. CASE \E e \in Events : Receive(e)
    BY <2>1 DEF Receive, Deliver
  <2>2. CASE WalletSelect
    BY <2>2 DEF WalletSelect, Proceed, GoesWrong
  <2>3. CASE WalletInsert
    <3>1. UNCHANGED <<busVars, doing>> /\ wallets \subseteq wallets' /\ failed \subseteq failed'
      BY <2>3 DEF WalletInsert, Proceed, GoesWrong
    <3>2. doing \in accounts /\ wallets \subseteq accounts
      BY <2>3 DEF WalletInsert, AgreeInv, HandlerInv, AccountsAgree
    <3>3. doing \in wallets' \union failed'
      BY <2>3, <3>2 DEF WalletInsert, GoesWrong, AgreeInv, AccountsAgree
    <3> QED
      BY <3>1, <3>3
  <2>4. CASE WalletFetch
    BY <2>4 DEF WalletFetch, Proceed
  <2>5. CASE HandlerEnds
    <3>1. doing \in wallets \union failed
      BY <2>5 DEF HandlerEnds
    <3> QED
      BY <2>5, <3>1 DEF HandlerEnds, Settle, Detach, QueuesOf
  <2> QED
    BY <1>2, <2>1, <2>2, <2>3, <2>4, <2>5 DEF ConsumerStep
<1>3. ASSUME NEW s \in Services,
             StartUp(s) \/ ProcessEnds(s) \/ LoseConnection(s) \/ Reconnection(s)
      PROVE  LossInv'
  <2>1. CASE StartUp(s) \/ Reconnection(s)
    BY <2>1 DEF StartUp, Start, QueuesOf, Reconnection, Reconnect
  <2>2. CASE LoseConnection(s)
    BY <2>2 DEF LoseConnection, Detach, QueuesOf
  <2>3. CASE ProcessEnds(s)
    BY <2>3 DEF ProcessEnds, Detach, QueuesOf, AbandonWork
  <2> QED
    BY <1>3, <2>1, <2>2, <2>3
<1>4. CASE Migrate
  BY <1>4 DEF Migrate
<1>5. CASE UNCHANGED vars
  BY <1>5 DEF vars
<1> QED
  BY <1>1, <1>2, <1>3, <1>4, <1>5 DEF Next

\* Whatever fails, crashes or loses its connection, and whether the service has
\* migrated or not, an event that reached the wallet service's queue is there or
\* in its hands until the wallet exists, or its handler failed.
THEOREM EventsSurvive == Spec => []NoEventLost
<1>1. LossInv => NoEventLost
  BY DEF LossInv
<1> QED
  BY <1>1, LossInit, LossStep, AgreeInvariant, PTL DEF Spec

\* A migrated service whose database answers fails at no event.
HealthyInv == deployed /\ migrated /\ failed = {}

\* Nothing but MySQL and a missing table makes a handler fail.
LEMMA HealthyStep ==
    ASSUME "mysql" \notin Faults
    PROVE  HealthyInv /\ [Next]_vars => HealthyInv'
<1> SUFFICES ASSUME HealthyInv, [Next]_vars PROVE HealthyInv'
  OBVIOUS
<1> USE DEF HealthyInv, authVars, walletVars, workVars, busVars
<1>1. ASSUME NEW a \in Attempts, Arrive(a) \/ AuthStep(a) PROVE HealthyInv'
  BY <1>1 DEF Arrive, AuthStep, FindEmail, CreateUser, PublishRegistered, SendOTP,
              FindLink, FindUser, CreateGoogleUser, CreateLink
<1>2. CASE ConsumerStep
  BY <1>2 DEF ConsumerStep, Receive, WalletSelect, WalletInsert, WalletFetch, HandlerEnds, Proceed
<1>3. ASSUME NEW s \in Services,
             StartUp(s) \/ ProcessEnds(s) \/ LoseConnection(s) \/ Reconnection(s)
      PROVE  HealthyInv'
  BY <1>3 DEF StartUp, ProcessEnds, AbandonWork, LoseConnection, Reconnection
<1>4. CASE Migrate
  BY <1>4 DEF Migrate
<1>5. CASE UNCHANGED vars
  BY <1>5 DEF vars
<1> QED
  BY <1>1, <1>2, <1>3, <1>4, <1>5 DEF Next

\* A service that has migrated, and whose database answers, keeps every event
\* until its wallet exists, and says "Wallet created" only of wallets.  Without
\* the tables createWallet throws and its event is dropped, and a failing INSERT
\* is logged as a wallet: both hypotheses are needed.
THEOREM HealthyKeepsAll ==
    ASSUME "mysql" \notin Faults, Pasts = {TRUE}
    PROVE  Spec => [](FailedEventsKept /\ FetchedIsInserted)
<1>1. Init => HealthyInv
  BY DEF Init, HealthyInv
<1>2. HealthyInv /\ [Next]_vars => HealthyInv'
  BY HealthyStep
<1>3. LossInv /\ HealthyInv => FailedEventsKept /\ FetchedIsInserted
  BY DEF LossInv, HealthyInv, HandledInv, NoEventLost, FailedEventsKept, FetchedIsInserted
<1>4. Spec => []LossInv
  BY LossInit, LossStep, AgreeInvariant, PTL DEF Spec
<1> QED
  BY <1>1, <1>2, <1>3, <1>4, PTL DEF Spec
-----------------------------------------------------------------------------
\* The queue exists, and a request is past its publication, or told of success,
\* only if its event entered the queue.
CreatedInv ==
    /\ bound = Queues
    /\ \A a \in Attempts : pc[a] = "otp" \/ answer[a] = "created" => a \in routed["wallet"]

\* Only a dying connection takes an event without keeping it.
LEMMA CreatedStep ==
    ASSUME "connection" \notin Faults
    PROVE  TypeOK /\ CreatedInv /\ [Next]_vars => CreatedInv'
<1> SUFFICES ASSUME TypeOK, CreatedInv, [Next]_vars PROVE CreatedInv'
  OBVIOUS
<1> USE BusAssumption, PublisherAssumption
    DEF TypeOK, BusTypeOK, CreatedInv, authVars, walletVars, workVars, busVars
<1>1. ASSUME NEW a \in Attempts, Arrive(a) \/ AuthStep(a) PROVE CreatedInv'
  <2> USE DEF Goto, Respond
  <2>1. CASE Arrive(a)
    BY <2>1 DEF Arrive
  <2>2. CASE FindEmail(a) \/ SendOTP(a) \/ FindLink(a) \/ FindUser(a) \/ CreateLink(a)
    BY <2>2 DEF FindEmail, SendOTP, FindLink, FindUser, CreateLink
  <2>3. CASE CreateUser(a) \/ CreateGoogleUser(a)
    BY <2>3 DEF CreateUser, CreateGoogleUser, Create
  <2>4. CASE PublishRegistered(a)
    BY <2>4 DEF PublishRegistered, Publish
  <2> QED
    BY <1>1, <2>1, <2>2, <2>3, <2>4 DEF AuthStep
<1>2. CASE ConsumerStep
  <2>1. CASE \E e \in Events : Receive(e)
    BY <2>1 DEF Receive, Deliver
  <2>2. CASE WalletSelect \/ WalletInsert \/ WalletFetch
    BY <2>2 DEF WalletSelect, WalletInsert, WalletFetch
  <2>3. CASE HandlerEnds
    BY <2>3 DEF HandlerEnds, Settle, Detach
  <2> QED
    BY <1>2, <2>1, <2>2, <2>3 DEF ConsumerStep
<1>3. ASSUME NEW s \in Services,
             StartUp(s) \/ ProcessEnds(s) \/ LoseConnection(s) \/ Reconnection(s)
      PROVE  CreatedInv'
  <2>1. CASE StartUp(s) \/ Reconnection(s)
    BY <2>1 DEF StartUp, Start, QueuesOf, Reconnection, Reconnect
  <2>2. CASE LoseConnection(s)
    BY <2>2 DEF LoseConnection
  <2>3. CASE ProcessEnds(s)
    BY <2>3 DEF ProcessEnds, Detach, AbandonRequests
  <2> QED
    BY <1>3, <2>1, <2>2, <2>3
<1>4. CASE Migrate
  BY <1>4 DEF Migrate
<1>5. CASE UNCHANGED vars
  BY <1>5 DEF vars
<1> QED
  BY <1>1, <1>2, <1>3, <1>4, <1>5 DEF Next

\* What a client was told of its registration comes true: its event waits, is
\* being handled, or has its wallet, unless the handler of the event failed.
\* Requests and both services may crash at any point, and MongoDB, MySQL and the
\* mail server may fail.  A lost connection and a queue not declared yet are the
\* two ways to lose an event before it is queued.
THEOREM CreatedGetsWallet ==
    ASSUME "connection" \notin Faults, Pasts = {TRUE}
    PROVE  Spec => []CreatedIsKept
<1>1. Init => CreatedInv
  BY BusAssumption DEF Init, BusInit, CreatedInv
<1>2. TypeOK /\ CreatedInv /\ [Next]_vars => CreatedInv'
  BY CreatedStep
<1>3. CreatedInv /\ NoEventLost => CreatedIsKept
  BY DEF CreatedInv, NoEventLost, CreatedIsKept
<1> QED
  BY <1>1, <1>2, <1>3, TypeCorrect, EventsSurvive, PTL DEF Spec
=============================================================================
