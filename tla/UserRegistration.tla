--------------------------- MODULE UserRegistration ---------------------------
(***************************************************************************)
(* From a registration to a wallet: AuthService.register and the Google    *)
(* sign-in, await by await, the user.registered event on the bus, and      *)
(* WalletService.createWallet, which consumes it.  Registrations run       *)
(* concurrently; connections are lost, processes crash and start again,    *)
(* statements and emails fail.                                             *)
(***************************************************************************)
EXTENDS EventBus

CONSTANTS Emails,    \* email addresses
          HandleOf,  \* HandleOf[m]: the UPI id the user model derives from m
          Attempts,  \* requests, each handled once; an account is named by its own
          None,      \* no account
          Faults,    \* what may go wrong
          Pasts      \* may, or must, the services have run before?

ASSUME FaultsAssumption ==
    Faults \subseteq {"connection", "crash", "mongo", "mysql", "mail"} /\ Pasts \subseteq BOOLEAN
ASSUME BusAssumption ==
    /\ Queues = {"wallet"} /\ Owner = [q \in Queues |-> q]
    /\ Publisher = "auth"
    /\ Events = Attempts
ASSUME NoneAssumption == None \notin Attempts

VARIABLES
    request,   \* request[a]: a password registration or a Google sign-in
    pc,        \* pc[a]: the statement a runs next
    answer,    \* answer[a]: what the client of a was told
    accounts,  \* the users in MongoDB
    oauth,     \* oauth[m]: the account a Google identity is linked to
    deployed,  \* had the services run, and migrated, before?  Never changes.
    migrated,  \* does the table wallets exist?
    wallets,   \* the accounts with a wallet
    task,      \* the statement the wallet service's handler runs next
    doing,     \* the event it handles
    failed     \* history: the events whose handler failed to look up or insert

authVars == <<request, pc, answer, accounts, oauth>>
walletVars == <<deployed, migrated, wallets>>
workVars == <<task, doing, failed>>
vars == <<busVars, authVars, walletVars, workVars>>

Request == [kind : {"register", "google"}, email : Emails]
RegisterSteps == {"find", "create", "publish", "otp"}
GoogleSteps == {"findLink", "findUser", "createUser", "createLink"}
Answers == {"none", "created", "signedIn", "taken", "error", "lost"}

TypeOK ==
    /\ BusTypeOK
    /\ request \in [Attempts -> Request]
    /\ pc \in [Attempts -> {"idle", "done"} \union RegisterSteps \union GoogleSteps]
    /\ answer \in [Attempts -> Answers]
    /\ accounts \subseteq Attempts
    /\ oauth \in [Emails -> Attempts \union {None}]
    /\ deployed \in BOOLEAN /\ migrated \in BOOLEAN
    /\ wallets \subseteq Attempts
    /\ task \in {"idle", "select", "insert", "fetch", "settle"}
    /\ doing \in Attempts \union {None}
    /\ failed \subseteq Attempts

Init ==
    /\ deployed \in Pasts
    /\ BusInit(deployed)
    /\ request \in [Attempts -> Request]
    /\ pc = [a \in Attempts |-> "idle"]
    /\ answer = [a \in Attempts |-> "none"]
    /\ accounts = {}
    /\ oauth = [m \in Emails |-> None]
    /\ migrated = deployed
    /\ wallets = {}
    /\ task = "idle"
    /\ doing = None
    /\ failed = {}
-----------------------------------------------------------------------------
Email(a) == request[a].email
Handle(a) == HandleOf[Email(a)]

Goto(a, label) == pc' = [pc EXCEPT ![a] = label] /\ UNCHANGED answer
Respond(a, what) ==
    /\ pc' = [pc EXCEPT ![a] = "done"]
    /\ answer' = [answer EXCEPT ![a] = what]

\* A request reaches the auth service.
Arrive(a) ==
    /\ pc[a] = "idle"
    /\ link["auth"] # "down"
    /\ Goto(a, IF request[a].kind = "register" THEN "find" ELSE "findLink")
    /\ UNCHANGED <<busVars, request, accounts, oauth, walletVars, workVars>>

\* Mutant: User.create without unique indexes.
CreateUnchecked(a, next) ==
    /\ accounts' = accounts \union {a}
    /\ Goto(a, next)

\* User.create.  The unique indexes of the emails and the UPI ids refuse a
\* second user; as the email determines the UPI id, the latter decides.
Create(a, next) ==
    \/ /\ \A b \in accounts : Handle(b) # Handle(a)
       /\ accounts' = accounts \union {a}
       /\ Goto(a, next) \/ ("mongo" \in Faults /\ Respond(a, "error"))
    \/ /\ (\E b \in accounts : Handle(b) = Handle(a)) \/ "mongo" \in Faults
       /\ Respond(a, "error")
       /\ UNCHANGED accounts

FindEmail(a) ==
    /\ pc[a] = "find"
    /\ \/ (\E b \in accounts : Email(b) = Email(a)) /\ Respond(a, "taken")
       \/ (\A b \in accounts : Email(b) # Email(a)) /\ Goto(a, "create")
       \/ "mongo" \in Faults /\ Respond(a, "error")
    /\ UNCHANGED <<busVars, request, accounts, oauth, walletVars, workVars>>

CreateUser(a) ==
    /\ pc[a] = "create"
    /\ Create(a, "publish")
    /\ UNCHANGED <<busVars, request, oauth, walletVars, workVars>>

\* publish('user.registered').  On a closed channel it throws; on a dying
\* connection the event is lost and nobody notices.
PublishRegistered(a) ==
    /\ pc[a] = "publish"
    /\ \/ Publish(a, Queues) /\ Goto(a, "otp")
       \/ "connection" \in Faults /\ link["auth"] = "open" /\ Goto(a, "otp") /\ UNCHANGED busVars
       \/ link["auth"] # "open" /\ Respond(a, "error") /\ UNCHANGED busVars
    /\ UNCHANGED <<request, accounts, oauth, walletVars, workVars>>

\* _sendOTP for the verification of the email, then the answer.
SendOTP(a) ==
    /\ pc[a] = "otp"
    /\ \/ Respond(a, "created")
       \/ {"mail", "mongo"} \intersect Faults # {} /\ Respond(a, "error")
    /\ UNCHANGED <<busVars, request, accounts, oauth, walletVars, workVars>>

\* The Google strategy: the account its identity is linked to, else the user
\* with its email, else a new one.  None of this is published.
FindLink(a) ==
    /\ pc[a] = "findLink"
    /\ \/ oauth[Email(a)] # None /\ Respond(a, "signedIn")
       \/ oauth[Email(a)] = None /\ Goto(a, "findUser")
       \/ "mongo" \in Faults /\ Respond(a, "error")
    /\ UNCHANGED <<busVars, request, accounts, oauth, walletVars, workVars>>

FindUser(a) ==
    /\ pc[a] = "findUser"
    /\ \/ (\E b \in accounts : Email(b) = Email(a)) /\ Goto(a, "createLink")
       \/ (\A b \in accounts : Email(b) # Email(a)) /\ Goto(a, "createUser")
       \/ "mongo" \in Faults /\ Respond(a, "error")
    /\ UNCHANGED <<busVars, request, accounts, oauth, walletVars, workVars>>

CreateGoogleUser(a) ==
    /\ pc[a] = "createUser"
    /\ Create(a, "createLink")
    /\ UNCHANGED <<busVars, request, oauth, walletVars, workVars>>

\* Mutant: the identity is linked to its email instead of the user's id.
LinkToEmail(a) ==
    LET m == Email(a) IN
    /\ pc[a] = "createLink"
    /\ oauth' = [oauth EXCEPT ![m] = m]
    /\ Respond(a, "signedIn")
    /\ UNCHANGED <<busVars, request, accounts, walletVars, workVars>>

\* OAuthAccount.create; its identity is unique.
CreateLink(a) ==
    LET m == Email(a) IN
    /\ pc[a] = "createLink"
    /\ \/ /\ oauth[m] = None
          /\ \E b \in accounts : Email(b) = m /\ oauth' = [oauth EXCEPT ![m] = b]
          /\ Respond(a, "signedIn") \/ ("mongo" \in Faults /\ Respond(a, "error"))
       \/ /\ oauth[m] # None \/ "mongo" \in Faults
          /\ Respond(a, "error")
          /\ UNCHANGED oauth
    /\ UNCHANGED <<busVars, request, accounts, walletVars, workVars>>
-----------------------------------------------------------------------------
Proceed(label) == task' = label /\ UNCHANGED <<doing, failed>>
GoesWrong(label) == task' = label /\ failed' = failed \union {doing} /\ UNCHANGED doing

\* The callback of consume is called with an event.
Receive(e) ==
    /\ Deliver("wallet", e)
    /\ task' = "select"
    /\ doing' = e
    /\ UNCHANGED <<authVars, walletVars, failed>>

\* createWallet: has the user a wallet?  The SELECT throws if it fails, or
\* there is no table yet.
WalletSelect ==
    /\ task = "select"
    /\ \/ migrated /\ Proceed(IF doing \in wallets THEN "settle" ELSE "insert")
       \/ (~migrated \/ "mysql" \in Faults) /\ GoesWrong("settle")
    /\ UNCHANGED <<busVars, authVars, walletVars>>

\* createWallet: the INSERT, refused if the UPI id is taken.  Whatever its
\* error, the catch runs a SELECT instead and goes on unless that throws too.
WalletInsert ==
    /\ task = "insert"
    /\ \/ /\ \A b \in wallets : Handle(b) # Handle(doing)
          /\ wallets' = wallets \union {doing}
          /\ Proceed("fetch") \/ ("mysql" \in Faults /\ GoesWrong("settle"))
       \/ /\ \E b \in wallets : Handle(b) = Handle(doing)
          /\ UNCHANGED wallets
          /\ Proceed("fetch")
       \/ /\ "mysql" \in Faults
          /\ UNCHANGED wallets
          /\ GoesWrong("fetch") \/ GoesWrong("settle")
    /\ UNCHANGED <<busVars, authVars, deployed, migrated>>

\* createWallet: the SELECT of what was inserted; nobody looks at what it finds.
WalletFetch ==
    /\ task = "fetch"
    /\ Proceed("settle")
    /\ UNCHANGED <<busVars, authVars, walletVars>>

\* The handler is over: ack, or a nack that does the same.  On the channel of a lost connection
\* both throw, which Node answers by ending the process.
HandlerEnds ==
    /\ task = "settle"
    /\ \/ Settle("wallet", doing)
       \/ doing \notin unacked["wallet"] /\ Detach("wallet", "down")
    /\ task' = "idle"
    /\ doing' = None
    /\ UNCHANGED <<authVars, walletVars, failed>>
-----------------------------------------------------------------------------
\* A process starts.  The wallet service subscribes first and migrates later.
StartUp(s) ==
    /\ Start(s)
    /\ UNCHANGED <<authVars, walletVars, workVars>>

Migrate ==
    /\ link["wallet"] # "down"
    /\ ~migrated
    /\ migrated' = TRUE
    /\ UNCHANGED <<busVars, authVars, deployed, wallets, workVars>>

\* What a process does when it ends.
AbandonRequests(s) ==
    LET lost == {a \in Attempts : s = "auth" /\ pc[a] \notin {"idle", "done"}} IN
    /\ pc' = [a \in Attempts |-> IF a \in lost THEN "done" ELSE pc[a]]
    /\ answer' = [a \in Attempts |-> IF a \in lost THEN "lost" ELSE answer[a]]

AbandonWork(s) ==
    /\ task' = IF s = "wallet" THEN "idle" ELSE task
    /\ doing' = IF s = "wallet" THEN None ELSE doing
    /\ UNCHANGED failed

\* A crash, or a reconnection that fails: the promise nobody waits for is
\* rejected, and Node ends the process.
ProcessEnds(s) ==
    /\ \/ "crash" \in Faults /\ link[s] # "down"
       \/ link[s] = "closed"
    /\ Detach(s, "down")
    /\ AbandonRequests(s)
    /\ AbandonWork(s)
    /\ UNCHANGED <<request, accounts, oauth, walletVars>>

\* The connection to RabbitMQ is lost.  Handlers and requests go on.
LoseConnection(s) ==
    /\ "connection" \in Faults
    /\ link[s] = "open"
    /\ Detach(s, "closed")
    /\ UNCHANGED <<authVars, walletVars, workVars>>

Reconnection(s) ==
    /\ Reconnect(s)
    /\ UNCHANGED <<authVars, walletVars, workVars>>

AuthStep(a) ==
    \/ FindEmail(a) \/ CreateUser(a) \/ PublishRegistered(a) \/ SendOTP(a)
    \/ FindLink(a) \/ FindUser(a) \/ CreateGoogleUser(a) \/ CreateLink(a)

ConsumerStep ==
    \/ \E e \in Events : Receive(e)
    \/ WalletSelect \/ WalletInsert \/ WalletFetch
    \/ HandlerEnds

Next ==
    \/ \E a \in Attempts : Arrive(a) \/ AuthStep(a)
    \/ ConsumerStep
    \/ \E s \in Services :
          StartUp(s) \/ ProcessEnds(s) \/ LoseConnection(s) \/ Reconnection(s)
    \/ Migrate

Spec == Init /\ [][Next]_vars

\* The broker delivers, and the handler's statements end one way or the other.
\* Nobody has to start a process that ended.
Fairness == WF_vars(ConsumerStep)

FairSpec == Spec /\ Fairness
-----------------------------------------------------------------------------
\* Where an event of the wallet service's queue can be.
Kept == queue["wallet"] \union unacked["wallet"] \union wallets

\* Messages survive what the consumer does not: an event that reached the queue
\* of the wallet service is kept until its wallet exists, whoever crashes or
\* loses the connection in between.  Only a handler can lose it whose lookup or
\* INSERT failed.
NoEventLost == routed["wallet"] \subseteq Kept \union failed

\* README "Event-Driven Wallet Creation": wallets are only for users that
\* exist, and no two users, and so no two wallets, share a UPI id, although
\* registrations and Google sign-ins check for a user long before they create
\* it, and events are delivered twice.
AccountsAgree ==
    /\ wallets \union routed["wallet"] \subseteq accounts
    /\ \A a, b \in accounts : Handle(a) = Handle(b) => a = b
    /\ \A m \in Emails : oauth[m] # None =>
           oauth[m] \in accounts /\ Email(oauth[m]) = m

\* While the wallet service consumes, every event that reached its queue gets
\* its wallet in the end, or its handler fails: no handler keeps the one slot
\* of prefetch(1).
EventsAreHandled ==
    \A e \in Events :
        e \in routed["wallet"] ~> e \in wallets \union failed \/ "wallet" \notin attached
-----------------------------------------------------------------------------
\* What comments and documentation say, and the code does not guarantee.

\* The comments "failed messages go here" and "reject - send to dead letter
\* queue": an event whose handler failed is not lost either.
FailedEventsKept == routed["wallet"] \subseteq Kept

\* The comment "MySQL doesn't support returning - fetch after insert": past the
\* INSERT there is a wallet to fetch, and to log as created.
FetchedIsInserted == task = "fetch" => doing \in wallets

\* README "When a user registers, auth-service publishes a user.registered
\* event": of a client that was told of its account the event is kept until the
\* wallet exists, or its handler failed.
CreatedIsKept ==
    \A a \in Attempts : answer[a] = "created" => a \in Kept \union failed
=============================================================================
