---------------------------- MODULE TransferSaga ----------------------------
(***************************************************************************)
(* TransactionService.transfer as a saga over the wallet service: one      *)
(* action per await.  An attempt is one POST /transactions/transfer; two   *)
(* attempts with the same idempotency key are a client's retry.  The       *)
(* wallet service is AtomicLedger, and every call to it goes through the   *)
(* one circuit breaker of wallet.client.js.  Calls may time out and still  *)
(* take effect, statements may fail, the process may crash and restart.    *)
(***************************************************************************)
EXTENDS CircuitBreaker, FiniteSets

CONSTANTS Users,          \* users with a wallet
          Keys,           \* idempotency keys
          Attempts,       \* requests for a transfer, each handled once
          Payments,       \* what a request may say; amounts are in half paise
          TransferLimit,  \* the limit of one transfer (100000 rupees)
          CashbackFrom,   \* the least amount with cashback (2% >= 1 rupee)
          Faults,         \* what may go wrong
          MaxBalance,     \* the largest balance a wallet row can hold
          Opening,        \* Opening[u]: balance of u at the start
          NoRow,          \* no transaction has the key
          Unnamed         \* a receiver of a type that is no UPI_ID and no USER_ID

ASSUME FaultsAssumption == Faults \subseteq {"timeout", "crash", "db"}
ASSUME WalletAssumption == MaxBalance \in Nat /\ Opening \in [Users -> 0..MaxBalance]
ASSUME KeyAssumption == \A p \in Payments : p.key \in Keys

VARIABLES
    balance, ledger, result,  \* the wallet service, see AtomicLedger
    breaker,  \* the breaker all calls share
    payment,  \* payment[a]: the body and the key of attempt a
    pc,       \* pc[a]: the call or statement a runs next or waits for
    sent,     \* the calls <<a, kind>> that left for the wallet service
    seen,     \* seen[<<a, kind>>]: how the call ended for a
    row,      \* row[k]: the row of table transactions with key k
    answer,   \* answer[a]: what the client of a was told
    events    \* the events published

wallet == <<balance, ledger, result>>
vars == <<wallet, breaker, payment, pc, sent, seen, row, answer, events>>

MoneyKinds == {"debit", "credit", "refund"}
Kinds == {"resolve"} \union MoneyKinds
Statements == {"insert", "markFailed", "markRefunded", "markCompleted", "finish"}
Amounts == {p.amount : p \in Payments}
Answers == {"none", "existing", "invalid", "failed", "refunded", "completed", "error", "lost"}
Outcomes == {"none", "ok", "refused", "unknown", "rejected"}
Status == {"PENDING", "COMPLETED", "FAILED"}
Row == [owner : Attempts, status : Status, reason : Outcomes \union {"refunded"}]

ASSUME NoRowAssumption == NoRow \notin Row

\* The wallet service.  A call is one of its requests.
W == INSTANCE AtomicLedger WITH Wallets <- Users, Requests <- Attempts \X MoneyKinds

TypeOK ==
    /\ balance \in [Users -> 0..MaxBalance]
    /\ result \in [Attempts \X MoneyKinds -> W!Results]
    /\ breaker \in Breaker
    /\ payment \in [Attempts -> Payments]
    /\ pc \in [Attempts -> {"idle", "done"} \union Kinds \union Statements]
    /\ sent \subseteq Attempts \X Kinds
    /\ seen \in [Attempts \X Kinds -> Outcomes]
    /\ row \in [Keys -> {NoRow} \union Row]
    /\ answer \in [Attempts -> Answers]
    /\ events \subseteq {"transaction.completed", "cashback.eligible"} \X Attempts

Init ==
    /\ W!Init
    /\ breaker = NewBreaker
    /\ payment \in [Attempts -> Payments]
    /\ pc = [a \in Attempts |-> "idle"]
    /\ sent = {}
    /\ seen = [c \in Attempts \X Kinds |-> "none"]
    /\ row = [k \in Keys |-> NoRow]
    /\ answer = [a \in Attempts |-> "none"]
    /\ events = {}
-----------------------------------------------------------------------------
Key(a) == payment[a].key

Goto(a, label) == pc' = [pc EXCEPT ![a] = label] /\ UNCHANGED answer
Respond(a, what) ==
    /\ pc' = [pc EXCEPT ![a] = "done"]
    /\ answer' = [answer EXCEPT ![a] = what]

\* Steps 1 to 3: the row with this key answers the request; else its amount is
\* looked at, and whether its receiver is named in one of the two ways known.
Lookup(a) ==
    LET valid == /\ payment[a].amount > 0 /\ payment[a].amount <= TransferLimit
                 /\ payment[a].receiver # Unnamed
    IN
    /\ pc[a] = "idle"
    /\ \/ row[Key(a)] # NoRow /\ Respond(a, "existing")
       \/ row[Key(a)] = NoRow /\ ~valid /\ Respond(a, "invalid")
       \/ row[Key(a)] = NoRow /\ valid /\ Goto(a, "resolve")
       \/ "db" \in Faults /\ Respond(a, "error")
    /\ UNCHANGED <<wallet, breaker, payment, sent, seen, row, events>>

\* Where transfer goes on after a call that succeeded.
AfterSuccess == [resolve |-> "insert", debit |-> "credit",
                 credit |-> "markCompleted", refund |-> "markRefunded"]

\* Mutants: a failed credit is marked as refunded without a refund; a failed
\* debit leaves the row as it is; a failed credit is treated like a failed debit.
NoCompensation == [debit |-> "markFailed", credit |-> "markRefunded", refund |-> "markRefunded"]
LeavePending == [debit |-> "done", credit |-> "refund", refund |-> "markRefunded"]
FailWithoutRefund == [debit |-> "markFailed", credit |-> "markFailed", refund |-> "markRefunded"]

\* Where its catch blocks go on after a call that threw.
AfterFailure == [debit |-> "markFailed", credit |-> "refund", refund |-> "markRefunded"]

\* A call through the breaker leaves for the wallet service ...
Call(a, kind) ==
    /\ pc[a] = kind
    /\ <<a, kind>> \notin sent
    /\ ~Rejects(breaker)
    /\ breaker' = Admit(breaker)
    /\ sent' = sent \union {<<a, kind>>}
    /\ UNCHANGED <<wallet, payment, pc, seen, row, answer, events>>

\* Mutant: axios waits for ever.
LearnsOnlyAnswers(a, kind) ==
    IF kind = "resolve" THEN {IF payment[a].receiver \in Users THEN "ok" ELSE "refused"}
    ELSE IF result[<<a, kind>>] = "none" THEN {}
    ELSE {IF result[<<a, kind>>] = "ok" THEN "ok" ELSE "refused"}

\* What the caller of this call may learn by now.  An axios timeout may come
\* at any time, and so may a 500 or a reset of the wallet service: they say
\* nothing of what the wallet service has done or will do.
Learns(a, kind) ==
    LET timeout == IF "timeout" \in Faults THEN {"unknown"} ELSE {}
        known == payment[a].receiver \in Users
        told == IF kind = "resolve" THEN "none" ELSE result[<<a, kind>>]
    IN timeout \union
       (IF kind = "resolve" THEN {IF known THEN "ok" ELSE "refused"}
        ELSE IF told = "none" THEN {}
        ELSE {IF told = "ok" THEN "ok" ELSE "refused"})

\* ... and comes back, or is given up.  A GET that throws ends the transfer,
\* and so does a receiver who is the sender.
Return(a, kind) ==
    /\ pc[a] = kind
    /\ <<a, kind>> \in sent
    /\ \E outcome \in Learns(a, kind) :
         LET self == payment[a].receiver = payment[a].sender IN
         /\ seen' = [seen EXCEPT ![<<a, kind>>] = outcome]
         /\ breaker' = IF outcome = "ok" THEN OnSuccess(breaker) ELSE OnFailure(breaker)
         /\ \/ kind = "resolve" /\ (outcome # "ok" \/ self) /\ Respond(a, "error")
            \/ /\ kind # "resolve" \/ ~self
               /\ outcome = "ok"
               /\ Goto(a, AfterSuccess[kind])
            \/ kind # "resolve" /\ outcome # "ok" /\ Goto(a, AfterFailure[kind])
    /\ UNCHANGED <<wallet, payment, sent, row, events>>

\* The breaker rejects the call: execute throws before anything is sent.
Rejected(a, kind) ==
    /\ pc[a] = kind
    /\ <<a, kind>> \notin sent
    /\ Rejects(breaker)
    /\ seen' = [seen EXCEPT ![<<a, kind>>] = "rejected"]
    /\ \/ kind = "resolve" /\ Respond(a, "error")
       \/ kind # "resolve" /\ Goto(a, AfterFailure[kind])
    /\ UNCHANGED <<wallet, breaker, payment, sent, row, events>>
-----------------------------------------------------------------------------
\* Mutant: INSERT IGNORE.
InsertIgnoring(a) ==
    /\ pc[a] = "insert"
    /\ row' = [row EXCEPT ![Key(a)] =
                  IF @ = NoRow THEN [owner |-> a, status |-> "PENDING", reason |-> "none"] ELSE @]
    /\ Goto(a, "debit")
    /\ UNCHANGED <<wallet, breaker, payment, sent, seen, events>>

\* Step 4: INSERT ... PENDING; the unique index on idempotency_key refuses a
\* second row of the key.  A failing INSERT may have inserted.
InsertPending(a) ==
    LET pending == [owner |-> a, status |-> "PENDING", reason |-> "none"] IN
    /\ pc[a] = "insert"
    /\ \/ /\ row[Key(a)] = NoRow
          /\ row' = [row EXCEPT ![Key(a)] = pending]
          /\ Goto(a, "debit") \/ ("db" \in Faults /\ Respond(a, "error"))
       \/ /\ row[Key(a)] # NoRow \/ "db" \in Faults
          /\ Respond(a, "error")
          /\ UNCHANGED row
    /\ UNCHANGED <<wallet, breaker, payment, sent, seen, events>>

\* UPDATE transactions SET status ... WHERE id = ...; if it fails its effect
\* is unknown and transfer throws.
Update(a, status, reason, told) ==
    LET k == Key(a) IN
    /\ \/ row' = [row EXCEPT ![k].status = status, ![k].reason = reason]
       \/ "db" \in Faults /\ UNCHANGED row
    /\ \/ row' # row /\ told
       \/ "db" \in Faults /\ Respond(a, "error")
    /\ UNCHANGED <<wallet, breaker, payment, sent, seen, events>>

\* Mutant: the reason is not kept, a time-out is reported as a refusal.
MarkFailedBlind(a) ==
    /\ pc[a] = "markFailed"
    /\ Update(a, "FAILED", "refused", Respond(a, "failed"))

MarkFailed(a) ==
    /\ pc[a] = "markFailed"
    /\ Update(a, "FAILED", seen[<<a, "debit">>], Respond(a, "failed"))

\* Mutant: a status no reader of the row knows.
MarkReversed(a) ==
    /\ pc[a] = "markRefunded"
    /\ Update(a, "REVERSED", "refunded", Respond(a, "refunded"))

MarkRefunded(a) ==
    /\ pc[a] = "markRefunded"
    /\ Update(a, "FAILED", "refunded", Respond(a, "refunded"))

\* Mutant: the UPDATE is not awaited, so nobody notices if it fails.
MarkCompletedUnawaited(a) ==
    /\ pc[a] = "markCompleted"
    /\ \/ row' = [row EXCEPT ![Key(a)].status = "COMPLETED"]
       \/ "db" \in Faults /\ UNCHANGED row
    /\ Goto(a, "finish")
    /\ UNCHANGED <<wallet, breaker, payment, sent, seen, events>>

MarkCompleted(a) ==
    /\ pc[a] = "markCompleted"
    /\ Update(a, "COMPLETED", "none", Goto(a, "finish"))

\* Steps 7 and 8: read the row back, start publishing, answer.  A publish
\* without a channel throws, and the events after it are not published.
Finish(a) ==
    LET completed == <<"transaction.completed", a>>
        cashback == IF payment[a].amount >= CashbackFrom
                    THEN {<<"cashback.eligible", a>>} ELSE {}
    IN
    /\ pc[a] = "finish"
    /\ \/ /\ \E published \in {{}, {completed}, {completed} \union cashback} :
                 events' = events \union published
          /\ Respond(a, "completed")
       \/ "db" \in Faults /\ Respond(a, "error") /\ UNCHANGED events
    /\ UNCHANGED <<wallet, breaker, payment, sent, seen, row>>
-----------------------------------------------------------------------------
Party(a, kind) == IF kind = "credit" THEN payment[a].receiver ELSE payment[a].sender
EntryType(kind) == IF kind = "debit" THEN "DEBIT" ELSE "CREDIT"

\* The wallet service moves the money of a call that reached it, whether or
\* not its caller still waits.
WalletExecutes(a, kind) ==
    /\ <<a, kind>> \in sent
    /\ W!Execute(<<a, kind>>, Party(a, kind), EntryType(kind), payment[a].amount)
    /\ UNCHANGED <<breaker, payment, pc, sent, seen, row, answer, events>>

\* The wallet service answers a call that is waited for.
WalletAnswers(a, kind) ==
    /\ <<a, kind>> \in sent
    /\ pc[a] = kind
    /\ \E told \in {"ok", IF kind = "debit" THEN "insufficient" ELSE "busy"} :
           W!Answer({<<a, kind>>}, told)
    /\ UNCHANGED <<breaker, payment, pc, sent, seen, row, answer, events>>

\* The recovery timeout of an open breaker runs.
Tick ==
    /\ breaker' = Older(breaker)
    /\ UNCHANGED <<wallet, payment, pc, sent, seen, row, answer, events>>

\* The transaction service dies and starts again: its requests are lost, its
\* breaker is new, and nothing looks at the rows it left PENDING.
Crash ==
    LET lost == {a \in Attempts : pc[a] \notin {"idle", "done"}} IN
    /\ "crash" \in Faults
    /\ lost # {}
    /\ pc' = [a \in Attempts |-> IF a \in lost THEN "done" ELSE pc[a]]
    /\ answer' = [a \in Attempts |-> IF a \in lost THEN "lost" ELSE answer[a]]
    /\ breaker' = NewBreaker
    /\ UNCHANGED <<wallet, payment, sent, seen, row, events>>

\* Every attempt is over.
Finished ==
    /\ \A a \in Attempts : pc[a] = "done"
    /\ UNCHANGED vars

SagaStep(a) ==
    \/ \E kind \in Kinds : Call(a, kind) \/ Return(a, kind) \/ Rejected(a, kind)
    \/ InsertPending(a)
    \/ MarkFailed(a) \/ MarkRefunded(a) \/ MarkCompleted(a)
    \/ Finish(a)

Next ==
    \/ \E a \in Attempts :
         \/ Lookup(a) \/ SagaStep(a)
         \/ \E kind \in MoneyKinds : WalletExecutes(a, kind) \/ WalletAnswers(a, kind)
    \/ Tick \/ Crash \/ Finished

Spec == Init /\ [][Next]_vars

\* Statements end one way or the other, and so do calls, by their timeout:
\* nothing is assumed of the wallet service.
Fairness == \A a \in Attempts : WF_vars(SagaStep(a))

FairSpec == Spec /\ Fairness
-----------------------------------------------------------------------------
\* Did the money of this call move?
Moved(a, kind) == \E u \in Users : W!Records(ledger[u], <<a, kind>>)

\* The outcome of the transaction a began, as its row tells it: "declined" if
\* the debit was refused or never left, "uncertain" if the caller gave it up.
OutcomeOf(a) ==
    LET r == row[Key(a)] IN
    IF r = NoRow THEN "none"
    ELSE IF r.owner # a THEN "none"
    ELSE IF r.status = "PENDING" THEN "pending"
    ELSE IF r.status = "COMPLETED" THEN "completed"
    ELSE IF r.reason = "refunded" THEN "reversed"
    ELSE IF r.reason = "unknown" THEN "uncertain"
    ELSE "declined"

\* What the endpoint promises, as the rows and the ledgers show it.
Contract == INSTANCE TransferContract WITH
    key <- [a \in Attempts |-> Key(a)],
    outcome <- [a \in Attempts |-> OutcomeOf(a)],
    moved <- {c \in Attempts \X MoneyKinds : Moved(c[1], c[2])},
    told <- answer

\* The saga keeps the contract of the endpoint: a client sees one transaction
\* per key, whose money moves only as its outcome allows, before and after the
\* outcome is written, and is told nothing else than that outcome.
ImplementsContract == Contract!Spec

\* What a client was told stays true of its money, whatever call takes effect
\* later: "completed" means paid and never refunded, "failed" that the receiver
\* is never paid, "refunded" that there was something to refund, and a request
\* that was turned away moves nothing.
ToldTheTruth == Contract!Honest

\* README "Idempotency Keys", "this prevents double charges": whatever is
\* retried, in parallel or later, at most one attempt of a key moves money,
\* and it moves it at most once in each direction.
AtMostOneCharge ==
    /\ \A a, b \in Attempts :
           Key(a) = Key(b) /\ Moved(a, "debit") /\ Moved(b, "debit") => a = b
    /\ \A u \in Users : W!NoDuplicates(ledger[u])

\* The saga keeps its order: nobody is credited, neither the receiver nor the
\* sender, out of a debit that did not happen.
CreditNeedsDebit ==
    \A a \in Attempts : Moved(a, "credit") \/ Moved(a, "refund") => Moved(a, "debit")

\* COMPLETED is never said too early: the receiver has the money, and the
\* sender did not get it back.
CompletedMeansMoved ==
    \A k \in Keys :
        row[k] # NoRow /\ row[k].status = "COMPLETED" =>
            /\ Moved(row[k].owner, "debit") /\ Moved(row[k].owner, "credit")
            /\ ~Moved(row[k].owner, "refund")

\* The outcome of the call is known to its caller.
Certain(a, kind) == <<a, kind>> \in sent => seen[<<a, kind>>] \in {"ok", "refused"}

\* An attempt that ran to its end, knows how each of its calls ended and had
\* no refund turned away leaves no money behind: what it took from the sender
\* either reached the receiver or went back, and not both.
SettledExactly ==
    \A a \in Attempts :
        /\ pc[a] = "done" /\ answer[a] # "lost"
        /\ \A kind \in MoneyKinds : Certain(a, kind)
        /\ seen[<<a, "refund">>] \in {"none", "ok"}
        => Cardinality({kind \in MoneyKinds : Moved(a, kind)}) \in {0, 2}

\* A transaction's events are published after its row says COMPLETED, so a
\* consumer that looks it up finds what it was told.
EventsFollowCommit ==
    \A e \in events : LET r == row[Key(e[2])] IN
        r # NoRow /\ r.owner = e[2] /\ r.status = "COMPLETED"

\* The outcome of a transaction is final: no retry, restart or late answer
\* rewrites a row that says COMPLETED or FAILED, or takes a row over.
OutcomeIsFinal ==
    [][\A k \in Keys : row[k] # NoRow =>
           /\ row'[k] # NoRow /\ row'[k].owner = row[k].owner
           /\ row[k].status # "PENDING" => row'[k] = row[k]]_vars

\* Every request is answered or lost with the process.
EveryAttemptAnswered ==
    \A a \in Attempts : pc[a] # "idle" ~> pc[a] = "done"

\* A row is PENDING for ever only if its owner was lost or could not write it.
PendingResolves ==
    \A k \in Keys :
        row[k] # NoRow ~>
            /\ row[k] # NoRow
            /\ row[k].status # "PENDING" \/ answer[row[k].owner] \in {"lost", "error"}
-----------------------------------------------------------------------------
\* What the rows and the documentation say, and the code does not guarantee.

\* The comment "debit failed, mark transaction failed" and README "Money is
\* never lost": the sender of a transfer that failed has not been charged.
FailedMeansUncharged ==
    \A k \in Keys :
        row[k] # NoRow /\ row[k].status = "FAILED" /\ row[k].reason # "refunded" =>
            ~Moved(row[k].owner, "debit")

\* What can be said instead: a row whose reason names the refusal or the
\* rejection that failed it was not charged.  The reason is kept because a
\* time-out, a 500 or a reset, "unknown", proves nothing.
DeclinedMeansUncharged ==
    \A k \in Keys :
        row[k] # NoRow /\ row[k].status = "FAILED"
          /\ row[k].reason \notin {"refunded", "unknown"} =>
            ~Moved(row[k].owner, "debit")

\* The failure reason "Credit to receiver failed - amount refunded".
RefundedMeansRefunded ==
    \A k \in Keys :
        row[k] # NoRow /\ row[k].reason = "refunded" => Moved(row[k].owner, "refund")

\* README "returns the original result": a request whose key is taken is never
\* answered with an error of its own.
SameKeySameResult ==
    \A a \in Attempts :
        answer[a] = "error" => row[Key(a)] = NoRow \/ row[Key(a)].owner = a
=============================================================================
