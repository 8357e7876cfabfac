# PaybyteUPI: models and proofs

TLA+ models of the parts of PaybyteUPI that move money, create what money moves
between, or decide who gets at an account, TLC configurations that check them on
small instances, and theorems about them that TLAPS proves for all instances.
Paths below are under `src/`; `wallet-service/…` is short for
`services/wallet-service/…`, and so on.

## 1. The system

Five Node services behind nginx and an API gateway. Each runs as one process
(`docker-compose.yaml` has no replicas and no restart policy). Node runs each
handler without interruption from one `await` to the next, so every model has
one action per await that another handler, process or timer can observe.

| Component | State it keeps | Operations | What makes it correct |
|---|---|---|---|
| Wallet money operations (`wallet-service/src/services/wallet.service.js`, `routes/internal.routes.js`, `utils/lock.js`) | MySQL `wallets`, `ledger_entries`; Redis `lock:wallet:*`, `wallet:balance:*` | `addMoney`, `/internal/debit`, `/internal/credit`, `getBalance` | the ledger adds up to the balance, no overdraft, honest answers, no row stays locked, every request is answered, a cache is stale only after a race |
| Circuit breaker (`transaction-service/src/utils/circuit-breaker.js`, `wallet.client.js`) | state, two counters, time of the last failure | `execute`, `_onSuccess`, `_onFailure` | closes only after tested recovery, counters never mix periods, recovers |
| Transfer saga (`transaction-service/src/services/transaction.service.js`) | MySQL `transactions` | `transfer`, `_emitTransactionEvents` | no double charge, order of the steps, truthful rows, settlement, final outcomes |
| Registration (`auth-service/src/services/auth.service.js` `register`, `config/passport.js`) | MongoDB `users`, `oauthaccounts` | `register`, Google sign-in | one user per email and UPI id, events only of users that exist |
| Wallet creation (`wallet-service/src/consumers`, `createWallet`) | MySQL `wallets` | the `user.registered` consumer | every event ends in one wallet |
| Event bus (`shared/rabbitmq.js`, a copy in each service) | connection, channel, subscriptions; queues in the broker | `connectRabbitMQ`, `publish`, `subscribe` | events survive crashes and lost connections, consumers make progress |
| Notifications (`notification-service/src/consumers`) | a cache of users in memory | welcome, payment and cashback emails | each party of a payment is told, once unless redelivered |
| One-time passwords (`auth.service.js` `_sendOTP`, `_verifyOTP`) | MongoDB `otps` | send, verify | one valid password per purpose, each used once, attempts limited |
| Accounts and sessions (`auth.service.js`, `utils/jwt.js`, `controllers/auth.controller.js`) | MongoDB `users`, `refreshtokens`; Redis `blacklist:*` | verify email, reset and change password, login, Google callback, refresh, logout | no change without an OTP; a rotated or revoked token stays so; a new password ends sessions and old logins |
| Reads (`getHistory`, `getTransaction`, `getLedger`, `getRewards`), bank accounts, API gateway, rate limiter, validation, logging, deployment | little or none | | |

How they interact: the gateway forwards HTTP requests. The transaction service
calls the wallet service over HTTP (axios, 5 seconds) through one breaker. Auth
publishes `user.registered`, the transaction service `transaction.completed`
and `cashback.eligible`, on one topic exchange; wallet and notification
services consume, one message at a time per queue.

What is hard: requests interleave at each await and share rows, locks, caches
and one breaker; locks and cache entries expire under their owners; a call that
timed out may still take effect; any statement may fail, before or after its
effect; processes crash between any two statements and nothing recovers what
they left; the bus delivers again after a crash. `PROJECT.json` lists each of
these hazards at its line.

## 2. Modules

```
Ledger ── AtomicLedger <───refines─── WalletLedger ── MCWalletLedger
               │                           └── WalletLedgerProofs
               │ INSTANCE
CircuitBreaker ┴──────────────── TransferSaga ── MCTransferSaga
   │                                │  └── TransferSagaProofs
   │                                └──refines──> TransferContract
   ├── BreakerCalls
   ├── CircuitBreakerProofs ────────────┘  (lemmas used by both proof modules)
   └── BreakerProofs
EventBus ┬─ UserRegistration ── MCUserRegistration
         │      └── RegistrationProofs
         └─ Notifications ── MCNotifications
                └── NotificationProofs
OneTimePassword ── AccountAccess ── MCAccountAccess
                        └── AccountAccessProofs ── OneTimePasswordProofs
```

* **Ledger**: entries of a double-entry ledger and what it means that they chain.
* **AtomicLedger**: what the wallet service promises: each request moves its
  money in one step, at most once, never below zero or out of the column's
  range; "ok" is said only of money that moved, a refusal only of money that did
  not and never will; after "error" the caller does not know, and the money may
  still move, once.
* **WalletLedger**: the service itself. `Arrive`, `AcquireLock` (`SET NX EX`),
  `SelectForUpdate` (waits for the row, checks funds), `Write` (UPDATE and
  INSERT), `InvalidateCache` (DEL, inside the transaction as in the code),
  `Commit`, `ReleaseLock` (the `finally`: an unconditional DEL), `ReadCache`,
  `ReadRow`, `StoreCache` for `getBalance`; `Rollback` and `ReadFails` for
  failing statements, `LockExpires`, `CacheExpires`, `Crash`. A COMMIT can
  outlive its sender: after `CommitUnanswered`, or a crash with the COMMIT in
  flight, the request is an `orphan`, its caller has an error, its row stays
  locked, and `OrphanEnds` commits or rolls back later. The three money
  operations share their code in the service and so these actions. Amounts are
  in half paise, because `addMoney` admits fractions and `DECIMAL(15,2)` rounds
  a sum and an amount separately (`Decimal`, `DecimalAmount` in Ledger). Half a
  paisa stands for them all: any other fraction rounds alike in the sum and in
  the amount, and so counts as the nearest whole paisa. The histories `before`
  (who was over when a request arrived) and `filler` (whose read is cached) are
  only read by `StaleNeedsRace`.
* **CircuitBreaker**: the class as functions on a record; **BreakerCalls**:
  concurrent calls through one breaker, with the axios timeout and the recovery
  timeout as ticks of one clock. The histories `probe` and `passed` tell which
  calls a half-open circuit let through, and how many of them succeeded since it
  opened last; the code keeps neither. `failureCount` stops at its threshold and the
  age of the last failure just past the recovery timeout; the code compares them
  with nothing larger.
* **TransferContract**: what `POST /transactions/transfer` promises, with no breaker,
  call, statement or program counter: a key belongs to the first attempt that
  begins a transaction with it; money moves in up to three movements, each at
  most once and only while the outcome of the transaction allows it; the outcome
  is written once; a client is told its outcome, that its key is taken, that
  nothing was begun, or an error. It states openly what the code leaves open:
  after a time-out ("uncertain") the sender may still be charged, after
  "reversed" the receiver may still be paid or the refund may not come.
* **TransferSaga**: `transfer` await by await: `Lookup`, `Call`/`Return`/`Rejected`
  for resolve, debit, credit and refund, `InsertPending`, `MarkFailed`,
  `MarkRefunded`, `MarkCompleted`, `Finish`. The wallet service is an instance of
  AtomicLedger whose requests are the saga's calls, so the saga is checked
  against what WalletLedger is shown to implement. A call whose answer is late,
  lost, a 500 or a reset is `unknown` to its caller and may still execute.
  A sender without a wallet is answered like a refusal, a receiver of an unknown
  type (`Unnamed`) like an invalid amount. `Crash` loses the requests and the
  breaker and recovers nothing, as the code's start-up does. Amounts are in half
  paise, as in AtomicLedger.
  `ImplementsContract` maps it to TransferContract: `OutcomeOf` reads the outcome
  from `status` and `failure_reason`, the movements are the calls the ledgers
  record, what was told is `answer`.
* **EventBus**: a publisher, durable queues with the service that consumes each,
  deliveries that are not settled, subscriptions, connections; a nack drops its
  message (no service declares the dead letter exchange), and a reconnection
  subscribes to nothing. The broker
  and amqplib are modelled from how `shared/rabbitmq.js` uses them. The broker
  does not fail, and the order within a queue is left out.
* **UserRegistration**: `register` and the Google strategy over MongoDB's unique
  indexes, `publish`, and `createWallet` as the consumer, statement by
  statement; lost connections, crashes, restarts, migrations. The history
  `failed` holds the events whose handler failed to look up or insert. The phone number's
  unique index works like that of the UPI id and is left out; an email
  determines its UPI id (`user.model.js:63`).
* **Notifications**: the three handlers of `notification.consumers.js`, which run
  concurrently in one process with one user cache: `Receive`, `FindUsers`
  (`getUser` for each party: cached, or asked of auth-service, or not found),
  `SendMail` (the sender's before the receiver's), `Acknowledge`, `MailFails`
  (the `catch`: nack, the rest is not sent), `StaleChannel` (ack on the channel
  of a lost connection throws out of the `catch`). `PublishEvent` stands for the
  other services and sends events in their order; what they lose on the way is
  the subject of UserRegistration and TransferSaga. `skipped` and `failed`
  record what the code logs. `Start` binds the queues in one step.
* **OneTimePassword**: `_sendOTP` and `_verifyOTP` for one email address, an action
  per await: `DeleteUnused` (deleteMany, one by one), `CreateOTP`, `MailOTP`;
  `FindRecord` (findOne, of any OTP that fits, then `attempts += 1` in memory),
  `SaveAttempt`, `DropRecord`, `MarkUsed`; `OTPExpires` and `OTPPurged` (the TTL
  index). The state splits as the code's does: `otp` and `attempts` are stored,
  `record` and `count` are what a request read of them some awaits ago. An OTP is
  named by the request that made it; two OTPs are taken to differ.
* **AccountAccess** extends it with what requests do around their OTP, for one
  account: `FindUser`, `SetVerified`, `SavePassword`, `RevokeAll` (updateMany,
  token by token); `FindHash` and bcrypt's comparison; `GoogleUser`;
  `IssueToken`; `FindToken`, `RevokeOld` (rotation); `Logout`; `TokenExpires`,
  `TokenPurged`, `Crash`. `Arrive` chooses what the client brings: an OTP from
  the mailbox or a wrong one, a password, the cookie of an answer. The history
  `before[r]` holds the requests that were over when `r` began: what the code
  keeps without locks it keeps for requests that do not overlap. `CookieParser`
  says whether `req.cookies` exists. TRUE is the contract of AuthService, whose
  refresh and logout the README's "Cookie" column supposes; FALSE is `app.js`
  as it is, where refresh always fails and logout does nothing. An access
  token's 15 minutes, which nothing can end sooner, are left to the clients:
  a protected route may accept or refuse.
* The **MC** modules only give constants values and restrict initial states.
  Definitions commented "Mutant:" are deliberate bugs against which the
  properties were tried; no specification uses them.

## 3. Runs

| Run | Question | Bounds | Result |
|---|---|---|---|
| `wallet` | Does the service add up, move money at most once and as told (refinement of AtomicLedger), keep writers of a row apart, abandon no row, serve stale balances only after a race, and always answer? | 1 wallet, 3 requests out of two debits, credit, add money (allowed, half a paisa, refused), two reads | holds, 171,836 states |
| `wallet_stale_cache` | Is the cache fresh once operations are over? | 2 requests | violated |
| `breaker` | Is recovery tested for real, and does the circuit close? | 3 calls, thresholds 3 and 2, recovery 3 ticks, calls 2 | holds, 982 states |
| `saga` | Does `transfer` keep its contract (refinement of TransferContract) and do its answers stay true? No double charge, truthful events, exact settlement; is every transfer answered and every row resolved? | 2 attempts: a retry, opposite payments or a refused one, all faults, breaker threshold 2; the second payer has only what the first paid | holds, 125,345 states |
| `saga_debit_timeout` | Does FAILED mean not charged? | 2 attempts, time-outs only | violated |
| `saga_refund` | Does "amount refunded" mean refunded? | 3 attempts, no faults | violated |
| `saga_same_key` | Does a repeated key get the original result? | 2 attempts, no faults | violated |
| `registration` | Is an event only lost by a handler that failed, do users and wallets agree, does the consumer progress? | 2 attempts over 3 addresses, two with one UPI id; crashes, lost connections, failing MongoDB and MySQL; first start or later | holds, 432,741 states |
| `event_lost` | Is an event whose handler failed kept? | 2 attempts, no faults, first start | violated |
| `notifications` | Is each party told, nobody told twice without a redelivery, and does every event end? | 2 users, one registering during the run, 1 payment with cashback; lost connections, crashes, failing lookups and emails | holds, 138,172 states |
| `accounts` | Are OTPs replaced, limited and used once, does nothing change without one, are tokens rotated once, does a logout end its token, does a new password end sessions and old logins? | 20 workloads of 3 or 4 requests in any order and overlap, each under one or two of: failing MongoDB, failing mail, crashes, expiry; 1 attempt per OTP | holds, 422,235 states |
| `logout_kept` | Does a logout invalidate the refresh token? | a login and a logout, no faults | violated |

Why these bounds are enough to be interesting. One wallet suffices because
nothing in the service relates two wallets; three requests are the least for the
lock's worst case (one expires, the second's lock is deleted by the first, the
third enters). Two attempts race for one key or one breaker; the breaker can
open, half-open and close within one saga at threshold 2. In the saga the
recovery timeout is 0 ticks, so an open breaker may half-open after any tick:
more interleavings, not fewer. Two registrations meet in each unique index and
at prefetch(1). In `notifications` one event in each of the three queues lets all
handlers run at once over one cache, with one user cached by an event and one
only by a lookup. In `accounts` the workloads pair what shares state: two sends
and a verification, a send and two verifications with one allowed attempt (the
code's 3 only add repetitions, and the limit is a parameter of the proof), OTPs
of two purposes, brought to requests of either and to both kinds of password
change, a password change against logins, two refreshes and a logout
of one session, a refresh against a reset. Requests are alike, so initial states
are taken up to their order; no symmetry sets are used, and no state constraint: nothing in the models
grows without bound.

### What the violated runs show

1. **Stale cache** (`wallet.service.js:112`, `internal.routes.js:52`): the DEL is
   inside the transaction. A `getBalance` between DEL and COMMIT caches the old
   balance for 60 seconds. `StaleNeedsRace` says what the DEL is good for all the
   same: without such an overlap no cached balance is stale.
2. **FAILED but charged** (`transaction.service.js:67`): a debit that times out
   and takes effect is never compensated.
3. **Refunds that are not made** (`transaction.service.js:97`): the refund may be
   refused by a busy wallet or an open circuit, and the row says "refunded" all
   the same. No fault is needed.
4. **Same key, different answer** (`transaction.service.js:44`): the loser of the
   race for the unique index gets an error. It is not charged: `AtMostOneCharge`.
5. **Lost registrations** (`wallet-service/src/index.js:29`): the consumer starts
   before the migrations; its failure sends the event to a dead letter exchange
   that does not exist. Under the fault `mysql` the same loss happens at any time.
6. **Logout without effect** (`auth.controller.js:80`): no cookie parser is
   installed, so `req.cookies` is undefined, logout answers with success and the
   refresh token stays valid. Refresh fails for the same reason, and with a
   ReferenceError: the controller does not import `UnauthorizedError`.

Two more losses are in the model and allowed by the properties of `registration`.
The `catch` of `createWallet` (`wallet.service.js:33`) takes every error of the
INSERT for a missing RETURNING, goes on, logs "Wallet created", and the event is
acknowledged: `FetchedIsInserted` fails under the fault `mysql`. Publishing comes
after `User.create` (`auth.service.js:26`), is not confirmed by the broker, and
nothing repeats it; on a dying connection the client is told of success, on a
closed channel of an error, and then that the email is taken: `CreatedIsKept`
fails under the fault `connection`, and at a first start whose queue is not
declared yet. No run is kept for them; the theorems `HealthyKeepsAll` and
`CreatedGetsWallet` say when the two do hold.

What `accounts` shows of AuthService is what holds of it once cookies arrive, and
all of it is qualified by overlap, because nothing is locked: two sends that
overlap leave two valid OTPs, two verifications that overlap count as one
attempt, two refreshes that overlap both get a pair, and a login or refresh
that overlaps a password change may keep its session, against the unqualified
"forces re-login on all devices" (`auth.service.js:169`). A change whose
updateMany fails is answered with an error, its password set and all sessions
alive; `ChangeEndsSessions` speaks of changes that were answered with success.

An amount with half a paisa, which `addMoney` lets through, is rounded separately
in the balance and in the entry (`wallet.service.js:89`). `RunningBalance` says
what is left then: that entry is a paisa off at most, the balance is still the
last one of the ledger, and the error does not spread to other entries.

The repository's `README.md:285` speaks of "3 failures in 60 seconds"; the code counts failures
without a window, and a success resets the count. The models follow the code.
Its line 279 says that all entries sum to zero; `addMoney` credits without a
debit. `Ledger` states per wallet what the code does keep.

## 4. Fairness

* WalletLedger: weak fairness of each request's own statements, since Node
  resumes what completes, and of `OrphanEnds`, since MySQL ends the transactions
  of lost connections. No fairness for arrivals, expiries, failures or crashes.
  A statement that waits for a row waits for a transaction which is itself fair,
  rolled back or an orphan.
* BreakerCalls: time passes and calls end. That calls keep coming (`Traffic`) and
  that the service has recovered are premises of the two properties that need
  them, not of the specification.
* TransferSaga: weak fairness of the saga's own steps only; a call ends by its
  axios timeout at the latest. Nothing is assumed of the wallet service.
* UserRegistration, Notifications: weak fairness of the consumers' steps,
  deliveries included, of all three handlers together in Notifications. Nobody
  has to restart a process (no restart policy), so `EventsAreHandled` and
  `EventsAreSettled` only speak of a service that is subscribed.

AccountAccess states no fairness and no liveness: a request there is a straight
line of statements that wait for nobody.

## 5. Proofs

For all values of the constants, under the named assumptions of the modules:

* **WalletLedgerProofs**: `TypeCorrect` (strengthened by: what a transaction
  commits fits its column); `NoOverdraft` (a request past its SELECT writes a
  non-negative balance); `LedgerAddsUp`, for any amounts. The heart of the last
  is `WritesCurrent`: from SELECT to COMMIT, an orphan's included, a transaction
  owns the row, so what it will write is still a rounding of the balance and its
  amount, and `WholeBalances`, that a column only holds whole paise. The Redis lock
  does not occur in the argument; the row lock alone carries it.
  `RowsAreReleased` says the same of the lock itself: `RowsFollowTransactions`,
  inductive as it stands, makes holding a row and being in a transaction on it
  one thing, so writers exclude each other and no way out abandons a row.
  `CacheShowsThePast`: `CacheInv` adds that a read about to store its balance
  holds a committed one, and a ledger only grows. `StaleOnlyByRace`: `RaceInv`
  follows a balance from the read into the cache: it is the balance of the row, or
  an operation that overlaps the read has committed (`StoresKnown`, `CacheKnown`).
  What keeps it so is `DropsEarlier`, an operation about to commit has deleted what
  reads before it had cached, and `HistoryTrue`, a request in `before` is over, its
  COMMIT included. `MoneyIsAtomic` is the refinement of AtomicLedger: COMMIT is
  `Execute`, an orphan's later one too, the last step of a money request is
  `Answer`, a crash answers all of them at once, and every other step stutters.
  `AccountInv` says that money that moved belongs to a request past its COMMIT,
  which can no longer be refused. `MoneyMovesAsTold`: one entry at most for a
  request in all ledgers, and true answers.
* **CircuitBreakerProofs**, **BreakerProofs**: the functions keep the type and the
  counters (`CountersSound`); `ProbesAreFresh`, whose invariant adds that calls in
  flight have less time left than an open circuit has to wait,
  which needs `TimeoutAssumption` (5 seconds against 30); and `NoUntestedClose`:
  as only probes end in a half-open circuit, `successCount` is `passed` there
  (`CountsProbes`), and the circuit closes when it reaches the threshold.
* **TransferSagaProofs**: one inductive invariant `SagaInv`. `TypeInv` types the
  ledger too; `OwnerInv` says that an attempt past its INSERT owns the row of its
  key, and that attempts which own nothing have sent no money calls; `WalletInv`
  that only sent calls move money, and that a call seen as "ok" moved it;
  `OrderInv` what each program counter knows of the calls before it. From it:
  `NoDoubleCharge`, `SagaKeepsOrder`, `CompletionIsTrue`, `EventsAreTrue`,
  `FinalOutcome`. `NoMoneyLeftBehind` adds `CourseInv`: a call the wallet service
  refused never moves money, and each attempt is on its way to one of three ends,
  not charged, paid, or taken back with what its refund answered. Time-outs, late effects, failing statements, crashes, and any
  number of attempts, keys and users are included.
  `SagaImplementsContract` is the refinement of TransferContract. It needs
  `ContractInv`: a client is answered only at the end of its request, an attempt
  without a row has no answer but an error or a refusal, and a row that says FAILED carries how
  its debit ended. Then each INSERT is `Begin`, each `WalletExecutes` is `Move`
  (`ExecuteMoves`: the outcome still allows it, which is where refused and never
  sent calls must not move money), each UPDATE is `Decide`, what only answers is
  `Tell`, a crash is `Lose`, and the rest stutters. `AnswersStayTrue` follows from
  the contract alone: `HonestInv` is inductive for TransferContract (an outcome
  limits what moved, an answer says what the outcome is), so no property of the
  saga is used but the refinement. `FailedIsUncharged` is the positive side of
  `saga_debit_timeout`: a FAILED row that names the refusal or the rejection which
  failed its transfer means that nobody was charged, whatever else is late, fails
  or crashes. Of the reason of a call whose outcome is unknown (a time-out, but
  also a 500 after the COMMIT or a reset) nothing follows, and the run shows it.
* **RegistrationProofs**: `NoForeignWallet` (events are published of existing
  users only, handlers work on published events only) and `EventsSurvive`: a
  handler that reaches its ack has its wallet or failed (`HandledInv`), because
  the only INSERT refused is that of a UPI id whose one user already has a
  wallet. Two theorems say what holds while parts of the system are healthy:
  `HealthyKeepsAll` (MySQL answers and the service has migrated: no event is
  lost, no wallet is logged that is not there) and `CreatedGetsWallet` (the queue
  exists and no connection is lost: the event of a client that was told of its
  account is kept until the wallet exists or its handler failed, through crashes
  of both services and failures of MongoDB, MySQL and the mail server).
* **NotificationProofs**: `NobodyForgotten` and `NoRepeats`, for any users,
  payments and faults. `PlaceInv` says where an event and its handler can be: a
  subscribed queue with a running handler has exactly that handler's event
  unsettled. `ToldInv`: a handler that stopped looking has its event's emails
  sent, skipped or pending. `OnceInv`: emails still to be sent were not sent
  before unless the event was taken back; it rests on `MailFacts`, that no two
  events share an email.

* **AccountAccessProofs**: `BaseInv` puts together the types, what each kind of
  request may be doing, that `before` holds finished requests, and that what was
  exchanged for a new token is not valid. `Rotation`: a refresh that begins after
  another exchanged its token never gets past `FindToken`. `ChangeRevokes`: no
  token that was there before a change becomes valid again after its revocation.
  `LogoutRevokes`: a logout's token is revoked or purged and stays so although a
  refresh that read it before saves it again, because tokens are only issued to
  requests that are not answered yet; a refresh that begins later does not get
  past its lookup (`LogoutInv`). It speaks of logouts that came with a cookie,
  which is none as long as `app.js` parses none.
  `Replaced`: between its save and its answer a change leaves a password no
  request before it chose, and a later login compares with that or a later one.
* **OneTimePasswordProofs**: `OTPInv` follows a request's OTP from the lookup to its
  use. `Approved`: only requests past `MarkUsed` change the account, and they
  brought what they read. `OneValid` (`FreshInv`: after deleteMany no earlier
  request's OTP of the purpose is valid), `Accepted` (`AcceptInv`: nobody reads
  an accepted OTP later). `Limited`: requests that take turns with an OTP count
  strictly up (`CountInv`), so those within the limit map one-to-one into
  `1..MaxAttempts`. Any requests, workloads, faults and limit are included, and
  both values of `CookieParser`.

Only model-checked: the liveness properties, since fairness and ENABLED are beyond
the prover. Every invariant and every action property the passing runs check is
also proved, and so are both refinements. Some theorems have no run of their own:
`SagaKeepsOrder`, `CompletionIsTrue` and `FinalOutcome`, because `saga` checks
the refinement of TransferContract, which implies what they say (no movement
before the debit, COMPLETED only after both, one outcome per key);
`CountersSound`, a lemma for the other properties of the breaker; and the three
conditional ones, `FailedIsUncharged`, `HealthyKeepsAll` and
`CreatedGetsWallet`.

## 6. Not modelled

Reads of
committed rows, bank accounts (one check, one insert), the gateway, the rate
limiter, validation, logging and deployment: no state of their own that the
properties depend on. Several instances of one service: the deployment has one.
`blacklistAccessToken` is never called, so `protect` never finds a revoked access
token and the blacklist is left out; its Redis lookup is not awaited by anybody,
and its failure, which ends the process, is part of `Crash`. The wording and the
digits of OTPs, bcrypt and token hashes are taken to tell things apart. OTPs are
stored under the email as it was typed, and the model has one address, typed one
way. A MongoDB statement that failed has taken effect or never will: one that
takes effect after its error was answered is left out.
MySQL, Redis, MongoDB and RabbitMQ are taken to do what they document: row locks,
atomic commits, unique indexes, durable queues.

## 7. Plan

1. Done: the modules of section 2, with proofs.
2. Left to consider: `waitFor` at start-up; several instances of a service, if
   the deployment gets them; the bank accounts, once verification is real.
