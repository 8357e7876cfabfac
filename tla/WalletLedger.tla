---------------------------- MODULE WalletLedger ----------------------------
(***************************************************************************)
(* The money operations and the balance read of the wallet service, one    *)
(* action per statement that another request can observe: the Redis lock   *)
(* of utils/lock.js, the MySQL transaction with SELECT ... FOR UPDATE, the *)
(* cached balance, the COMMIT, the release.  Requests interleave at every  *)
(* await, the lock and the cache expire on their own, statements fail, the *)
(* process crashes and restarts, and a COMMIT whose sender has given it up *)
(* may still take effect.                                                  *)
(***************************************************************************)
EXTENDS Ledger

CONSTANTS Wallets,      \* wallets created earlier and active throughout
          Requests,     \* HTTP requests, each handled once
          Amounts,      \* amounts a request body may carry, in half paise
          MaxAddMoney,  \* the limit of addMoney (100000 rupees)
          MaxBalance,   \* the largest value of DECIMAL(15, 2)
          Opening,      \* Opening[w]: balance of w when the model starts
          Nobody,       \* no request holds the row
          Miss          \* the cache key is absent

ASSUME AmountsAssumption == Amounts \subseteq Int
ASSUME OpeningAssumption ==
    /\ MaxBalance \in Nat
    /\ Opening \in [Wallets -> 0..MaxBalance]
    /\ \A w \in Wallets : Opening[w] % 2 = 0
ASSUME NullAssumption == Nobody \notin Requests /\ Miss \notin Int

VARIABLES
    balance,  \* balance[w]: the committed column wallets.balance
    ledger,   \* ledger[w]: the committed rows of ledger_entries
    rowLock,  \* rowLock[w]: the request whose transaction holds the row of w
    orphan,   \* requests whose COMMIT is in flight on a connection that is lost
    lockKey,  \* lockKey[w]: does lock:wallet:<w> exist in Redis?
    cache,    \* cache[w]: wallet:balance:<user of w> in Redis, or Miss
    pc,       \* pc[r]: the statement request r runs next
    job,      \* job[r]: what r asks for
    val,      \* val[r]: the balance r has computed or read
    result,   \* result[r]: the verdict on r, sent when pc[r] = "done"
    before,   \* history: before[r], the reads that were over when operation r
              \* arrived, or the operations that were over when read r did
    filler    \* history: filler[w], the read that stored cache[w] last

vars == <<balance, ledger, rowLock, orphan, lockKey, cache, pc, job, val, result,
          before, filler>>

Verdicts == {"none", "ok", "insufficient", "busy", "invalid", "error"}
InTransaction == {"write", "invalidate", "commit"}
Transacting == {"select"} \union InTransaction
Reading == {"readCache", "readRow", "storeCache"}
Handling == {"lock", "unlock"} \union Transacting \union Reading

\* Only addMoney meets an amount nobody has checked: the internal routes are
\* called by the transaction service, which refuses amounts of zero or less.
Job ==
    [op : {"debit", "credit"}, wallet : Wallets, amount : {a \in Amounts : a > 0}]
      \union [op : {"addMoney"}, wallet : Wallets, amount : Amounts]
      \union [op : {"getBalance"}, wallet : Wallets, amount : {0}]

TypeOf(j) == IF j.op = "debit" THEN "DEBIT" ELSE "CREDIT"

\* The columns are signed: a negative balance is as storable as any other.
Storable == -MaxBalance..MaxBalance

LedgerEntry == [transaction_id : Requests, entry_type : EntryTypes,
                amount : Int, balance_after : Storable]

TypeOK ==
    /\ balance \in [Wallets -> Storable]
    /\ ledger \in [Wallets -> Seq(LedgerEntry)]
    /\ rowLock \in [Wallets -> Requests \union {Nobody}]
    /\ orphan \subseteq Requests
    /\ lockKey \in [Wallets -> BOOLEAN]
    /\ cache \in [Wallets -> Int \union {Miss}]
    /\ pc \in [Requests -> {"idle", "done"} \union Handling]
    /\ job \in [Requests -> Job]
    /\ val \in [Requests -> Int]
    /\ result \in [Requests -> Verdicts]
    /\ before \in [Requests -> SUBSET Requests]
    /\ filler \in [Wallets -> Requests \union {Nobody}]

Init ==
    /\ balance = Opening
    /\ ledger = [w \in Wallets |-> <<>>]
    /\ rowLock = [w \in Wallets |-> Nobody]
    /\ orphan = {}
    /\ lockKey = [w \in Wallets |-> FALSE]
    /\ cache = [w \in Wallets |-> Miss]
    /\ pc = [r \in Requests |-> "idle"]
    /\ job \in [Requests -> Job]
    /\ val = [r \in Requests |-> 0]
    /\ result = [r \in Requests |-> "none"]
    /\ before = [r \in Requests |-> {}]
    /\ filler = [w \in Wallets |-> Nobody]
-----------------------------------------------------------------------------
Goto(r, label) == pc' = [pc EXCEPT ![r] = label]
Conclude(r, label, verdict) ==
    /\ Goto(r, label)
    /\ result' = [result EXCEPT ![r] = verdict]

\* Nothing that request r began can take effect any more.
Over(r) == pc[r] = "done" /\ r \notin orphan

IsRead(r) == job[r].op = "getBalance"

\* A request arrives.  Only addMoney looks at its amount; then each money
\* operation looks up its wallet, which may fail.
Arrive(r) ==
    LET op == job[r].op
        refused == op = "addMoney" /\ (job[r].amount <= 0 \/ job[r].amount > MaxAddMoney)
    IN
    /\ pc[r] = "idle"
    /\ \/ refused /\ Conclude(r, "done", "invalid")
       \/ /\ op # "getBalance" /\ ~refused
          /\ \/ Goto(r, "lock") /\ UNCHANGED result
             \/ Conclude(r, "done", "error")
       \/ op = "getBalance" /\ Goto(r, "readCache") /\ UNCHANGED result
    /\ before' = [before EXCEPT ![r] = {q \in Requests : Over(q) /\ (IsRead(q) # IsRead(r))}]
    /\ UNCHANGED <<balance, ledger, rowLock, orphan, lockKey, cache, job, val, filler>>

\* SET lock:wallet:<w> 1 EX 30 NX.  A failing SET may still have set the key.
AcquireLock(r) ==
    LET w == job[r].wallet IN
    /\ pc[r] = "lock"
    /\ \/ /\ ~lockKey[w]
          /\ lockKey' = [lockKey EXCEPT ![w] = TRUE]
          /\ Goto(r, "select")
          /\ UNCHANGED result
       \/ /\ lockKey[w]
          /\ Conclude(r, "done", "busy")
          /\ UNCHANGED lockKey
       \/ /\ \E set \in BOOLEAN : lockKey' = [lockKey EXCEPT ![w] = @ \/ set]
          /\ Conclude(r, "done", "error")
    /\ UNCHANGED <<balance, ledger, rowLock, orphan, cache, job, val, before, filler>>

\* Mutant: .forUpdate() is dropped, in the belief that the Redis lock is enough.
PlainSelect(r) ==
    LET w == job[r].wallet
        poor == job[r].op = "debit" /\ balance[w] < job[r].amount
    IN
    /\ pc[r] = "select"
    /\ \/ poor /\ Conclude(r, "unlock", "insufficient") /\ UNCHANGED val
       \/ /\ ~poor
          /\ \E b \in Decimal(balance[w] + Delta(TypeOf(job[r]), job[r].amount)) :
                 val' = [val EXCEPT ![r] = b]
          /\ Goto(r, "write")
          /\ UNCHANGED result
    /\ UNCHANGED <<balance, ledger, rowLock, orphan, lockKey, cache, job, before, filler>>

\* Mutant: the debit trusts the funds check of its caller.
SelectWithoutFundsCheck(r) ==
    LET w == job[r].wallet IN
    /\ pc[r] = "select"
    /\ rowLock[w] = Nobody
    /\ rowLock' = [rowLock EXCEPT ![w] = r]
    /\ \E b \in Decimal(balance[w] + Delta(TypeOf(job[r]), job[r].amount)) :
           val' = [val EXCEPT ![r] = b]
    /\ Goto(r, "write")
    /\ UNCHANGED <<balance, ledger, orphan, lockKey, cache, job, result, before, filler>>

\* SELECT ... FOR UPDATE waits for the row, then funds are checked against
\* the row it read.  Too little throws, which rolls back and frees the row.
SelectForUpdate(r) ==
    LET w == job[r].wallet
        poor == job[r].op = "debit" /\ balance[w] < job[r].amount
    IN
    /\ pc[r] = "select"
    /\ rowLock[w] = Nobody
    /\ \/ /\ poor
          /\ Conclude(r, "unlock", "insufficient")
          /\ UNCHANGED <<rowLock, val>>
       \/ /\ ~poor
          /\ rowLock' = [rowLock EXCEPT ![w] = r]
          /\ \E b \in Decimal(balance[w] + Delta(TypeOf(job[r]), job[r].amount)) :
                 val' = [val EXCEPT ![r] = b]
          /\ Goto(r, "write")
          /\ UNCHANGED result
    /\ UNCHANGED <<balance, ledger, orphan, lockKey, cache, job, before, filler>>

\* Mutant: any balance can be written.
WriteUnchecked(r) ==
    /\ pc[r] = "write"
    /\ Goto(r, "invalidate")
    /\ UNCHANGED <<balance, ledger, rowLock, orphan, lockKey, cache, job, val, result,
                   before, filler>>

\* Mutant: the UPDATE runs on db instead of trx and so commits by itself.
WriteOutsideTransaction(r) ==
    LET w == job[r].wallet IN
    /\ pc[r] = "write"
    /\ val[r] \in Storable
    /\ balance' = [balance EXCEPT ![w] = val[r]]
    /\ Goto(r, "invalidate")
    /\ UNCHANGED <<ledger, rowLock, orphan, lockKey, cache, job, val, result,
                   before, filler>>

\* UPDATE wallets and INSERT INTO ledger_entries, neither visible outside
\* the transaction; strict mode refuses a balance out of the column's range.
Write(r) ==
    LET w == job[r].wallet IN
    /\ pc[r] = "write"
    /\ rowLock[w] \in {r, Nobody}
    /\ \/ /\ val[r] \in Storable
          /\ rowLock' = [rowLock EXCEPT ![w] = r]
          /\ Goto(r, "invalidate")
          /\ UNCHANGED result
       \/ /\ val[r] \notin Storable
          /\ rowLock' = [rowLock EXCEPT ![w] = Nobody]
          /\ Conclude(r, "unlock", "error")
    /\ UNCHANGED <<balance, ledger, orphan, lockKey, cache, job, val, before, filler>>

\* Mutant: write-through, the new balance is cached instead of dropped.
WriteThroughCache(r) ==
    /\ pc[r] = "invalidate"
    /\ cache' = [cache EXCEPT ![job[r].wallet] = val[r]]
    /\ Goto(r, "commit")
    /\ UNCHANGED <<balance, ledger, rowLock, orphan, lockKey, job, val, result,
                   before, filler>>

\* Mutant: the DEL names a key that getBalance does not use.
InvalidateOtherKey(r) ==
    /\ pc[r] = "invalidate"
    /\ Goto(r, "commit")
    /\ UNCHANGED <<balance, ledger, rowLock, orphan, lockKey, cache, job, val, result,
                   before, filler>>

\* DEL wallet:balance:<user>, still inside the transaction.
InvalidateCache(r) ==
    /\ pc[r] = "invalidate"
    /\ cache' = [cache EXCEPT ![job[r].wallet] = Miss]
    /\ Goto(r, "commit")
    /\ UNCHANGED <<balance, ledger, rowLock, orphan, lockKey, job, val, result,
                   before, filler>>

\* Mutant: the transaction is not awaited, its caller is told "ok" at once.
CommitUnawaited(r) ==
    /\ pc[r] = "commit"
    /\ rowLock' = [rowLock EXCEPT ![job[r].wallet] = Nobody]
    /\ Conclude(r, "unlock", "ok")
    /\ UNCHANGED <<balance, ledger, orphan, lockKey, cache, job, val, before, filler>>

\* What MySQL does with a COMMIT: both writes become visible and the row is free.
Publish(r) ==
    LET w == job[r].wallet IN
    /\ balance' = [balance EXCEPT ![w] = val[r]]
    /\ ledger' = [ledger EXCEPT ![w] =
                    Append(@, Entry(r, TypeOf(job[r]),
                                    DecimalAmount(job[r].amount), val[r]))]
    /\ rowLock' = [rowLock EXCEPT ![w] = Nobody]

\* COMMIT, acknowledged: the callback's result is the answer.
Commit(r) ==
    /\ pc[r] = "commit"
    /\ Publish(r)
    /\ Conclude(r, "unlock", "ok")
    /\ UNCHANGED <<orphan, lockKey, cache, job, val, before, filler>>

\* The connection is lost with the COMMIT in flight: knex throws the result
\* away, and MySQL still holds the row.
CommitUnanswered(r) ==
    /\ pc[r] = "commit"
    /\ orphan' = orphan \union {r}
    /\ Conclude(r, "unlock", "error")
    /\ UNCHANGED <<balance, ledger, rowLock, lockKey, cache, job, val, before, filler>>

\* MySQL comes to the end of the lost connection: it had the COMMIT and carries
\* it out, or it had not and rolls back.
OrphanEnds(r) ==
    /\ r \in orphan
    /\ orphan' = orphan \ {r}
    /\ \/ Publish(r)
       \/ /\ rowLock' = [rowLock EXCEPT ![job[r].wallet] = Nobody]
          /\ UNCHANGED <<balance, ledger>>
    /\ UNCHANGED <<lockKey, cache, pc, job, val, result, before, filler>>

\* Mutant: the error leaves the transaction open and the row locked.
LeakTransaction(r) ==
    /\ pc[r] \in Transacting
    /\ Conclude(r, "unlock", "error")
    /\ UNCHANGED <<balance, ledger, rowLock, orphan, lockKey, cache, job, val,
                   before, filler>>

\* A statement of the transaction fails (a lock wait too long, a lost
\* connection, the Redis DEL): everything it wrote is rolled back.
Rollback(r) ==
    LET w == job[r].wallet IN
    /\ pc[r] \in Transacting
    /\ rowLock' = [rowLock EXCEPT ![w] = IF @ = r THEN Nobody ELSE @]
    /\ Conclude(r, "unlock", "error")
    /\ UNCHANGED <<balance, ledger, orphan, lockKey, cache, job, val, before, filler>>

\* The finally block: DEL lock:wallet:<w>, whoever set it, then the answer.
\* If the DEL throws, its error replaces the verdict.
ReleaseLock(r) ==
    /\ pc[r] = "unlock"
    /\ \/ /\ lockKey' = [lockKey EXCEPT ![job[r].wallet] = FALSE]
          /\ Goto(r, "done")
          /\ UNCHANGED result
       \/ /\ Conclude(r, "done", "error")
          /\ UNCHANGED lockKey
    /\ UNCHANGED <<balance, ledger, rowLock, orphan, cache, job, val, before, filler>>
-----------------------------------------------------------------------------
\* getBalance: GET the cached balance.
ReadCache(r) ==
    LET w == job[r].wallet IN
    /\ pc[r] = "readCache"
    /\ \/ /\ cache[w] # Miss
          /\ val' = [val EXCEPT ![r] = cache[w]]
          /\ Conclude(r, "done", "ok")
       \/ /\ cache[w] = Miss
          /\ Goto(r, "readRow")
          /\ UNCHANGED <<val, result>>
    /\ UNCHANGED <<balance, ledger, rowLock, orphan, lockKey, cache, job, before, filler>>

\* getBalance: a plain SELECT sees the last committed row.
ReadRow(r) ==
    /\ pc[r] = "readRow"
    /\ val' = [val EXCEPT ![r] = balance[job[r].wallet]]
    /\ Goto(r, "storeCache")
    /\ UNCHANGED <<balance, ledger, rowLock, orphan, lockKey, cache, job, result,
                   before, filler>>

\* getBalance: SET the cache to what was read, for 60 seconds.
StoreCache(r) ==
    /\ pc[r] = "storeCache"
    /\ cache' = [cache EXCEPT ![job[r].wallet] = val[r]]
    /\ filler' = [filler EXCEPT ![job[r].wallet] = r]
    /\ Conclude(r, "done", "ok")
    /\ UNCHANGED <<balance, ledger, rowLock, orphan, lockKey, job, val, before>>

\* getBalance: a statement throws; the handler answers 500.
ReadFails(r) ==
    /\ pc[r] \in Reading
    /\ Conclude(r, "done", "error")
    /\ UNCHANGED <<balance, ledger, rowLock, orphan, lockKey, cache, job, val,
                   before, filler>>
-----------------------------------------------------------------------------
\* The 30 seconds of LOCK_TTL end, whether or not the operation has.
LockExpires(w) ==
    /\ lockKey[w]
    /\ lockKey' = [lockKey EXCEPT ![w] = FALSE]
    /\ UNCHANGED <<balance, ledger, rowLock, orphan, cache, pc, job, val, result,
                   before, filler>>

\* The 60 seconds of BALANCE_CACHE_TTL end.
CacheExpires(w) ==
    /\ cache[w] # Miss
    /\ cache' = [cache EXCEPT ![w] = Miss]
    /\ UNCHANGED <<balance, ledger, rowLock, orphan, lockKey, pc, job, val, result,
                   before, filler>>

\* The wallet service dies: callers see a broken connection, MySQL rolls the
\* transactions back, except where a COMMIT was in flight, and the keys in
\* Redis stay.
Crash ==
    LET lost == {r \in Requests : pc[r] \in Handling} IN
    /\ lost # {}
    /\ orphan' = orphan \union {r \in lost : pc[r] = "commit"}
    /\ rowLock' = [w \in Wallets |-> IF rowLock[w] \in orphan' THEN rowLock[w] ELSE Nobody]
    /\ pc' = [r \in Requests |-> IF r \in lost THEN "done" ELSE pc[r]]
    /\ result' = [r \in Requests |-> IF r \in lost THEN "error" ELSE result[r]]
    /\ UNCHANGED <<balance, ledger, lockKey, cache, job, val, before, filler>>

\* Every request is answered: nothing is left to do.
Finished ==
    /\ \A r \in Requests : Over(r)
    /\ UNCHANGED vars

MoneyStep(r) ==
    \/ AcquireLock(r) \/ SelectForUpdate(r) \/ Write(r)
    \/ InvalidateCache(r) \/ Commit(r) \/ CommitUnanswered(r) \/ ReleaseLock(r)
ReadStep(r) == ReadCache(r) \/ ReadRow(r) \/ StoreCache(r)

Next ==
    \/ \E r \in Requests :
          \/ Arrive(r) \/ MoneyStep(r) \/ Rollback(r) \/ OrphanEnds(r)
          \/ ReadStep(r) \/ ReadFails(r)
    \/ \E w \in Wallets : LockExpires(w) \/ CacheExpires(w)
    \/ Crash
    \/ Finished

Spec == Init /\ [][Next]_vars

\* Node resumes every await that completes, and MySQL ends every lost
\* connection; nothing obliges a client to send, a key to expire, a statement to
\* fail or a crash.
Fairness ==
    \A r \in Requests : WF_vars(MoneyStep(r) \/ ReadStep(r)) /\ WF_vars(OrphanEnds(r))

FairSpec == Spec /\ Fairness
-----------------------------------------------------------------------------
\* The requests whose amount carries half a paisa: addMoney lets them through.
Fractional == {r \in Requests : job[r].amount % 2 = 1}

\* README "Double-Entry Bookkeeping": the balance column is always the last
\* balance of the ledger, and the entries of a wallet add up to it, although
\* the Redis lock that should serialise the writers may expire under them.
\* Where half a paisa is rounded the entry is a paisa off at most, and the
\* error neither spreads to other entries nor grows.
RunningBalance ==
    \A w \in Wallets :
        /\ Chains(Opening[w], ledger[w], Fractional)
        /\ balance[w] = LastBalance(Opening[w], ledger[w])

\* The funds check of /internal/debit: no wallet is ever overdrawn, not even
\* by debits that passed their checks at the same time.
NeverOverdrawn == \A w \in Wallets : balance[w] >= 0

\* The row of a wallet is held by exactly the transaction that runs on it, or
\* whose COMMIT MySQL has yet to see: two writers of a wallet never overlap,
\* even if the Redis lock let both in, and no way out of a transaction, by an
\* error, a lost connection or a crash, leaves the row locked for good.
RowsFollowTransactions ==
    \A w \in Wallets, r \in Requests :
        rowLock[w] = r <=> (pc[r] \in InTransaction \/ r \in orphan) /\ job[r].wallet = w

\* getBalance never shows a balance that was not committed: what the cache
\* holds is the balance some entry of the wallet left, or the first one.
CacheWasCommitted ==
    \A w \in Wallets :
        cache[w] # Miss =>
            \E i \in 1..(Len(ledger[w]) + 1) :
                cache[w] = BalanceBefore(Opening[w], ledger[w], i)

\* Neither of operation q and read r was over when the other arrived.
Overlap(q, r) == q \notin before[r] /\ r \notin before[q]

\* What the comment "Invalidate balance cache" can promise: a cached balance is
\* stale only if the read that stored it overlapped an operation on the wallet,
\* its COMMIT included.  An operation that arrives after a read is done never
\* leaves that read's balance behind, although it invalidates before it commits,
\* and crashes may come between the two.
StaleNeedsRace ==
    \A w \in Wallets :
        cache[w] \notin {Miss, balance[w]} =>
            \E q \in Requests : Records(ledger[w], q) /\ Overlap(q, filler[w])

\* What the callers of the money operations have been told so far.
Told == [r \in Requests |-> IF pc[r] = "done" /\ job[r].op # "getBalance"
                              THEN result[r] ELSE "none"]

\* The service does what AtomicLedger promises: every request moves its money
\* at most once and in one step, before it is told anything but "error"; "ok" is
\* only said of money that moved, a refusal only of money that never will.
Atomic == INSTANCE AtomicLedger WITH result <- Told
ImplementsAtomicLedger == Atomic!Spec

\* No two entries are of one request.
EntriesUnique ==
    \A v, w \in Wallets : \A i \in 1..Len(ledger[v]), j \in 1..Len(ledger[w]) :
        ledger[v][i].transaction_id = ledger[w][j].transaction_id => v = w /\ i = j

\* Whatever fractions the amounts carry, a request has one entry at most in all
\* the ledgers, and what its caller was told of it is true and stays so.
MovedAsTold ==
    /\ EntriesUnique
    /\ \A r \in Requests :
           /\ Told[r] = "ok" => Atomic!Applied(r)
           /\ Told[r] \in Atomic!Refusals => ~Atomic!Applied(r)

\* Every request that arrived is answered: none waits for a row for ever.
EveryRequestAnswered ==
    \A r \in Requests : pc[r] \in Handling ~> pc[r] = "done"

\* The comment "Invalidate balance cache": once the operations on a wallet
\* are over, the cache does not hold a balance from before them.
CacheInvalidated ==
    \A w \in Wallets :
        (\A r \in Requests : job[r].wallet = w => pc[r] = "idle" \/ Over(r))
            => cache[w] \in {Miss, balance[w]}
=============================================================================
