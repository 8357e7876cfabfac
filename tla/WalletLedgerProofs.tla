------------------------- MODULE WalletLedgerProofs -------------------------
(***************************************************************************)
(* Proofs about WalletLedger, for any wallets, requests and amounts: types, *)
(* no overdraft, a ledger that adds up to the balance, honest answers, and  *)
(* what can and cannot leave a stale balance in Redis.  None of them uses   *)
(* the Redis lock: the row lock alone carries the argument.                 *)
(***************************************************************************)
EXTENDS WalletLedger, SequenceTheorems, TLAPS

\* Request r has a transaction on a row, or left one behind with its COMMIT.
Holds(r) == pc[r] \in InTransaction \/ r \in orphan

\* A balance that is about to be committed fits its column.
CommitsStorable ==
    \A r \in Requests : pc[r] \in {"invalidate", "commit"} \/ r \in orphan => val[r] \in Storable

\* A request that left its COMMIT behind runs no statement but the release.
OrphansLeft == \A r \in orphan : pc[r] \in {"unlock", "done"}

TypeInv == TypeOK /\ CommitsStorable /\ OrphansLeft

\* Money only moves by amounts that passed a check for being positive.
Admitted == \A r \in Requests : pc[r] \in {"lock"} \union Transacting => job[r].amount > 0

\* A balance on its way to the table is not negative.
WritesFunded == \A r \in Requests : Holds(r) => val[r] >= 0

FundsInv == Admitted /\ WritesFunded /\ NeverOverdrawn

\* What a transaction will write is still the committed balance moved by its amount.
WritesCurrent ==
    \A r \in Requests :
        Holds(r) =>
            val[r] \in Decimal(balance[job[r].wallet] + Delta(TypeOf(job[r]), job[r].amount))

\* The balance column holds whole paise, whatever the amounts.
WholeBalances == \A w \in Wallets : balance[w] % 2 = 0

LedgerInv == WritesCurrent /\ WholeBalances /\ RunningBalance

\* The balance b was committed: it is where wallet w began or what one of the
\* entries of w left behind.
Committed(w, b) ==
    \E i \in 1..(Len(ledger[w]) + 1) : b = BalanceBefore(Opening[w], ledger[w], i)

\* So was every balance a request is about to put into the cache, and the
\* column is the last of them.
StoresCommitted == \A r \in Requests : pc[r] = "storeCache" => Committed(job[r].wallet, val[r])
BalanceLast == \A w \in Wallets : balance[w] = LastBalance(Opening[w], ledger[w])

CacheInv == CacheWasCommitted /\ StoresCommitted /\ BalanceLast
-----------------------------------------------------------------------------
\* A DECIMAL(15, 2) holds whole paise, and rounding to them never turns a sum
\* that is not negative into a negative balance.
LEMMA DecimalRounding ==
    ASSUME NEW x \in Int, NEW b \in Decimal(x)
    PROVE  /\ b \in Int
           /\ x >= 0 => b >= 0
           /\ b % 2 = 0
  BY DEF Decimal

\* Rounded by themselves, a balance and an amount that moves it agree, or the
\* amount carries half a paisa and the balance moved one paisa less.
LEMMA RoundedApart ==
    ASSUME NEW x \in Int, x % 2 = 0, NEW a \in Int, NEW type \in EntryTypes,
           NEW b \in Decimal(x + Delta(type, a))
    PROVE  \/ b = x + Delta(type, DecimalAmount(a))
           \/ a % 2 = 1 /\ b = x + Delta(type, DecimalAmount(a) - 2)
<1>1. CASE a % 2 = 0
  <2>1. DecimalAmount(a) = a
    BY <1>1 DEF DecimalAmount
  <2>2. (x + a) % 2 = 0 /\ (x - a) % 2 = 0
    BY <1>1
  <2>3. (x + Delta(type, a)) % 2 = 0
    BY <2>2 DEF Delta, EntryTypes
  <2> QED
    BY <2>1, <2>3 DEF Decimal
<1>2. CASE a % 2 = 1
  <2>1. DecimalAmount(a) = a + 1
    BY <1>2 DEF DecimalAmount
  <2>2. (x + a) % 2 # 0 /\ (x - a) % 2 # 0
    BY <1>2
  <2>3. b \in {x + Delta(type, a) - 1, x + Delta(type, a) + 1}
    BY <2>2 DEF Decimal, Delta, EntryTypes
  <2> QED
    BY <1>2, <2>1, <2>3 DEF Delta, EntryTypes
<1> QED
  BY <1>1, <1>2

\* A job is what Job says, whichever operation it asks for.
LEMMA JobFields ==
    ASSUME NEW j \in Job
    PROVE  /\ j.wallet \in Wallets
           /\ j.amount \in Int
           /\ j.amount \in Amounts \/ j.amount = 0
           /\ TypeOf(j) \in EntryTypes
           /\ Delta(TypeOf(j), j.amount) \in Int
<1>1. /\ j.wallet \in Wallets
      /\ j.amount \in Amounts \/ j.amount = 0
  BY DEF Job
<1>2. \A a \in Amounts \union {0} : a \in Int
  BY AmountsAssumption
<1>3. j.amount \in Int
  BY <1>1, <1>2
<1>4. TypeOf(j) \in EntryTypes /\ Delta(TypeOf(j), j.amount) \in Int
  BY <1>3 DEF TypeOf, EntryTypes, Delta
<1> QED
  BY <1>1, <1>3, <1>4

\* Appending an entry that moves the last balance keeps the chain.
LEMMA ChainsAppend ==
    ASSUME NEW opening, NEW fractional, NEW entries \in Seq(LedgerEntry), NEW e \in LedgerEntry,
           Chains(opening, entries, fractional),
           \/ e.balance_after = LastBalance(opening, entries) + Delta(e.entry_type, e.amount)
           \/ /\ e.transaction_id \in fractional
              /\ e.balance_after = LastBalance(opening, entries) + Delta(e.entry_type, e.amount - 2)
    PROVE  /\ Chains(opening, Append(entries, e), fractional)
           /\ LastBalance(opening, Append(entries, e)) = e.balance_after
<1> DEFINE longer == Append(entries, e)
           Moved(x, from) ==
               \/ x.balance_after = from + Delta(x.entry_type, x.amount)
               \/ /\ x.transaction_id \in fractional
                  /\ x.balance_after = from + Delta(x.entry_type, x.amount - 2)
<1>1. /\ Len(longer) = Len(entries) + 1
      /\ \A i \in 1..Len(entries) : longer[i] = entries[i]
      /\ longer[Len(entries) + 1] = e
      /\ Len(entries) \in Nat
  BY AppendProperties
<1>2. \A i \in 1..(Len(entries) + 1) :
          BalanceBefore(opening, longer, i) = BalanceBefore(opening, entries, i)
  BY <1>1 DEF BalanceBefore
<1>3. \A i \in 1..Len(entries) : Moved(entries[i], BalanceBefore(opening, entries, i))
  BY DEF Chains
<1>4. Moved(e, BalanceBefore(opening, entries, Len(entries) + 1))
  BY DEF LastBalance
<1> HIDE DEF Moved
<1>5. ASSUME NEW i \in 1..Len(longer)
      PROVE  Moved(longer[i], BalanceBefore(opening, longer, i))
  <2>1. CASE i \in 1..Len(entries)
    BY <2>1, <1>1, <1>2, <1>3
  <2>2. CASE i = Len(entries) + 1
    BY <2>2, <1>1, <1>2, <1>4
  <2> QED
    BY <1>1, <2>1, <2>2
<1>6. LastBalance(opening, longer) = e.balance_after
  BY <1>1 DEF LastBalance, BalanceBefore
<1>7. Chains(opening, longer, fractional)
  BY <1>5 DEF Chains, Moved
<1> QED
  BY <1>6, <1>7
-----------------------------------------------------------------------------
\* The wallet service starts with well-typed variables.
LEMMA TypeInit == Init => TypeInv
<1> SUFFICES ASSUME Init PROVE TypeInv
  OBVIOUS
<1>1. Opening \in [Wallets -> Storable]
  BY OpeningAssumption DEF Storable
<1>2. <<>> \in Seq(LedgerEntry)
  OBVIOUS
<1> QED
  BY <1>1, <1>2 DEF Init, TypeInv, TypeOK, CommitsStorable, OrphansLeft, Verdicts

\* What COMMIT makes visible fits the columns.
LEMMA PublishTypes ==
    ASSUME TypeOK, NEW r \in Requests, val[r] \in Storable, Publish(r)
    PROVE  /\ balance' \in [Wallets -> Storable]
           /\ ledger' \in [Wallets -> Seq(LedgerEntry)]
           /\ rowLock' \in [Wallets -> Requests \union {Nobody}]
<1> DEFINE w == job[r].wallet
           e == Entry(r, TypeOf(job[r]), DecimalAmount(job[r].amount), val[r])
<1>1. w \in Wallets /\ TypeOf(job[r]) \in EntryTypes /\ DecimalAmount(job[r].amount) \in Int
  BY JobFields DEF TypeOK, DecimalAmount
<1>2. e \in LedgerEntry
  BY <1>1 DEF Entry, LedgerEntry
<1>3. ledger[w] \in Seq(LedgerEntry) /\ Append(ledger[w], e) \in Seq(LedgerEntry)
  BY <1>1, <1>2, AppendProperties DEF TypeOK
<1>4. ledger' = [ledger EXCEPT ![w] = Append(@, e)]
  BY DEF Publish
<1> HIDE DEF e, w
<1>5. ledger' \in [Wallets -> Seq(LedgerEntry)]
  BY <1>3, <1>4 DEF TypeOK
<1> QED
  BY <1>5 DEF Publish, TypeOK

\* Every step keeps the types, one case per action.
LEMMA TypeStep == TypeInv /\ [Next]_vars => TypeInv'
<1> SUFFICES ASSUME TypeInv, [Next]_vars PROVE TypeInv'
  OBVIOUS
<1> USE DEF TypeInv, TypeOK, CommitsStorable, OrphansLeft, Goto, Conclude, Verdicts,
            Handling, Transacting, InTransaction, Reading
<1>1. ASSUME NEW r \in Requests, Arrive(r) PROVE TypeInv'
  <2>1. pc[r] = "idle"
    BY <1>1 DEF Arrive
  <2>2. PICK label \in {"done", "lock", "readCache"} : pc' = [pc EXCEPT ![r] = label]
    BY <1>1 DEF Arrive
  <2>3. result' \in [Requests -> Verdicts]
    BY <1>1 DEF Arrive
  <2>4. before' \in [Requests -> SUBSET Requests]
    BY <1>1 DEF Arrive
  <2>5. UNCHANGED <<balance, ledger, rowLock, orphan, lockKey, cache, job, val, filler>>
    BY <1>1 DEF Arrive
  <2>6. TypeOK'
    BY <2>2, <2>3, <2>4, <2>5
  <2>7. CommitsStorable'
    BY <2>2, <2>5
  <2>8. OrphansLeft'
    BY <2>1, <2>2, <2>5
  <2> QED
    BY <2>6, <2>7, <2>8
<1>2. ASSUME NEW r \in Requests, AcquireLock(r) PROVE TypeInv'
  <2>1. lockKey' \in [Wallets -> BOOLEAN]
    BY <1>2, JobFields DEF AcquireLock
  <2>2. PICK label \in {"select", "done"} : pc' = [pc EXCEPT ![r] = label]
    BY <1>2 DEF AcquireLock
  <2>3. result' \in [Requests -> Verdicts]
    BY <1>2 DEF AcquireLock
  <2>4. UNCHANGED <<balance, ledger, rowLock, orphan, cache, job, val, before, filler>>
    BY <1>2 DEF AcquireLock
  <2>5. pc[r] = "lock"
    BY <1>2 DEF AcquireLock
  <2>6. TypeOK'
    BY <2>1, <2>2, <2>3, <2>4
  <2>7. CommitsStorable' /\ OrphansLeft'
    BY <2>2, <2>4, <2>5
  <2> QED
    BY <2>6, <2>7
<1>3. ASSUME NEW r \in Requests, SelectForUpdate(r) PROVE TypeInv'
  <2> DEFINE w == job[r].wallet
             sum == balance[w] + Delta(TypeOf(job[r]), job[r].amount)
             poor == job[r].op = "debit" /\ balance[w] < job[r].amount
  <2>1. job[r] \in Job /\ w \in Wallets /\ sum \in Int
    BY JobFields DEF Storable
  <2>2. \A b \in Decimal(sum) : b \in Int
    BY <2>1, DecimalRounding
  <2>3. CASE ~poor
    <3>1. PICK b \in Decimal(sum) : val' = [val EXCEPT ![r] = b]
      BY <1>3, <2>3 DEF SelectForUpdate
    <3>2. val' \in [Requests -> Int]
      BY <3>1, <2>2
    <3>3. rowLock' = [rowLock EXCEPT ![w] = r] /\ pc' = [pc EXCEPT ![r] = "write"]
      BY <1>3, <2>3 DEF SelectForUpdate
    <3> QED
      BY <1>3, <2>1, <2>3, <3>1, <3>2, <3>3 DEF SelectForUpdate
  <2>4. CASE poor
    <3>1. /\ pc' = [pc EXCEPT ![r] = "unlock"] /\ result' = [result EXCEPT ![r] = "insufficient"]
          /\ UNCHANGED <<balance, ledger, rowLock, orphan, lockKey, cache, job, val, before, filler>>
      BY <1>3, <2>4 DEF SelectForUpdate
    <3> QED
      BY <3>1
  <2> QED
    BY <2>3, <2>4
<1>4. ASSUME NEW r \in Requests, Write(r) PROVE TypeInv'
  <2>1. job[r].wallet \in Wallets
    BY JobFields
  <2>2. CASE val[r] \in Storable
    <3>1. /\ pc' = [pc EXCEPT ![r] = "invalidate"]
          /\ rowLock' = [rowLock EXCEPT ![job[r].wallet] = r]
          /\ UNCHANGED <<balance, ledger, orphan, lockKey, cache, job, val, result,
                         before, filler>>
      BY <1>4, <2>2 DEF Write
    <3>2. TypeOK'
      BY <2>1, <3>1
    <3>3. CommitsStorable' /\ OrphansLeft'
      BY <1>4, <2>2, <3>1 DEF Write
    <3> QED
      BY <3>2, <3>3
  <2>3. CASE val[r] \notin Storable
    BY <1>4, <2>1, <2>3 DEF Write
  <2> QED
    BY <2>2, <2>3
<1>5. ASSUME NEW r \in Requests, InvalidateCache(r) PROVE TypeInv'
  BY <1>5, JobFields DEF InvalidateCache
<1>6. ASSUME NEW r \in Requests, val[r] \in Storable, Publish(r)
      PROVE  /\ balance' \in [Wallets -> Storable]
             /\ ledger' \in [Wallets -> Seq(LedgerEntry)]
             /\ rowLock' \in [Wallets -> Requests \union {Nobody}]
  BY <1>6, PublishTypes
<1>7. ASSUME NEW r \in Requests, Commit(r) PROVE TypeInv'
  <2>1. val[r] \in Storable /\ Publish(r)
    BY <1>7 DEF Commit
  <2> QED
    BY <1>6, <1>7, <2>1 DEF Commit
<1>8. ASSUME NEW r \in Requests, CommitUnanswered(r) PROVE TypeInv'
  BY <1>8 DEF CommitUnanswered
<1>9. ASSUME NEW r \in Requests, OrphanEnds(r) PROVE TypeInv'
  <2>1. /\ balance' \in [Wallets -> Storable]
        /\ ledger' \in [Wallets -> Seq(LedgerEntry)]
        /\ rowLock' \in [Wallets -> Requests \union {Nobody}]
    BY <1>6, <1>9 DEF OrphanEnds
  <2> QED
    BY <1>9, <2>1 DEF OrphanEnds
<1>10. ASSUME NEW r \in Requests, Rollback(r) PROVE TypeInv'
  BY <1>10, JobFields DEF Rollback
<1>11. ASSUME NEW r \in Requests, ReleaseLock(r) PROVE TypeInv'
  <2>1. lockKey' \in [Wallets -> BOOLEAN] /\ pc' = [pc EXCEPT ![r] = "done"]
    BY <1>11, JobFields DEF ReleaseLock
  <2>2. result' \in [Requests -> Verdicts]
    BY <1>11 DEF ReleaseLock
  <2> QED
    BY <1>11, <2>1, <2>2 DEF ReleaseLock
<1>12. ASSUME NEW r \in Requests, ReadStep(r) \/ ReadFails(r) PROVE TypeInv'
  <2>1. job[r].wallet \in Wallets
    BY JobFields
  <2>2. CASE ReadCache(r)
    <3>1. val' \in [Requests -> Int] /\ \A q \in Requests \ {r} : val'[q] = val[q]
      BY <2>1, <2>2 DEF ReadCache
    <3>2. \E label \in {"readRow", "done"} : pc' = [pc EXCEPT ![r] = label]
      BY <2>2 DEF ReadCache
    <3>3. result' \in [Requests -> Verdicts]
      BY <2>2 DEF ReadCache
    <3>4. CommitsStorable' /\ OrphansLeft'
      BY <2>2, <3>1, <3>2 DEF ReadCache
    <3>5. UNCHANGED <<balance, ledger, rowLock, orphan, lockKey, cache, job, before, filler>>
      BY <2>2 DEF ReadCache
    <3>6. TypeOK'
      BY <3>1, <3>2, <3>3, <3>5
    <3> QED
      BY <3>4, <3>6
  <2>3. CASE ReadRow(r)
    BY <2>1, <2>3 DEF ReadRow, Storable
  <2>4. CASE StoreCache(r)
    BY <2>1, <2>4 DEF StoreCache
  <2>5. CASE ReadFails(r)
    BY <2>5 DEF ReadFails
  <2> QED
    BY <1>12, <2>2, <2>3, <2>4, <2>5 DEF ReadStep
<1>13. ASSUME NEW w \in Wallets, LockExpires(w) \/ CacheExpires(w) PROVE TypeInv'
  BY <1>13 DEF LockExpires, CacheExpires
<1>14. CASE Crash
  <2>1. orphan' \subseteq Requests /\ rowLock' \in [Wallets -> Requests \union {Nobody}]
    BY <1>14 DEF Crash
  <2> QED
    BY <1>14, <2>1 DEF Crash
<1>15. CASE UNCHANGED vars
  BY <1>15 DEF vars
<1> QED
  BY <1>1, <1>2, <1>3, <1>4, <1>5, <1>7, <1>8, <1>9, <1>10, <1>11, <1>12, <1>13, <1>14, <1>15
     DEF Next, MoneyStep, Finished

\* So they hold at all times.
LEMMA TypeInvariant == Spec => []TypeInv
<1> QED
  BY TypeInit, TypeStep, PTL DEF Spec

\* Every variable of the wallet service keeps its type, and no statement of
\* a transaction ever commits a balance its column cannot hold.
THEOREM TypeCorrect == Spec => []TypeOK
<1>1. TypeInv => TypeOK
  BY DEF TypeInv
<1> QED
  BY <1>1, TypeInvariant, PTL
-----------------------------------------------------------------------------
\* No transaction has begun and no balance is negative.
LEMMA FundsInit == Init => FundsInv
  BY OpeningAssumption
     DEF Init, FundsInv, Admitted, WritesFunded, Holds, NeverOverdrawn, Transacting, InTransaction

\* Every step keeps the balances and those about to be written non-negative.
LEMMA FundsStep == TypeInv /\ FundsInv /\ [Next]_vars => FundsInv'
<1> SUFFICES ASSUME TypeInv, FundsInv, [Next]_vars PROVE FundsInv'
  OBVIOUS
<1> USE DEF FundsInv, Admitted, WritesFunded, Holds, NeverOverdrawn, TypeInv, TypeOK, OrphansLeft,
            Goto, Conclude, Handling, Transacting, InTransaction, Reading
<1>1. ASSUME NEW r \in Requests, Arrive(r) PROVE FundsInv'
  <2>1. job[r].op \in {"debit", "credit", "addMoney", "getBalance"}
    BY DEF Job
  <2>2. job[r].op \in {"debit", "credit"} => job[r].amount > 0
    BY DEF Job
  <2>3. UNCHANGED <<balance, job, val, orphan>>
    BY <1>1 DEF Arrive
  <2>4. \/ pc' = [pc EXCEPT ![r] = "done"]
        \/ pc' = [pc EXCEPT ![r] = "readCache"]
        \/ pc' = [pc EXCEPT ![r] = "lock"] /\ job[r].amount > 0
    <3>1. job[r].op = "addMoney" => job[r].amount \in Int
      BY AmountsAssumption DEF Job
    <3> QED
      BY <1>1, <2>1, <2>2, <3>1 DEF Arrive
  <2> QED
    BY <2>3, <2>4
<1>2. ASSUME NEW r \in Requests, AcquireLock(r) PROVE FundsInv'
  BY <1>2 DEF AcquireLock
<1>3. ASSUME NEW r \in Requests, SelectForUpdate(r) PROVE FundsInv'
  <2> DEFINE w == job[r].wallet
             sum == balance[w] + Delta(TypeOf(job[r]), job[r].amount)
             poor == job[r].op = "debit" /\ balance[w] < job[r].amount
  <2>1. CASE poor
    <3>1. pc' = [pc EXCEPT ![r] = "unlock"]
      BY <1>3, <2>1 DEF SelectForUpdate
    <3> QED
      BY <1>3, <2>1, <3>1 DEF SelectForUpdate
  <2>2. CASE ~poor
    <3>1. w \in Wallets /\ job[r].amount \in Int /\ balance[w] \in Int /\ sum \in Int
      BY JobFields DEF Storable
    <3>2. sum >= 0
      BY <1>3, <2>2, <3>1 DEF SelectForUpdate, Delta, TypeOf
    <3>3. PICK b \in Decimal(sum) : val' = [val EXCEPT ![r] = b]
      BY <1>3, <2>2 DEF SelectForUpdate
    <3>4. b >= 0
      BY <3>1, <3>2, DecimalRounding
    <3>5. pc' = [pc EXCEPT ![r] = "write"] /\ UNCHANGED <<balance, job, orphan>>
      BY <1>3, <2>2 DEF SelectForUpdate
    <3> QED
      BY <1>3, <3>3, <3>4, <3>5 DEF SelectForUpdate
  <2> QED
    BY <2>1, <2>2
<1>4. ASSUME NEW r \in Requests, Write(r) PROVE FundsInv'
  BY <1>4 DEF Write
<1>5. ASSUME NEW r \in Requests, InvalidateCache(r) PROVE FundsInv'
  BY <1>5 DEF InvalidateCache
<1>6. ASSUME NEW r \in Requests, Commit(r) \/ CommitUnanswered(r) \/ OrphanEnds(r) PROVE FundsInv'
  <2>1. job[r].wallet \in Wallets /\ val[r] >= 0
    BY <1>6, JobFields DEF Commit, CommitUnanswered, OrphanEnds
  <2> QED
    BY <1>6, <2>1 DEF Commit, CommitUnanswered, OrphanEnds, Publish
<1>7. ASSUME NEW r \in Requests, Rollback(r) PROVE FundsInv'
  BY <1>7 DEF Rollback
<1>8. ASSUME NEW r \in Requests, ReleaseLock(r) PROVE FundsInv'
  BY <1>8 DEF ReleaseLock
<1>9. ASSUME NEW r \in Requests, ReadStep(r) \/ ReadFails(r) PROVE FundsInv'
  <2>1. /\ pc[r] \in Reading
        /\ \E label \in {"readRow", "storeCache", "done"} : pc' = [pc EXCEPT ![r] = label]
        /\ \A q \in Requests : q # r => val'[q] = val[q]
        /\ UNCHANGED <<balance, job, orphan>>
    BY <1>9 DEF ReadStep, ReadCache, ReadRow, StoreCache, ReadFails
  <2> QED
    BY <2>1
<1>10. ASSUME NEW w \in Wallets, LockExpires(w) \/ CacheExpires(w) PROVE FundsInv'
  BY <1>10 DEF LockExpires, CacheExpires
<1>11. CASE Crash
  BY <1>11 DEF Crash
<1>12. CASE UNCHANGED vars
  BY <1>12 DEF vars
<1> QED
  BY <1>1, <1>2, <1>3, <1>4, <1>5, <1>6, <1>7, <1>8, <1>9, <1>10, <1>11, <1>12
     DEF Next, MoneyStep, Finished

\* No wallet is ever overdrawn, however the debits interleave, expire, fail
\* or crash, and whatever fractions of a paisa the amounts carry.
THEOREM NoOverdraft == Spec => []NeverOverdrawn
<1>1. Init => FundsInv
  BY FundsInit
<1>2. TypeInv /\ FundsInv /\ [Next]_vars => FundsInv'
  BY FundsStep
<1>3. FundsInv => NeverOverdrawn
  BY DEF FundsInv
<1> QED
  BY <1>1, <1>2, <1>3, TypeInvariant, PTL DEF Spec
-----------------------------------------------------------------------------
\* A step that neither begins nor ends a transaction keeps the rows held.
LEMMA RowsFrame ==
    ASSUME RowsFollowTransactions, UNCHANGED <<rowLock, job>>,
           \A r \in Requests : Holds(r)' <=> Holds(r)
    PROVE  RowsFollowTransactions'
  BY DEF RowsFollowTransactions, Holds

\* Every step keeps the rows with their transactions, one case per action that
\* begins, continues or ends one.
LEMMA RowsStep == TypeInv /\ RowsFollowTransactions /\ [Next]_vars => RowsFollowTransactions'
<1> SUFFICES ASSUME TypeInv, RowsFollowTransactions, [Next]_vars PROVE RowsFollowTransactions'
  OBVIOUS
<1> USE DEF TypeInv, TypeOK, OrphansLeft, Goto, Conclude, Handling, Transacting, InTransaction,
            Reading
<1>1. ASSUME NEW r \in Requests,
             Arrive(r) \/ AcquireLock(r) \/ InvalidateCache(r) \/ CommitUnanswered(r)
               \/ ReleaseLock(r) \/ ReadStep(r) \/ ReadFails(r)
      PROVE  RowsFollowTransactions'
  <2>1. UNCHANGED <<rowLock, job>>
    BY <1>1 DEF Arrive, AcquireLock, InvalidateCache, CommitUnanswered, ReleaseLock, ReadStep,
                ReadCache, ReadRow, StoreCache, ReadFails
  <2>2. \A q \in Requests : Holds(q)' <=> Holds(q)
    BY <1>1 DEF Holds, Arrive, AcquireLock, InvalidateCache, CommitUnanswered, ReleaseLock,
                ReadStep, ReadCache, ReadRow, StoreCache, ReadFails
  <2> QED
    BY <2>1, <2>2, RowsFrame
<1>2. ASSUME NEW r \in Requests, SelectForUpdate(r) PROVE RowsFollowTransactions'
  <2> DEFINE w == job[r].wallet
  <2>1. w \in Wallets
    BY JobFields
  <2>2. /\ pc[r] = "select" /\ rowLock[w] = Nobody /\ UNCHANGED <<job, orphan>>
        /\ \/ pc' = [pc EXCEPT ![r] = "unlock"] /\ UNCHANGED rowLock
           \/ pc' = [pc EXCEPT ![r] = "write"] /\ rowLock' = [rowLock EXCEPT ![w] = r]
    BY <1>2 DEF SelectForUpdate
  <2> QED
    BY <2>1, <2>2, NullAssumption DEF RowsFollowTransactions
<1>3. ASSUME NEW r \in Requests, Write(r) \/ Commit(r) \/ Rollback(r)
      PROVE  RowsFollowTransactions'
  <2> DEFINE w == job[r].wallet
  <2>1. w \in Wallets
    BY JobFields
  <2>2. /\ pc[r] \in Transacting /\ UNCHANGED <<job, orphan>>
        /\ \/ /\ pc[r] = "write" /\ pc' = [pc EXCEPT ![r] = "invalidate"]
              /\ rowLock' = [rowLock EXCEPT ![w] = r]
           \/ /\ pc[r] \in InTransaction /\ pc' = [pc EXCEPT ![r] = "unlock"]
              /\ rowLock' = [rowLock EXCEPT ![w] = Nobody]
           \/ /\ pc' = [pc EXCEPT ![r] = "unlock"]
              /\ rowLock' = [rowLock EXCEPT ![w] = IF @ = r THEN Nobody ELSE @]
    BY <1>3 DEF Write, Commit, Publish, Rollback
  <2>3. r \notin orphan /\ (pc[r] \in InTransaction <=> rowLock[w] = r)
    BY <2>1, <2>2 DEF RowsFollowTransactions
  <2>4. CASE pc' = [pc EXCEPT ![r] = "invalidate"]
    BY <2>1, <2>2, <2>3, <2>4, RowsFrame DEF Holds
  <2>5. CASE pc' = [pc EXCEPT ![r] = "unlock"]
    <3>1. rowLock'[w] # r /\ (rowLock[w] # r => rowLock'[w] = rowLock[w])
      BY <2>1, <2>2, <2>3, <2>5, NullAssumption
    <3>2. \A v \in Wallets \ {w} : rowLock'[v] = rowLock[v]
      BY <2>1, <2>2
    <3>3. rowLock[w] = r => rowLock'[w] = Nobody
      BY <2>1, <2>2, <2>3, <2>5
    <3> QED
      BY <2>1, <2>2, <2>3, <2>5, <3>1, <3>2, <3>3, NullAssumption DEF RowsFollowTransactions
  <2> QED
    BY <2>2, <2>4, <2>5
<1>4. ASSUME NEW r \in Requests, OrphanEnds(r) PROVE RowsFollowTransactions'
  <2> DEFINE w == job[r].wallet
  <2>1. w \in Wallets
    BY JobFields
  <2>2. /\ r \in orphan /\ orphan' = orphan \ {r} /\ UNCHANGED <<job, pc>>
        /\ rowLock' = [rowLock EXCEPT ![w] = Nobody]
    BY <1>4 DEF OrphanEnds, Publish
  <2>3. pc[r] \notin InTransaction /\ rowLock[w] = r
    BY <2>1, <2>2 DEF RowsFollowTransactions
  <2> QED
    BY <2>1, <2>2, <2>3, NullAssumption DEF RowsFollowTransactions
<1>5. ASSUME NEW w \in Wallets, LockExpires(w) \/ CacheExpires(w) PROVE RowsFollowTransactions'
  BY <1>5, RowsFrame DEF LockExpires, CacheExpires, Holds
<1>6. CASE Crash
  <2> SUFFICES ASSUME NEW w \in Wallets, NEW r \in Requests
               PROVE  rowLock'[w] = r <=> (pc'[r] \in InTransaction \/ r \in orphan')
                                            /\ job'[r].wallet = w
    BY DEF RowsFollowTransactions
  <2>1. rowLock[w] = r <=> (pc[r] \in InTransaction \/ r \in orphan) /\ job[r].wallet = w
    BY DEF RowsFollowTransactions
  <2>2. /\ rowLock'[w] = IF rowLock[w] \in orphan' THEN rowLock[w] ELSE Nobody
        /\ pc'[r] \notin InTransaction /\ job' = job
        /\ r \in orphan' => pc[r] \in InTransaction \/ r \in orphan
    BY <1>6 DEF Crash
  <2> QED
    BY <2>1, <2>2, NullAssumption
<1>7. CASE UNCHANGED vars
  BY <1>7, RowsFrame DEF vars, Holds
<1> QED
  BY <1>1, <1>2, <1>3, <1>4, <1>5, <1>6, <1>7 DEF Next, MoneyStep, Finished

\* No row is held before there is a request.
LEMMA RowsInit == Init => RowsFollowTransactions
  BY NullAssumption DEF Init, RowsFollowTransactions, InTransaction

\* Writers of one wallet exclude each other, and none leaves its row locked,
\* however it ends.
THEOREM RowsAreReleased == Spec => []RowsFollowTransactions
  BY RowsInit, RowsStep, TypeInvariant, PTL DEF Spec
-----------------------------------------------------------------------------
\* The empty ledgers add up to the opening balances.
LEMMA LedgerInit == Init => LedgerInv
  BY OpeningAssumption
     DEF Init, LedgerInv, WritesCurrent, Holds, WholeBalances, RunningBalance,
         Chains, LastBalance, BalanceBefore, InTransaction

\* A transaction, alone on its row, publishes a sum of whole paise.
LEMMA PublishSums ==
    ASSUME TypeInv, RowsFollowTransactions, LedgerInv, UNCHANGED job,
           NEW r \in Requests, Holds(r), val[r] \in Storable, Publish(r)
    PROVE  /\ WholeBalances' /\ RunningBalance'
           /\ \A q \in Requests \ {r} :
                  Holds(q) => balance'[job[q].wallet] = balance[job[q].wallet]
<1> DEFINE w == job[r].wallet
           e == Entry(r, TypeOf(job[r]), DecimalAmount(job[r].amount), val[r])
           sum == balance[w] + Delta(TypeOf(job[r]), job[r].amount)
<1>1. /\ w \in Wallets /\ balance[w] \in Int /\ job[r].amount \in Int
      /\ TypeOf(job[r]) \in EntryTypes /\ DecimalAmount(job[r].amount) \in Int
      /\ sum \in Int
  BY JobFields DEF TypeInv, TypeOK, Storable, DecimalAmount
<1>2. /\ balance \in [Wallets -> Storable]
      /\ ledger \in [Wallets -> Seq(LedgerEntry)]
      /\ balance' = [balance EXCEPT ![w] = val[r]]
      /\ ledger' = [ledger EXCEPT ![w] = Append(@, e)]
  BY DEF Publish, TypeInv, TypeOK
<1>3. val[r] \in Decimal(sum)
  BY DEF LedgerInv, WritesCurrent
<1>4. WholeBalances'
  BY <1>1, <1>2, <1>3, DecimalRounding DEF LedgerInv, WholeBalances
<1>5. RunningBalance'
  <2>1. /\ e \in LedgerEntry /\ e.transaction_id = r /\ e.balance_after = val[r]
        /\ e.entry_type = TypeOf(job[r]) /\ e.amount = DecimalAmount(job[r].amount)
    BY <1>1 DEF Entry, LedgerEntry
  <2>2. Chains(Opening[w], ledger[w], Fractional) /\ LastBalance(Opening[w], ledger[w]) = balance[w]
    BY <1>1 DEF LedgerInv, RunningBalance
  <2>3. \/ val[r] = balance[w] + Delta(TypeOf(job[r]), DecimalAmount(job[r].amount))
        \/ /\ r \in Fractional
           /\ val[r] = balance[w] + Delta(TypeOf(job[r]), DecimalAmount(job[r].amount) - 2)
    <3>1. balance[w] % 2 = 0
      BY <1>1 DEF LedgerInv, WholeBalances
    <3> QED
      BY <1>1, <1>3, <3>1, RoundedApart DEF Fractional
  <2> HIDE DEF e, w
  <2>4. ledger[w] \in Seq(LedgerEntry)
    BY <1>1, <1>2
  <2>5. \/ e.balance_after = LastBalance(Opening[w], ledger[w]) + Delta(e.entry_type, e.amount)
        \/ /\ e.transaction_id \in Fractional
           /\ e.balance_after = LastBalance(Opening[w], ledger[w])
                                   + Delta(e.entry_type, e.amount - 2)
    BY <2>1, <2>2, <2>3 DEF w
  <2>6. /\ Chains(Opening[w], Append(ledger[w], e), Fractional)
        /\ LastBalance(Opening[w], Append(ledger[w], e)) = val[r]
    BY <2>1, <2>2, <2>4, <2>5, ChainsAppend
  <2>7. Fractional' = Fractional
    BY DEF Fractional
  <2>8. /\ ledger'[w] = Append(ledger[w], e) /\ balance'[w] = val[r]
        /\ \A v \in Wallets \ {w} : ledger'[v] = ledger[v] /\ balance'[v] = balance[v]
    BY <1>1, <1>2
  <2> QED
    BY <1>1, <2>6, <2>7, <2>8 DEF LedgerInv, RunningBalance
<1>6. ASSUME NEW q \in Requests \ {r}, Holds(q)
      PROVE  balance'[job[q].wallet] = balance[job[q].wallet]
  <2>1. job[q].wallet \in Wallets
    BY JobFields DEF TypeInv, TypeOK
  <2>2. rowLock[job[q].wallet] = q /\ rowLock[w] = r
    BY <1>1, <1>6, <2>1 DEF RowsFollowTransactions, Holds
  <2> QED
    BY <1>2, <2>1, <2>2
<1> QED
  BY <1>4, <1>5, <1>6

\* A step that leaves the table alone, and begins no transaction but with a sum
\* it computed from the table, keeps the ledgers adding up.
LEMMA LedgerFrame ==
    ASSUME LedgerInv, UNCHANGED <<balance, ledger, job>>,
           \A r \in Requests :
               Holds(r)' =>
                   \/ Holds(r) /\ val'[r] = val[r]
                   \/ val'[r] \in Decimal(balance[job[r].wallet]
                                             + Delta(TypeOf(job[r]), job[r].amount))
    PROVE  LedgerInv'
<1>1. WritesCurrent'
  BY DEF LedgerInv, WritesCurrent
<1>2. WholeBalances' /\ RunningBalance'
  BY DEF LedgerInv, WholeBalances, RunningBalance, Fractional
<1> QED
  BY <1>1, <1>2 DEF LedgerInv

\* Every step keeps the ledgers adding up.
LEMMA LedgerStep == TypeInv /\ RowsFollowTransactions /\ LedgerInv /\ [Next]_vars => LedgerInv'
<1> SUFFICES ASSUME TypeInv, RowsFollowTransactions, LedgerInv, [Next]_vars PROVE LedgerInv'
  OBVIOUS
<1> USE DEF TypeInv, TypeOK, OrphansLeft, Holds, Goto, Conclude,
            Handling, Transacting, InTransaction, Reading
<1>1. ASSUME NEW r \in Requests,
             Arrive(r) \/ AcquireLock(r) \/ Write(r) \/ InvalidateCache(r)
               \/ CommitUnanswered(r) \/ Rollback(r) \/ ReleaseLock(r)
               \/ ReadStep(r) \/ ReadFails(r)
      PROVE  LedgerInv'
  <2>1. UNCHANGED <<balance, ledger, job>>
    BY <1>1 DEF Arrive, AcquireLock, Write, InvalidateCache, CommitUnanswered, Rollback,
                ReleaseLock, ReadStep, ReadCache, ReadRow, StoreCache, ReadFails
  <2>2. \A q \in Requests : Holds(q)' => Holds(q) /\ val'[q] = val[q]
    BY <1>1 DEF Arrive, AcquireLock, Write, InvalidateCache, CommitUnanswered, Rollback,
                ReleaseLock, ReadStep, ReadCache, ReadRow, StoreCache, ReadFails
  <2> HIDE DEF Holds
  <2> QED
    BY <2>1, <2>2, LedgerFrame
<1>2. ASSUME NEW r \in Requests, SelectForUpdate(r) PROVE LedgerInv'
  <2> DEFINE sum == balance[job[r].wallet] + Delta(TypeOf(job[r]), job[r].amount)
  <2>1. UNCHANGED <<balance, ledger, job, orphan>>
    BY <1>2 DEF SelectForUpdate
  <2>2. \/ pc' = [pc EXCEPT ![r] = "unlock"] /\ val' = val
        \/ \E b \in Decimal(sum) :
              pc' = [pc EXCEPT ![r] = "write"] /\ val' = [val EXCEPT ![r] = b]
    BY <1>2 DEF SelectForUpdate
  <2> HIDE DEF sum
  <2>3. \A q \in Requests \ {r} : Holds(q)' => Holds(q) /\ val'[q] = val[q]
    BY <2>1, <2>2
  <2>4. Holds(r)' => (Holds(r) /\ val'[r] = val[r]) \/ val'[r] \in Decimal(sum)
    BY <2>1, <2>2
  <2> HIDE DEF Holds
  <2> QED
    BY <2>1, <2>3, <2>4, LedgerFrame DEF sum
<1>3. ASSUME NEW r \in Requests, Holds(r), Publish(r), val[r] \in Storable,
             UNCHANGED <<job, val>>, ~Holds(r)',
             \A q \in Requests : Holds(q)' => Holds(q)
      PROVE  LedgerInv'
  <2> HIDE DEF Holds
  <2>1. /\ WholeBalances' /\ RunningBalance'
        /\ \A q \in Requests \ {r} :
               Holds(q) => balance'[job[q].wallet] = balance[job[q].wallet]
    BY <1>3, PublishSums
  <2>2. WritesCurrent'
    BY <1>3, <2>1 DEF LedgerInv, WritesCurrent
  <2> QED
    BY <2>1, <2>2 DEF LedgerInv
<1>4. ASSUME NEW r \in Requests, Commit(r) PROVE LedgerInv'
  BY <1>3, <1>4 DEF Commit, CommitsStorable
<1>5. ASSUME NEW r \in Requests, OrphanEnds(r) PROVE LedgerInv'
  <2>1. r \in orphan /\ orphan' = orphan \ {r} /\ UNCHANGED <<pc, job, val>>
    BY <1>5 DEF OrphanEnds
  <2>2. CASE Publish(r)
    BY <1>3, <2>1, <2>2 DEF CommitsStorable
  <2>3. CASE UNCHANGED <<balance, ledger>>
    <3>1. \A q \in Requests : Holds(q)' => Holds(q) /\ val'[q] = val[q]
      BY <2>1
    <3> HIDE DEF Holds
    <3> QED
      BY <2>1, <2>3, <3>1, LedgerFrame
  <2> QED
    BY <1>5, <2>2, <2>3 DEF OrphanEnds
<1>6. ASSUME NEW w \in Wallets, LockExpires(w) \/ CacheExpires(w) PROVE LedgerInv'
  BY <1>6, LedgerFrame DEF LockExpires, CacheExpires
<1>7. CASE Crash
  <2>1. UNCHANGED <<balance, ledger, job, val>>
    BY <1>7 DEF Crash
  <2>2. \A q \in Requests : Holds(q)' => Holds(q)
    BY <1>7 DEF Crash
  <2> HIDE DEF Holds
  <2> QED
    BY <2>1, <2>2, LedgerFrame
<1>8. CASE UNCHANGED vars
  BY <1>8, LedgerFrame DEF vars
<1> QED
  BY <1>1, <1>2, <1>4, <1>5, <1>6, <1>7, <1>8 DEF Next, MoneyStep, Finished

\* Whatever fractions the amounts carry and whatever becomes of the Redis lock,
\* the balance of a wallet is at all times the last balance of its ledger, and
\* each entry moved it by its amount, or by a paisa less where half a paisa was
\* rounded.
THEOREM LedgerAddsUp == Spec => []RunningBalance
<1>1. Init => RowsFollowTransactions /\ LedgerInv
  BY RowsInit, LedgerInit
<1>2. TypeInv /\ RowsFollowTransactions /\ LedgerInv /\ [Next]_vars
        => RowsFollowTransactions' /\ LedgerInv'
  BY RowsStep, LedgerStep
<1>3. LedgerInv => RunningBalance
  BY DEF LedgerInv
<1> QED
  BY <1>1, <1>2, <1>3, TypeInvariant, PTL DEF Spec
-----------------------------------------------------------------------------
\* Nothing was cached or read yet.
LEMMA CacheInit == Init => CacheInv
  BY DEF Init, CacheInv, CacheWasCommitted, StoresCommitted, BalanceLast, LastBalance,
         BalanceBefore

\* What the balance column holds is committed.
LEMMA LastCommitted ==
    ASSUME TypeOK, NEW w \in Wallets, balance[w] = LastBalance(Opening[w], ledger[w])
    PROVE  Committed(w, balance[w])
<1>1. Len(ledger[w]) \in Nat
  BY DEF TypeOK
<1>2. Len(ledger[w]) + 1 \in 1..(Len(ledger[w]) + 1)
  BY <1>1
<1> QED
  BY <1>2 DEF Committed, LastBalance

\* A step that leaves the table alone and caches nothing new, and only begins
\* to store what it read from the table, keeps the invariant.
LEMMA CacheFrame ==
    ASSUME CacheInv, TypeOK, UNCHANGED <<balance, ledger, job>>,
           \A w \in Wallets : cache'[w] \in {cache[w], Miss},
           \A r \in Requests :
               pc'[r] = "storeCache" =>
                   \/ pc[r] = "storeCache" /\ val'[r] = val[r]
                   \/ val'[r] = balance[job[r].wallet]
    PROVE  CacheInv'
<1>1. \A w, b : Committed(w, b)' <=> Committed(w, b')
  BY DEF Committed
<1>2. CacheWasCommitted'
  BY DEF CacheInv, CacheWasCommitted
<1>3. StoresCommitted'
  <2> SUFFICES ASSUME NEW r \in Requests, pc'[r] = "storeCache"
               PROVE  Committed(job[r].wallet, val'[r])
    BY DEF StoresCommitted, Committed
  <2>1. CASE pc[r] = "storeCache" /\ val'[r] = val[r]
    BY <2>1 DEF CacheInv, StoresCommitted
  <2>2. CASE val'[r] = balance[job[r].wallet]
    <3>1. job[r].wallet \in Wallets
      BY JobFields DEF TypeOK
    <3> QED
      BY <2>2, <3>1, LastCommitted DEF CacheInv, BalanceLast
  <2> QED
    BY <2>1, <2>2
<1>4. BalanceLast'
  BY DEF CacheInv, BalanceLast
<1> QED
  BY <1>2, <1>3, <1>4 DEF CacheInv

\* A ledger that grows forgets no balance, and ends with the one of its new entry.
LEMMA CommittedAppend ==
    ASSUME NEW opening, NEW entries \in Seq(LedgerEntry), NEW e \in LedgerEntry
    PROVE  /\ \A i \in 1..(Len(entries) + 1) :
                  /\ i \in 1..(Len(Append(entries, e)) + 1)
                  /\ BalanceBefore(opening, Append(entries, e), i)
                         = BalanceBefore(opening, entries, i)
           /\ LastBalance(opening, Append(entries, e)) = e.balance_after
<1>1. /\ Len(Append(entries, e)) = Len(entries) + 1
      /\ \A i \in 1..Len(entries) : Append(entries, e)[i] = entries[i]
      /\ Append(entries, e)[Len(entries) + 1] = e
      /\ Len(entries) \in Nat
  BY AppendProperties
<1> QED
  BY <1>1 DEF BalanceBefore, LastBalance

\* Every step keeps it.  Only COMMIT changes the table, and it only adds to it.
LEMMA CacheStep == TypeInv /\ CacheInv /\ [Next]_vars => CacheInv'
<1> SUFFICES ASSUME TypeInv, CacheInv, [Next]_vars PROVE CacheInv'
  OBVIOUS
<1>0. TypeOK
  BY DEF TypeInv
<1> USE DEF Goto, Conclude, Handling, Transacting, InTransaction, Reading
<1>1. ASSUME NEW r \in Requests,
             Arrive(r) \/ AcquireLock(r) \/ SelectForUpdate(r) \/ Write(r)
               \/ InvalidateCache(r) \/ CommitUnanswered(r) \/ Rollback(r) \/ ReleaseLock(r)
               \/ ReadCache(r) \/ ReadFails(r)
      PROVE  CacheInv'
  <2>1. UNCHANGED <<balance, ledger, job>>
    BY <1>1 DEF Arrive, AcquireLock, SelectForUpdate, Write, InvalidateCache,
                CommitUnanswered, Rollback, ReleaseLock, ReadCache, ReadFails
  <2>2. \A w \in Wallets : cache'[w] \in {cache[w], Miss}
    BY <1>0, <1>1 DEF TypeOK, Arrive, AcquireLock, SelectForUpdate, Write, InvalidateCache,
                CommitUnanswered, Rollback, ReleaseLock, ReadCache, ReadFails
  <2>3. /\ \A q \in Requests \ {r} : pc'[q] = pc[q] /\ val'[q] = val[q]
        /\ pc'[r] # "storeCache"
    BY <1>0, <1>1 DEF TypeOK, Arrive, AcquireLock, SelectForUpdate, Write, InvalidateCache,
                CommitUnanswered, Rollback, ReleaseLock, ReadCache, ReadFails
  <2> QED
    BY <1>0, <2>1, <2>2, <2>3, CacheFrame
<1>2. ASSUME NEW r \in Requests, ReadRow(r) PROVE CacheInv'
  <2>1. /\ UNCHANGED <<balance, ledger, job, cache>>
        /\ \A q \in Requests \ {r} : pc'[q] = pc[q] /\ val'[q] = val[q]
        /\ val'[r] = balance[job[r].wallet]
    BY <1>0, <1>2 DEF TypeOK, ReadRow
  <2> QED
    BY <1>0, <2>1, CacheFrame
<1>3. ASSUME NEW r \in Requests, StoreCache(r) PROVE CacheInv'
  <2> DEFINE w == job[r].wallet
  <2>1. /\ UNCHANGED <<balance, ledger, job, val>>
        /\ cache' = [cache EXCEPT ![w] = val[r]]
        /\ pc' = [pc EXCEPT ![r] = "done"]
        /\ pc[r] = "storeCache"
    BY <1>3 DEF StoreCache
  <2>2. Committed(w, val[r])
    BY <2>1 DEF CacheInv, StoresCommitted
  <2>3. CacheWasCommitted'
    <3> SUFFICES ASSUME NEW u \in Wallets, cache'[u] # Miss
                 PROVE  Committed(u, cache'[u])
      BY <2>1 DEF CacheWasCommitted, Committed
    <3>1. CASE u = w
      BY <1>0, <2>1, <2>2, <3>1 DEF TypeOK
    <3>2. CASE u # w
      BY <1>0, <2>1, <3>2 DEF TypeOK, CacheInv, CacheWasCommitted, Committed
    <3> QED
      BY <3>1, <3>2
  <2>4. StoresCommitted'
    BY <1>0, <2>1 DEF TypeOK, CacheInv, StoresCommitted, Committed
  <2>5. BalanceLast'
    BY <2>1 DEF CacheInv, BalanceLast
  <2> QED
    BY <2>3, <2>4, <2>5 DEF CacheInv
<1>4. ASSUME NEW r \in Requests, val[r] \in Storable, Publish(r), UNCHANGED <<cache, job, val>>,
             \A q \in Requests : pc'[q] = "storeCache" => pc[q] = "storeCache"
      PROVE  CacheInv'
  <2> DEFINE w == job[r].wallet
             e == Entry(r, TypeOf(job[r]), DecimalAmount(job[r].amount), val[r])
  <2>1. /\ w \in Wallets
        /\ TypeOf(job[r]) \in EntryTypes
        /\ DecimalAmount(job[r].amount) \in Int
        /\ val[r] \in Storable
    BY <1>0, <1>4, JobFields DEF TypeOK, DecimalAmount
  <2>2. e \in LedgerEntry /\ e.balance_after = val[r] /\ ledger[w] \in Seq(LedgerEntry)
    BY <1>0, <2>1 DEF TypeOK, Entry, LedgerEntry
  <2>3. /\ balance' = [balance EXCEPT ![w] = val[r]]
        /\ ledger' = [ledger EXCEPT ![w] = Append(@, e)]
        /\ UNCHANGED <<cache, job, val>>
    BY <1>4 DEF Publish
  <2>4. /\ ledger'[w] = Append(ledger[w], e) /\ balance'[w] = val[r]
        /\ \A u \in Wallets \ {w} : ledger'[u] = ledger[u] /\ balance'[u] = balance[u]
    BY <1>0, <2>1, <2>3 DEF TypeOK
  <2>5. ASSUME NEW u \in Wallets, NEW b, Committed(u, b)
        PROVE  \E i \in 1..(Len(ledger'[u]) + 1) : b = BalanceBefore(Opening[u], ledger'[u], i)
    <3>1. CASE u = w
      <4>1. PICK i \in 1..(Len(ledger[w]) + 1) : b = BalanceBefore(Opening[w], ledger[w], i)
        BY <2>5, <3>1 DEF Committed
      <4>2. /\ i \in 1..(Len(Append(ledger[w], e)) + 1)
            /\ BalanceBefore(Opening[w], Append(ledger[w], e), i)
                  = BalanceBefore(Opening[w], ledger[w], i)
        BY <2>2, CommittedAppend
      <4> QED
        BY <2>4, <3>1, <4>1, <4>2
    <3>2. CASE u # w
      BY <2>4, <2>5, <3>2 DEF Committed
    <3> QED
      BY <3>1, <3>2
  <2>6. CacheWasCommitted'
    <3> SUFFICES ASSUME NEW u \in Wallets, cache[u] # Miss
                 PROVE  \E i \in 1..(Len(ledger'[u]) + 1) :
                            cache[u] = BalanceBefore(Opening[u], ledger'[u], i)
      BY <2>3 DEF CacheWasCommitted
    <3>1. Committed(u, cache[u])
      BY DEF CacheInv, CacheWasCommitted, Committed
    <3> QED
      BY <2>5, <3>1
  <2>7. StoresCommitted'
    <3> SUFFICES ASSUME NEW q \in Requests, pc'[q] = "storeCache"
                 PROVE  \E i \in 1..(Len(ledger'[job[q].wallet]) + 1) :
                            val[q] = BalanceBefore(Opening[job[q].wallet],
                                                   ledger'[job[q].wallet], i)
      BY <2>3 DEF StoresCommitted, Committed
    <3>1. pc[q] = "storeCache" /\ job[q].wallet \in Wallets
      BY <1>0, <1>4, <2>3, JobFields DEF TypeOK
    <3>2. Committed(job[q].wallet, val[q])
      BY <3>1 DEF CacheInv, StoresCommitted
    <3> QED
      BY <2>5, <3>1, <3>2
  <2>8. BalanceLast'
    <3>1. LastBalance(Opening[w], Append(ledger[w], e)) = val[r]
      BY <2>2, CommittedAppend
    <3> QED
      BY <2>1, <2>4, <3>1 DEF CacheInv, BalanceLast
  <2> QED
    BY <2>6, <2>7, <2>8 DEF CacheInv
<1>5. ASSUME NEW r \in Requests, Commit(r) PROVE CacheInv'
  <2>1. \A q \in Requests : pc'[q] = "storeCache" => pc[q] = "storeCache"
    BY <1>0, <1>5 DEF TypeOK, Commit
  <2> QED
    BY <1>4, <1>5, <2>1 DEF Commit, TypeInv, CommitsStorable
<1>6. ASSUME NEW r \in Requests, OrphanEnds(r) PROVE CacheInv'
  <2>1. r \in orphan /\ UNCHANGED <<cache, pc, job, val>>
    BY <1>6 DEF OrphanEnds
  <2>2. CASE Publish(r)
    BY <1>4, <2>1, <2>2 DEF TypeInv, CommitsStorable
  <2>3. CASE UNCHANGED <<balance, ledger>>
    BY <1>0, <2>1, <2>3, CacheFrame
  <2> QED
    BY <1>6, <2>2, <2>3 DEF OrphanEnds
<1>7. ASSUME NEW w \in Wallets, LockExpires(w) \/ CacheExpires(w) PROVE CacheInv'
  <2>1. /\ UNCHANGED <<balance, ledger, job, pc, val>>
        /\ \A u \in Wallets : cache'[u] \in {cache[u], Miss}
    BY <1>0, <1>7 DEF TypeOK, LockExpires, CacheExpires
  <2> QED
    BY <1>0, <2>1, CacheFrame
<1>8. CASE Crash
  <2>1. /\ UNCHANGED <<balance, ledger, job, cache, val>>
        /\ \A q \in Requests : pc'[q] \in {pc[q], "done"}
    BY <1>0, <1>8 DEF TypeOK, Crash
  <2> QED
    BY <1>0, <2>1, CacheFrame
<1>9. CASE UNCHANGED vars
  BY <1>0, <1>9, CacheFrame DEF vars
<1> QED
  BY <1>1, <1>2, <1>3, <1>5, <1>6, <1>7, <1>8, <1>9 DEF Next, MoneyStep, ReadStep, Finished

\* Whatever the balance read races with, Redis never shows a balance that the
\* wallet did not have at some time, be the amounts whole paise or not.
THEOREM CacheShowsThePast == Spec => []CacheWasCommitted
<1>1. CacheInv => CacheWasCommitted
  BY DEF CacheInv
<1> QED
  BY <1>1, CacheInit, CacheStep, TypeInvariant, PTL DEF Spec
-----------------------------------------------------------------------------
\* What the money of a request says of its progress: it moves at the COMMIT,
\* for good, and only a request whose money moved may go on to say "ok".  One
\* that left its COMMIT behind can only say "error".
Accounted(r) ==
    /\ Atomic!Applied(r) => pc[r] \in {"unlock", "done"} /\ result[r] \in {"ok", "error"}
    /\ pc[r] \in {"unlock", "done"} /\ result[r] = "ok" /\ job[r].op # "getBalance" =>
          Atomic!Applied(r)
    /\ pc[r] \in {"lock", "unlock"} \union Transacting => job[r].op # "getBalance"
    /\ pc[r] \in Reading => job[r].op = "getBalance"
    /\ r \in orphan => result[r] = "error" /\ job[r].op # "getBalance" /\ ~Atomic!Applied(r)

AccountInv == \A r \in Requests : Accounted(r)

\* A ledger records what it recorded, and the transaction of its new entry.
LEMMA RecordsAppend ==
    ASSUME NEW s \in Seq(LedgerEntry), NEW e \in LedgerEntry, NEW id
    PROVE  Atomic!Records(Append(s, e), id) <=> Atomic!Records(s, id) \/ id = e.transaction_id
<1> DEFINE t == Append(s, e)
<1>1. /\ Len(s) \in Nat /\ Len(t) = Len(s) + 1
      /\ \A i \in 1..Len(s) : t[i] = s[i]
      /\ t[Len(s) + 1] = e
  BY AppendProperties
<1>2. Atomic!Records(t, id) => Atomic!Records(s, id) \/ id = e.transaction_id
  BY <1>1 DEF Atomic!Records
<1>3. Atomic!Records(s, id) \/ id = e.transaction_id => Atomic!Records(t, id)
  BY <1>1 DEF Atomic!Records
<1> QED
  BY <1>2, <1>3

\* A COMMIT records its request and no other, whatever the columns round.
LEMMA CommitRecords ==
    ASSUME TypeInv, NEW r \in Requests, val[r] \in Storable, Publish(r)
    PROVE  LET w == job[r].wallet
               e == Entry(r, TypeOf(job[r]), DecimalAmount(job[r].amount), val[r])
           IN
           /\ w \in Wallets /\ e \in LedgerEntry
           /\ ledger' = [ledger EXCEPT ![w] = Append(@, e)]
           /\ \A q \in Requests : Atomic!Applied(q)' <=> Atomic!Applied(q) \/ q = r
<1> DEFINE w == job[r].wallet
           e == Entry(r, TypeOf(job[r]), DecimalAmount(job[r].amount), val[r])
<1>1. w \in Wallets /\ TypeOf(job[r]) \in EntryTypes /\ job[r].amount \in Int
  BY JobFields DEF TypeInv, TypeOK
<1>2. e \in LedgerEntry /\ e.transaction_id = r
  BY <1>1 DEF Entry, LedgerEntry, DecimalAmount
<1>3. ledger' = [ledger EXCEPT ![w] = Append(@, e)]
  BY DEF Publish
<1>4. /\ \A v \in Wallets : ledger[v] \in Seq(LedgerEntry)
      /\ \A v \in Wallets : ledger'[v] = IF v = w THEN Append(ledger[v], e) ELSE ledger[v]
  BY <1>3 DEF TypeInv, TypeOK
<1>5. ASSUME NEW q \in Requests
      PROVE  Atomic!Applied(q)' <=> Atomic!Applied(q) \/ q = r
  <2> HIDE DEF e
  <2>1. \A v \in Wallets :
            Atomic!Records(ledger'[v], q) <=> Atomic!Records(ledger[v], q) \/ (v = w /\ q = r)
    BY <1>2, <1>4, RecordsAppend
  <2> QED
    BY <1>1, <2>1 DEF Atomic!Applied
<1> QED
  BY <1>1, <1>2, <1>3, <1>5

\* Money only moves at the COMMIT of a request that moved none before.
LEMMA OnlyCommitMoves ==
    ASSUME TypeInv, AccountInv, [Next]_vars
    PROVE  \/ UNCHANGED <<balance, ledger>>
           \/ \E r \in Requests :
                  /\ Commit(r) \/ OrphanEnds(r)
                  /\ Publish(r) /\ val[r] \in Storable
                  /\ ~Atomic!Applied(r) /\ job[r].op # "getBalance" /\ Holds(r)
<1>1. ASSUME NEW r \in Requests, Commit(r) \/ OrphanEnds(r)
      PROVE  /\ Publish(r) \/ UNCHANGED <<balance, ledger>>
             /\ val[r] \in Storable
             /\ ~Atomic!Applied(r) /\ job[r].op # "getBalance" /\ Holds(r)
  <2>1. pc[r] = "commit" \/ r \in orphan
    BY <1>1 DEF Commit, OrphanEnds
  <2>2. Publish(r) \/ UNCHANGED <<balance, ledger>>
    BY <1>1 DEF Commit, OrphanEnds
  <2> QED
    BY <2>1, <2>2 DEF TypeInv, CommitsStorable, AccountInv, Accounted, Holds, InTransaction,
                      Transacting
<1>2. ASSUME \A r \in Requests : ~Commit(r) /\ ~OrphanEnds(r) PROVE UNCHANGED <<balance, ledger>>
  BY <1>2 DEF Next, MoneyStep, ReadStep, Arrive, AcquireLock, SelectForUpdate, Write,
         InvalidateCache, CommitUnanswered, Rollback, ReleaseLock, ReadCache, ReadRow, StoreCache,
         ReadFails, LockExpires, CacheExpires, Crash, Finished, vars
<1> QED
  BY <1>1, <1>2

\* A step of one request r that moves no money, as the request itself sees it.
OwnStep(r) ==
    LET money == job[r].op # "getBalance" IN
    /\ \A q \in Requests \ {r} : pc'[q] = pc[q] /\ result'[q] = result[q]
    /\ \/ orphan' = orphan
       \/ /\ orphan' = orphan \union {r}
          /\ pc[r] = "commit" /\ pc'[r] = "unlock" /\ result'[r] = "error"
    /\ \/ pc[r] = "idle" /\ pc'[r] \in {"lock", "readCache"} /\ (money <=> pc'[r] = "lock")
       \/ /\ pc[r] = "idle" /\ money
          /\ pc'[r] = "done" /\ result'[r] \in {"invalid", "error"}
       \/ pc[r] = "lock" /\ pc'[r] = "select"
       \/ pc[r] = "lock" /\ pc'[r] = "done" /\ result'[r] \in {"busy", "error"}
       \/ pc[r] \in Transacting /\ pc'[r] \in InTransaction
       \/ pc[r] \in Transacting /\ pc'[r] = "unlock" /\ result'[r] \in {"insufficient", "error"}
       \/ pc[r] = "unlock" /\ pc'[r] = "done" /\ result'[r] \in {result[r], "error"}
       \/ pc[r] \in Reading /\ pc'[r] \in Reading \union {"done"}

\* Every step of a request that is not at its COMMIT's end is one of these.
LEMMA OwnSteps ==
    ASSUME TypeOK, NEW r \in Requests,
           \/ Arrive(r) \/ AcquireLock(r) \/ SelectForUpdate(r) \/ Write(r)
           \/ InvalidateCache(r) \/ CommitUnanswered(r) \/ Rollback(r) \/ ReleaseLock(r)
           \/ ReadStep(r) \/ ReadFails(r)
    PROVE  OwnStep(r) /\ UNCHANGED <<balance, ledger, job>>
<1> USE DEF TypeOK, Goto, Conclude, OwnStep, Transacting, InTransaction, Reading
<1>1. CASE Arrive(r)
  BY <1>1 DEF Arrive
<1>2. CASE AcquireLock(r)
  BY <1>2 DEF AcquireLock
<1>3. CASE SelectForUpdate(r)
  BY <1>3 DEF SelectForUpdate
<1>4. CASE Write(r)
  BY <1>4 DEF Write
<1>5. CASE InvalidateCache(r) \/ CommitUnanswered(r) \/ Rollback(r)
  BY <1>5 DEF InvalidateCache, CommitUnanswered, Rollback
<1>6. CASE ReleaseLock(r)
  BY <1>6 DEF ReleaseLock
<1>7. CASE ReadStep(r) \/ ReadFails(r)
  BY <1>7 DEF ReadStep, ReadCache, ReadRow, StoreCache, ReadFails
<1> QED
  BY <1>1, <1>2, <1>3, <1>4, <1>5, <1>6, <1>7

\* No money has moved and nobody was told anything.
LEMMA AccountInit == Init => AccountInv
  BY DEF Init, AccountInv, Accounted, Atomic!Applied, Atomic!Records, Transacting,
         InTransaction, Reading

\* Every step keeps the requests accounted for.
LEMMA AccountStep == TypeInv /\ AccountInv /\ [Next]_vars => AccountInv'
<1> SUFFICES ASSUME TypeInv, AccountInv, [Next]_vars, NEW q \in Requests
             PROVE  Accounted(q)'
  BY DEF AccountInv
<1>0. TypeOK /\ Accounted(q) /\ (q \in orphan => pc[q] \in {"unlock", "done"})
  BY DEF TypeInv, OrphansLeft, AccountInv
<1> USE DEF Accounted, Handling, Transacting, InTransaction, Reading
<1>1. ASSUME NEW r \in Requests, Commit(r) PROVE Accounted(q)'
  <2>1. Atomic!Applied(q)' <=> Atomic!Applied(q) \/ q = r
    BY <1>1, CommitRecords DEF Commit, TypeInv, CommitsStorable
  <2>2. /\ pc[r] = "commit" /\ pc' = [pc EXCEPT ![r] = "unlock"] /\ UNCHANGED <<job, orphan>>
        /\ result' = [result EXCEPT ![r] = "ok"]
    BY <1>1 DEF Commit, Goto, Conclude
  <2> QED
    BY <1>0, <2>1, <2>2 DEF TypeOK
<1>2. ASSUME UNCHANGED ledger PROVE Atomic!Applied(q)' <=> Atomic!Applied(q)
  BY <1>2 DEF Atomic!Applied
<1>3. ASSUME NEW r \in Requests, OrphanEnds(r) PROVE Accounted(q)'
  <2>1. r \in orphan /\ orphan' = orphan \ {r} /\ UNCHANGED <<pc, job, result>>
    BY <1>3 DEF OrphanEnds
  <2>2. /\ pc[r] \in {"unlock", "done"} /\ result[r] = "error"
    BY <2>1 DEF TypeInv, OrphansLeft, AccountInv
  <2>3. \/ Atomic!Applied(q)' <=> Atomic!Applied(q)
        \/ Atomic!Applied(q)' <=> Atomic!Applied(q) \/ q = r
    <3>1. CASE Publish(r)
      BY <2>1, <3>1, CommitRecords DEF TypeInv, CommitsStorable
    <3>2. CASE UNCHANGED ledger
      BY <1>2, <3>2
    <3> QED
      BY <1>3, <3>1, <3>2 DEF OrphanEnds
  <2> QED
    BY <1>0, <2>1, <2>2, <2>3
<1>4. ASSUME NEW r \in Requests, OwnStep(r), UNCHANGED <<ledger, job>> PROVE Accounted(q)'
  BY <1>0, <1>2, <1>4 DEF OwnStep
<1>5. CASE Crash
  <2>1. UNCHANGED <<ledger, job>>
    BY <1>5 DEF Crash
  <2>2. \/ /\ pc'[q] = "done" /\ result'[q] = "error"
           /\ q \in orphan' => q \in orphan \/ pc[q] = "commit"
        \/ pc'[q] = pc[q] /\ result'[q] = result[q] /\ (q \in orphan' => q \in orphan)
    BY <1>5 DEF Crash
  <2> QED
    BY <1>0, <1>2, <2>1, <2>2
<1>6. ASSUME UNCHANGED <<ledger, job, pc, result, orphan>> PROVE Accounted(q)'
  BY <1>0, <1>2, <1>6
<1> QED
  BY <1>0, <1>1, <1>3, <1>4, <1>5, <1>6, OwnSteps
  DEF Next, MoneyStep, LockExpires, CacheExpires, Finished, vars

\* A COMMIT adds the entry of a request that has none.
LEMMA EntriesStep == TypeInv /\ AccountInv /\ EntriesUnique /\ [Next]_vars => EntriesUnique'
<1> SUFFICES ASSUME TypeInv, AccountInv, EntriesUnique, [Next]_vars PROVE EntriesUnique'
  OBVIOUS
<1>1. ASSUME NEW r \in Requests, Publish(r), val[r] \in Storable, ~Atomic!Applied(r)
      PROVE  EntriesUnique'
  <2> DEFINE u == job[r].wallet
             e == Entry(r, TypeOf(job[r]), DecimalAmount(job[r].amount), val[r])
  <2>1. u \in Wallets /\ e \in LedgerEntry /\ ledger' = [ledger EXCEPT ![u] = Append(@, e)]
    BY <1>1, CommitRecords
  <2>2. e.transaction_id = r
    BY DEF Entry
  <2>3. ~Atomic!Applied(r)
    BY <1>1
  <2>4. \A v \in Wallets : \A i \in 1..Len(ledger[v]) : ledger[v][i].transaction_id # r
    BY <2>3 DEF Atomic!Applied, Atomic!Records
  <2> HIDE DEF e, u
  <2>5. \A v \in Wallets \ {u} : ledger'[v] = ledger[v]
    BY <2>1 DEF TypeInv, TypeOK
  <2>6. ledger[u] \in Seq(LedgerEntry) /\ ledger'[u] = Append(ledger[u], e)
    BY <2>1 DEF TypeInv, TypeOK
  <2>7. /\ Len(ledger[u]) \in Nat /\ Len(ledger'[u]) = Len(ledger[u]) + 1
        /\ \A i \in 1..Len(ledger[u]) : ledger'[u][i] = ledger[u][i]
        /\ ledger'[u][Len(ledger[u]) + 1] = e
    BY <2>6, AppendProperties
  <2>8. ASSUME NEW v \in Wallets, NEW i \in 1..Len(ledger'[v])
        PROVE  \/ i \in 1..Len(ledger[v]) /\ ledger'[v][i] = ledger[v][i]
               \/ v = u /\ i = Len(ledger[u]) + 1 /\ ledger'[v][i] = e
    BY <2>5, <2>7, <2>8
  <2>9. ASSUME NEW v \in Wallets, NEW w \in Wallets, NEW i \in 1..Len(ledger'[v]),
               NEW j \in 1..Len(ledger'[w]),
               ledger'[v][i].transaction_id = ledger'[w][j].transaction_id
        PROVE  v = w /\ i = j
    <3>1. \/ i \in 1..Len(ledger[v]) /\ ledger'[v][i] = ledger[v][i]
          \/ v = u /\ i = Len(ledger[u]) + 1 /\ ledger'[v][i] = e
      BY <2>8
    <3>2. \/ j \in 1..Len(ledger[w]) /\ ledger'[w][j] = ledger[w][j]
          \/ w = u /\ j = Len(ledger[u]) + 1 /\ ledger'[w][j] = e
      BY <2>8
    <3>3. CASE i \in 1..Len(ledger[v]) /\ j \in 1..Len(ledger[w])
                 /\ ledger'[v][i] = ledger[v][i] /\ ledger'[w][j] = ledger[w][j]
      BY <2>9, <3>3 DEF EntriesUnique
    <3> QED
      BY <2>2, <2>4, <2>9, <3>1, <3>2, <3>3
  <2> QED
    BY <2>9 DEF EntriesUnique
<1>2. ASSUME UNCHANGED ledger PROVE EntriesUnique'
  BY <1>2 DEF EntriesUnique
<1> QED
  BY <1>1, <1>2, OnlyCommitMoves

\* For any amounts and any interleaving of expiries, failures and crashes, a
\* request moves its money at most once, in one wallet, and its caller is told
\* nothing that is not true or that a later step makes untrue.
THEOREM MoneyMovesAsTold == Spec => []MovedAsTold
<1>1. Init => AccountInv /\ EntriesUnique
  BY AccountInit DEF Init, EntriesUnique
<1>2. TypeInv /\ AccountInv /\ EntriesUnique /\ [Next]_vars => AccountInv' /\ EntriesUnique'
  BY AccountStep, EntriesStep
<1>3. AccountInv /\ EntriesUnique => MovedAsTold
  BY DEF AccountInv, MovedAsTold, Accounted, Told, Atomic!Refusals
<1> QED
  BY <1>1, <1>2, <1>3, TypeInvariant, PTL DEF Spec

\* The service starts as AtomicLedger does.
LEMMA AtomicInit == Init => Atomic!Init
  BY DEF Init, Atomic!Init, Told

\* What the service tells a caller, AtomicLedger may tell it.
LEMMA ToldAnswer ==
    ASSUME NEW R \in SUBSET Requests, NEW answer \in {"ok", "insufficient", "busy", "invalid", "error"},
           UNCHANGED <<balance, ledger>>,
           \A q \in R : /\ Told[q] = "none" /\ Told'[q] = answer
                        /\ answer = "ok" => Atomic!Applied(q)
                        /\ answer \in {"insufficient", "busy", "invalid"} => ~Atomic!Applied(q),
           \A q \in Requests \ R : Told'[q] = Told[q]
    PROVE  Atomic!Next
<1>1. Told' = [q \in Requests |-> IF q \in R THEN answer ELSE Told[q]]
  BY DEF Told
<1>2. Atomic!Answer(R, answer)
  BY <1>1 DEF Atomic!Answer, Atomic!Refusals
<1>3. answer \in Atomic!Results \ {"none"}
  BY DEF Atomic!Results, Atomic!Refusals
<1> QED
  BY <1>2, <1>3 DEF Atomic!Next

\* Every step of the service is one of AtomicLedger's, or none.
LEMMA AtomicStep ==
    TypeInv /\ FundsInv /\ LedgerInv /\ AccountInv /\ [Next]_vars
      => [Atomic!Next]_(Atomic!vars)
<1> SUFFICES ASSUME TypeInv, FundsInv, LedgerInv, AccountInv, [Next]_vars
             PROVE  [Atomic!Next]_(Atomic!vars)
  OBVIOUS
<1>0. TypeOK /\ \A q \in Requests : Accounted(q) /\ result[q] \in Verdicts
  BY DEF TypeInv, TypeOK, AccountInv
<1>s. ASSUME UNCHANGED <<balance, ledger>>, \A q \in Requests : Told'[q] = Told[q]
      PROVE  UNCHANGED Atomic!vars
  BY <1>s DEF Atomic!vars, Told
<1>1. ASSUME NEW r \in Requests, Publish(r), val[r] \in Storable, ~Atomic!Applied(r), Holds(r),
             job[r].op # "getBalance", Told' = Told, Told[r] \in {"none", "error"}
      PROVE  Atomic!Next
  <2> DEFINE w == job[r].wallet
             type == TypeOf(job[r])
             amount == job[r].amount
  <2>1. w \in Wallets /\ type \in Atomic!EntryTypes /\ amount \in Amounts
    BY <1>0, <1>1 DEF TypeOK, Job, TypeOf, Atomic!EntryTypes
  <2>2. val[r] \in Atomic!Decimal(balance[w] + Atomic!Delta(type, amount))
    BY <1>1 DEF LedgerInv, WritesCurrent, Decimal, Delta, Atomic!Decimal, Atomic!Delta
  <2>3. val[r] \in 0..MaxBalance
    BY <1>1, OpeningAssumption DEF FundsInv, WritesFunded, Storable
  <2>4. /\ balance' = [balance EXCEPT ![w] = val[r]]
        /\ ledger' = [ledger EXCEPT ![w] =
                        Append(@, Atomic!Entry(r, type, Atomic!DecimalAmount(amount), val[r]))]
    BY <1>1 DEF Publish, Entry, DecimalAmount, Atomic!Entry, Atomic!DecimalAmount
  <2>5. Atomic!Execute(r, w, type, amount)
    BY <1>1, <2>2, <2>3, <2>4 DEF Atomic!Execute
  <2> QED
    BY <2>1, <2>5 DEF Atomic!Next
<1>2. ASSUME NEW r \in Requests, OwnStep(r), UNCHANGED <<balance, ledger, job>>
      PROVE  [Atomic!Next]_(Atomic!vars)
  <2>1. \A q \in Requests \ {r} : Told'[q] = Told[q]
    BY <1>2 DEF OwnStep, Told
  <2>2. CASE Told'[r] = Told[r]
    BY <1>2, <1>s, <2>1, <2>2
  <2>3. CASE Told'[r] # Told[r]
    <3>1. /\ pc[r] # "done" /\ pc'[r] = "done" /\ job[r].op # "getBalance"
          /\ Told[r] = "none" /\ Told'[r] = result'[r] /\ result'[r] # "none"
      BY <1>2, <2>3 DEF OwnStep, Told, Transacting, InTransaction, Reading
    <3>2. /\ result'[r] = "ok" => Atomic!Applied(r)
          /\ result'[r] \in {"insufficient", "busy", "invalid"} => ~Atomic!Applied(r)
      BY <1>0, <1>2, <3>1 DEF OwnStep, Accounted, Transacting, InTransaction, Reading
    <3>3. PICK answer \in {"ok", "insufficient", "busy", "invalid", "error"} : result'[r] = answer
      BY <1>0, <1>2, <3>1 DEF OwnStep, Accounted, Verdicts, Transacting, InTransaction, Reading
    <3> DEFINE R == {r}
    <3>4. R \in SUBSET Requests /\ \A q \in Requests \ R : Told'[q] = Told[q]
      BY <2>1
    <3>5. \A q \in R : /\ Told[q] = "none" /\ Told'[q] = answer
                       /\ answer = "ok" => Atomic!Applied(q)
                       /\ answer \in {"insufficient", "busy", "invalid"} => ~Atomic!Applied(q)
      BY <3>1, <3>2, <3>3
    <3>6. UNCHANGED <<balance, ledger>>
      BY <1>2
    <3> HIDE DEF R
    <3>7. Atomic!Next
      BY <3>4, <3>5, <3>6, ToldAnswer
    <3> QED
      BY <3>7
  <2> QED
    BY <2>2, <2>3
<1>3. CASE Crash
  <2> DEFINE R == {q \in Requests : pc[q] \in Handling /\ job[q].op # "getBalance"}
  <2>1. \A q \in R : Told[q] = "none" /\ Told'[q] = "error"
    BY <1>3 DEF Crash, Told, Handling, Transacting, InTransaction, Reading
  <2>2. \A q \in Requests \ R : Told'[q] = Told[q]
    BY <1>3 DEF Crash, Told
  <2>3. UNCHANGED <<balance, ledger>>
    BY <1>3 DEF Crash
  <2> HIDE DEF R
  <2>4. R \in SUBSET Requests
    BY DEF R
  <2>5. Atomic!Next
    BY <2>1, <2>2, <2>3, <2>4, ToldAnswer
  <2> QED
    BY <2>5
<1>4. ASSUME UNCHANGED <<balance, ledger, job, pc, result>> PROVE UNCHANGED Atomic!vars
  BY <1>4, <1>s DEF Told
<1>5. ASSUME NEW r \in Requests, Commit(r) \/ OrphanEnds(r)
      PROVE  Told' = Told /\ Told[r] \in {"none", "error"}
  <2>1. CASE Commit(r)
    <3>1. /\ pc[r] = "commit" /\ pc' = [pc EXCEPT ![r] = "unlock"] /\ job' = job
          /\ result' = [result EXCEPT ![r] = "ok"]
      BY <2>1 DEF Commit, Goto, Conclude
    <3> QED
      BY <1>0, <3>1 DEF Told, TypeOK
  <2>2. CASE OrphanEnds(r)
    BY <1>0, <2>2 DEF OrphanEnds, Told, Accounted
  <2> QED
    BY <1>5, <2>1, <2>2
<1>6. CASE ~UNCHANGED <<balance, ledger>>
  BY <1>1, <1>5, <1>6, OnlyCommitMoves
<1>7. CASE UNCHANGED <<balance, ledger>>
  <2>1. ASSUME NEW r \in Requests, Commit(r) \/ OrphanEnds(r) PROVE UNCHANGED Atomic!vars
    BY <1>5, <1>7, <1>s, <2>1
  <2> QED
    BY <1>0, <1>2, <1>3, <1>4, <2>1, OwnSteps
    DEF Next, MoneyStep, LockExpires, CacheExpires, Finished, vars
<1> QED
  BY <1>6, <1>7

\* The wallet service is what its callers take it for: whatever interleaves,
\* expires, fails, crashes or is rounded, a request moves its money at most once
\* and in one step, and before it is told anything but "error"; "ok" is only said
\* of money that moved, a refusal only of money that did not and never will.
THEOREM MoneyIsAtomic == Spec => ImplementsAtomicLedger
<1>1. Init => RowsFollowTransactions /\ FundsInv /\ LedgerInv /\ AccountInv
  BY RowsInit, FundsInit, LedgerInit, AccountInit
<1>2. TypeInv /\ RowsFollowTransactions /\ FundsInv /\ LedgerInv /\ AccountInv /\ [Next]_vars
        => RowsFollowTransactions' /\ FundsInv' /\ LedgerInv' /\ AccountInv'
  BY RowsStep, FundsStep, LedgerStep, AccountStep
<1>3. TypeInv /\ FundsInv /\ LedgerInv /\ AccountInv /\ [Next]_vars
        => [Atomic!Next]_(Atomic!vars)
  BY AtomicStep
<1> QED
  BY <1>1, <1>2, <1>3, AtomicInit, TypeInvariant, PTL DEF Spec, ImplementsAtomicLedger, Atomic!Spec
-----------------------------------------------------------------------------
\* The COMMIT of q may come at any moment.
Ending(q) == pc[q] = "commit" \/ q \in orphan

\* An operation recorded on wallet w overlapped read f.
Raced(w, f) == \E q \in Requests : Records(ledger[w], q) /\ Overlap(q, f)

\* The same after the step.
RacedNext(w, f) ==
    \E q \in Requests : Records(ledger'[w], q) /\ q \notin before'[f] /\ f \notin before'[q]

\* Only what is over is noted as having come before a request.
HistoryTrue == \A r \in Requests : \A q \in before[r] : Over(q)

\* What a read is about to store is the balance, or the read was raced.
StoresKnown ==
    \A f \in Requests :
        pc[f] = "storeCache" =>
            val[f] = balance[job[f].wallet] \/ Raced(job[f].wallet, f)

\* What a read stored is the balance, or the read was raced.
CacheKnown ==
    \A w \in Wallets :
        cache[w] # Miss =>
            /\ filler[w] \in Requests /\ pc[filler[w]] = "done"
            /\ cache[w] = balance[w] \/ Raced(w, filler[w])

\* An operation about to commit has dropped what reads before it had stored.
DropsEarlier ==
    \A q \in Requests :
        Ending(q) /\ cache[job[q].wallet] # Miss => filler[job[q].wallet] \notin before[q]

RaceInv == HistoryTrue /\ StoresKnown /\ CacheKnown /\ DropsEarlier

\* What is over stays over, and the past of a request is settled at its arrival.
LEMMA HistoryStep ==
    ASSUME TypeInv, HistoryTrue, [Next]_vars
    PROVE  /\ HistoryTrue'
           /\ \A q \in Requests : pc[q] # "idle" => pc'[q] # "idle" /\ before'[q] = before[q]
<1> USE DEF TypeInv, TypeOK, OrphansLeft, Goto, Conclude, Transacting, InTransaction, Reading
<1>1. \A q \in Requests : pc[q] = "done" => pc'[q] = "done"
  BY DEF Next, MoneyStep, ReadStep, Arrive, AcquireLock, SelectForUpdate, Write,
         InvalidateCache, Commit, CommitUnanswered, OrphanEnds, Rollback, ReleaseLock, ReadCache,
         ReadRow, StoreCache, ReadFails, LockExpires, CacheExpires, Crash, Finished, vars
<1>2. \A q \in Requests : q \in orphan' => q \in orphan \/ pc[q] = "commit"
  BY DEF Next, MoneyStep, ReadStep, Arrive, AcquireLock, SelectForUpdate, Write,
         InvalidateCache, Commit, CommitUnanswered, OrphanEnds, Rollback, ReleaseLock, ReadCache,
         ReadRow, StoreCache, ReadFails, LockExpires, CacheExpires, Crash, Finished, vars
<1>3. \A q \in Requests : Over(q) => Over(q)'
  BY <1>1, <1>2 DEF Over
<1>4. \A r \in Requests :
          \/ before'[r] = before[r]
          \/ pc[r] = "idle" /\ before'[r] \subseteq {q \in Requests : Over(q)}
  BY DEF Next, MoneyStep, ReadStep, Arrive, AcquireLock, SelectForUpdate, Write,
         InvalidateCache, Commit, CommitUnanswered, OrphanEnds, Rollback, ReleaseLock, ReadCache,
         ReadRow, StoreCache, ReadFails, LockExpires, CacheExpires, Crash, Finished, vars
<1>5. \A q \in Requests : pc[q] # "idle" => pc'[q] # "idle"
  BY DEF Next, MoneyStep, ReadStep, Arrive, AcquireLock, SelectForUpdate, Write,
         InvalidateCache, Commit, CommitUnanswered, OrphanEnds, Rollback, ReleaseLock, ReadCache,
         ReadRow, StoreCache, ReadFails, LockExpires, CacheExpires, Crash, Finished, vars
<1>6. HistoryTrue'
  BY <1>3, <1>4 DEF HistoryTrue
<1> QED
  BY <1>4, <1>5, <1>6

\* An operation with an entry has arrived.
LEMMA RecordedArrived ==
    ASSUME AccountInv, NEW w \in Wallets, NEW q \in Requests, Records(ledger[w], q)
    PROVE  pc[q] # "idle"
<1>1. Atomic!Applied(q)
  BY DEF Atomic!Applied, Atomic!Records, Records
<1> QED
  BY <1>1 DEF AccountInv, Accounted

\* A read that was raced stays so.
LEMMA RacedStays ==
    ASSUME TypeInv, AccountInv, HistoryTrue, [Next]_vars, NEW w \in Wallets,
           \A q \in Requests : Records(ledger[w], q) => Records(ledger'[w], q),
           NEW f \in Requests, pc[f] # "idle", Raced(w, f)
    PROVE  RacedNext(w, f)
<1>1. PICK q \in Requests : Records(ledger[w], q) /\ Overlap(q, f)
  BY DEF Raced
<1>2. before'[f] = before[f] /\ before'[q] = before[q]
  BY <1>1, HistoryStep, RecordedArrived
<1> QED
  BY <1>1, <1>2 DEF RacedNext, Overlap

\* What the invariants say after a step, in terms of the states before and after.
LEMMA NextStores ==
    ASSUME \A f \in Requests :
               pc'[f] = "storeCache" =>
                   val'[f] = balance'[job'[f].wallet] \/ RacedNext(job'[f].wallet, f)
    PROVE  StoresKnown'
  BY DEF StoresKnown, Raced, RacedNext, Overlap

LEMMA NextCache ==
    ASSUME \A w \in Wallets :
               cache'[w] # Miss =>
                   /\ filler'[w] \in Requests /\ pc'[filler'[w]] = "done"
                   /\ cache'[w] = balance'[w] \/ RacedNext(w, filler'[w])
    PROVE  CacheKnown'
  BY DEF CacheKnown, Raced, RacedNext, Overlap

\* A step that leaves the table alone and caches nothing new, only stores what
\* it read from the table, and drops the cache before it gets to a COMMIT.
LEMMA RaceFrame ==
    ASSUME TypeInv, AccountInv, RaceInv, [Next]_vars, UNCHANGED <<balance, ledger, job, filler>>,
           \A w \in Wallets : cache'[w] \in {cache[w], Miss},
           \A r \in Requests :
               pc'[r] = "storeCache" =>
                   \/ pc[r] = "storeCache" /\ val'[r] = val[r]
                   \/ val'[r] = balance[job[r].wallet],
           \A r \in Requests : pc[r] = "done" => pc'[r] = "done",
           \A q \in Requests : Ending(q)' => Ending(q) \/ cache'[job[q].wallet] = Miss
    PROVE  RaceInv'
<1>0. \A q \in Requests : job[q].wallet \in Wallets
  BY JobFields DEF TypeInv, TypeOK
<1>1. /\ HistoryTrue'
      /\ \A q \in Requests : pc[q] # "idle" => before'[q] = before[q]
  BY HistoryStep DEF RaceInv
<1>2. ASSUME NEW w \in Wallets, NEW f \in Requests, pc[f] # "idle", Raced(w, f)
      PROVE  RacedNext(w, f)
  BY <1>2, RacedStays DEF RaceInv
<1>3. StoresKnown'
  BY <1>0, <1>2, NextStores DEF RaceInv, StoresKnown
<1>4. CacheKnown'
  BY <1>2, NextCache DEF RaceInv, CacheKnown
<1>5. \A q \in Requests : Ending(q) => pc[q] # "idle"
  BY DEF Ending, TypeInv, OrphansLeft
<1>6. DropsEarlier'
  BY <1>0, <1>1, <1>5 DEF RaceInv, DropsEarlier
<1> QED
  BY <1>1, <1>3, <1>4, <1>6 DEF RaceInv

\* Every step keeps it.  A COMMIT makes stale what is cached, and it raced the
\* read that cached it: it was not over when the read came, and had the read been
\* over when it came itself, it would have dropped what the read stored.
LEMMA RaceStep == TypeInv /\ AccountInv /\ RaceInv /\ [Next]_vars => RaceInv'
<1> SUFFICES ASSUME TypeInv, AccountInv, RaceInv, [Next]_vars PROVE RaceInv'
  OBVIOUS
<1>0. /\ HistoryTrue'
      /\ \A q \in Requests : pc[q] # "idle" => before'[q] = before[q]
      /\ \A q \in Requests : job[q].wallet \in Wallets
      /\ \A q \in Requests : Ending(q) => pc[q] # "idle" /\ ~Over(q)
  BY HistoryStep, JobFields DEF RaceInv, TypeInv, TypeOK, OrphansLeft, Ending, Over
<1> USE DEF Goto, Conclude, Handling, Transacting, InTransaction, Reading
<1>1. ASSUME NEW r \in Requests,
             Arrive(r) \/ AcquireLock(r) \/ SelectForUpdate(r) \/ Write(r)
               \/ InvalidateCache(r) \/ CommitUnanswered(r) \/ Rollback(r) \/ ReleaseLock(r)
               \/ ReadCache(r) \/ ReadRow(r) \/ ReadFails(r)
      PROVE  RaceInv'
  <2>1. UNCHANGED <<balance, ledger, job, filler>>
    BY <1>1 DEF Arrive, AcquireLock, SelectForUpdate, Write, InvalidateCache, CommitUnanswered,
                Rollback, ReleaseLock, ReadCache, ReadRow, ReadFails
  <2>2. \A w \in Wallets : cache'[w] \in {cache[w], Miss}
    BY <1>1 DEF TypeInv, TypeOK, Arrive, AcquireLock, SelectForUpdate, Write, InvalidateCache,
                CommitUnanswered, Rollback, ReleaseLock, ReadCache, ReadRow, ReadFails
  <2>3. /\ \A q \in Requests \ {r} : pc'[q] = pc[q] /\ val'[q] = val[q]
        /\ pc[r] # "done"
        /\ pc'[r] = "storeCache" => val'[r] = balance[job[r].wallet]
    BY <1>1 DEF TypeInv, TypeOK, Arrive, AcquireLock, SelectForUpdate, Write, InvalidateCache,
                CommitUnanswered, Rollback, ReleaseLock, ReadCache, ReadRow, ReadFails
  <2>4. \A q \in Requests : Ending(q)' => Ending(q) \/ cache'[job[q].wallet] = Miss
    BY <1>0, <1>1 DEF TypeInv, TypeOK, Ending, Arrive, AcquireLock, SelectForUpdate, Write,
                InvalidateCache, CommitUnanswered, Rollback, ReleaseLock, ReadCache, ReadRow,
                ReadFails
  <2> QED
    BY <2>1, <2>2, <2>3, <2>4, RaceFrame
<1>2. ASSUME NEW f \in Requests, StoreCache(f) PROVE RaceInv'
  <2> DEFINE w == job[f].wallet
  <2>1. /\ UNCHANGED <<balance, ledger, job, val, orphan>>
        /\ cache' = [cache EXCEPT ![w] = val[f]] /\ filler' = [filler EXCEPT ![w] = f]
        /\ pc[f] = "storeCache" /\ pc' = [pc EXCEPT ![f] = "done"]
    BY <1>2 DEF StoreCache
  <2>2. ASSUME NEW u \in Wallets, NEW g \in Requests, pc[g] # "idle", Raced(u, g)
        PROVE  RacedNext(u, g)
    BY <2>1, <2>2, RacedStays DEF RaceInv
  <2>3. StoresKnown'
    BY <1>0, <2>1, <2>2, NextStores DEF TypeInv, TypeOK, RaceInv, StoresKnown
  <2>4. CacheKnown'
    <3>1. ASSUME NEW u \in Wallets \ {w}, cache'[u] # Miss
          PROVE  /\ filler'[u] \in Requests /\ pc'[filler'[u]] = "done"
                 /\ cache'[u] = balance'[u] \/ RacedNext(u, filler'[u])
      <4>1. cache'[u] = cache[u] /\ filler'[u] = filler[u]
        BY <2>1 DEF TypeInv, TypeOK
      <4>2. /\ filler[u] \in Requests /\ pc[filler[u]] = "done"
            /\ cache[u] = balance[u] \/ Raced(u, filler[u])
        BY <3>1, <4>1 DEF RaceInv, CacheKnown
      <4>3. Raced(u, filler[u]) => RacedNext(u, filler[u])
        BY <2>2, <4>2
      <4> QED
        BY <2>1, <4>1, <4>2, <4>3 DEF TypeInv, TypeOK
    <3>2. /\ filler'[w] = f /\ pc'[f] = "done" /\ cache'[w] = val[f]
      BY <1>0, <2>1 DEF TypeInv, TypeOK
    <3>3. val[f] = balance[w] \/ RacedNext(w, f)
      BY <1>0, <2>1, <2>2 DEF RaceInv, StoresKnown
    <3> HIDE DEF w
    <3> QED
      BY <2>1, <3>1, <3>2, <3>3, NextCache
  <2>5. \A q \in Requests : Ending(q)' => Ending(q)
    BY <2>1 DEF TypeInv, TypeOK, Ending
  <2>6. \A q \in Requests : Ending(q) => f \notin before[q]
    BY <2>1 DEF RaceInv, HistoryTrue, Over
  <2>7. DropsEarlier'
    BY <1>0, <2>1, <2>5, <2>6 DEF TypeInv, TypeOK, RaceInv, DropsEarlier
  <2> QED
    BY <1>0, <2>3, <2>4, <2>7 DEF RaceInv
<1>3. ASSUME NEW r \in Requests, Commit(r) \/ OrphanEnds(r), Publish(r), val[r] \in Storable
      PROVE  RaceInv'
  <2> DEFINE w == job[r].wallet
             e == Entry(r, TypeOf(job[r]), DecimalAmount(job[r].amount), val[r])
  <2>1. /\ w \in Wallets /\ e \in LedgerEntry /\ e.transaction_id = r
        /\ ledger' = [ledger EXCEPT ![w] = Append(@, e)]
    BY <1>3, CommitRecords DEF Entry
  <2>2. /\ balance' = [balance EXCEPT ![w] = val[r]]
        /\ UNCHANGED <<cache, job, val, before, filler>>
        /\ \A q \in Requests : pc'[q] = "storeCache" => pc[q] = "storeCache"
        /\ \A q \in Requests : pc[q] = "done" => pc'[q] = "done"
        /\ Ending(r) /\ \A q \in Requests : Ending(q)' => Ending(q)
    BY <1>3 DEF Publish, Commit, OrphanEnds, Ending, TypeInv, TypeOK
  <2> HIDE DEF e
  <2>3. \A u \in Wallets :
            /\ ledger[u] \in Seq(LedgerEntry)
            /\ ledger'[u] = IF u = w THEN Append(ledger[u], e) ELSE ledger[u]
            /\ u # w => balance'[u] = balance[u]
    BY <2>1, <2>2 DEF TypeInv, TypeOK
  <2>4. ASSUME NEW u \in Wallets, NEW q \in Requests
        PROVE  Records(ledger'[u], q) <=> Records(ledger[u], q) \/ (u = w /\ q = r)
    <3>1. Atomic!Records(Append(ledger[u], e), q) <=> Atomic!Records(ledger[u], q) \/ q = r
      BY <2>1, <2>3, RecordsAppend
    <3> QED
      BY <2>3, <3>1 DEF Records, Atomic!Records
  <2>5. ASSUME NEW u \in Wallets, NEW g \in Requests, pc[g] # "idle", Raced(u, g)
        PROVE  RacedNext(u, g)
    BY <2>4, <2>5, RacedStays DEF RaceInv
  <2>6. ASSUME NEW g \in Requests, g \notin before[r] PROVE RacedNext(w, g)
    <3>1. r \notin before[g]
      BY <1>0, <2>2 DEF RaceInv, HistoryTrue
    <3> QED
      BY <2>1, <2>2, <2>4, <2>6, <3>1 DEF RacedNext
  <2>7. StoresKnown'
    <3> SUFFICES ASSUME NEW f \in Requests, pc[f] = "storeCache"
                 PROVE  val[f] = balance'[job[f].wallet] \/ RacedNext(job[f].wallet, f)
      BY <2>2, NextStores
    <3>1. CASE job[f].wallet = w
      <4>1. f \notin before[r]
        BY DEF RaceInv, HistoryTrue, Over
      <4> QED
        BY <2>6, <3>1, <4>1
    <3>2. CASE job[f].wallet # w
      BY <1>0, <2>3, <2>5, <3>2 DEF RaceInv, StoresKnown
    <3> QED
      BY <3>1, <3>2
  <2>8. CacheKnown'
    <3> SUFFICES ASSUME NEW u \in Wallets, cache[u] # Miss
                 PROVE  /\ filler[u] \in Requests /\ pc'[filler[u]] = "done"
                        /\ cache[u] = balance'[u] \/ RacedNext(u, filler[u])
      BY <2>2, NextCache
    <3>1. /\ filler[u] \in Requests /\ pc[filler[u]] = "done"
          /\ cache[u] = balance[u] \/ Raced(u, filler[u])
      BY DEF RaceInv, CacheKnown
    <3>2. CASE u = w
      <4>1. filler[w] \notin before[r]
        BY <2>2, <3>2 DEF RaceInv, DropsEarlier
      <4> QED
        BY <2>2, <2>6, <3>1, <3>2, <4>1
    <3>3. CASE u # w
      BY <2>2, <2>3, <2>5, <3>1, <3>3
    <3> QED
      BY <3>2, <3>3
  <2>9. DropsEarlier'
    BY <2>2 DEF RaceInv, DropsEarlier
  <2> QED
    BY <1>0, <2>7, <2>8, <2>9 DEF RaceInv
<1>4. ASSUME NEW r \in Requests, Commit(r) \/ OrphanEnds(r), UNCHANGED <<balance, ledger>>
      PROVE  RaceInv'
  <2>1. /\ UNCHANGED <<cache, job, val, filler>>
        /\ \A q \in Requests : pc'[q] = "storeCache" => pc[q] = "storeCache"
        /\ \A q \in Requests : pc[q] = "done" => pc'[q] = "done"
        /\ \A q \in Requests : Ending(q)' => Ending(q)
    BY <1>4 DEF Commit, OrphanEnds, Ending, TypeInv, TypeOK
  <2> QED
    BY <1>4, <2>1, RaceFrame
<1>5. ASSUME NEW w \in Wallets, LockExpires(w) \/ CacheExpires(w) PROVE RaceInv'
  <2>1. /\ UNCHANGED <<balance, ledger, job, pc, val, orphan, filler>>
        /\ \A u \in Wallets : cache'[u] \in {cache[u], Miss}
    BY <1>5 DEF TypeInv, TypeOK, LockExpires, CacheExpires
  <2> QED
    BY <2>1, RaceFrame DEF Ending
<1>6. CASE Crash
  <2>1. /\ UNCHANGED <<balance, ledger, job, cache, val, filler>>
        /\ \A q \in Requests : pc'[q] \in {pc[q], "done"}
        /\ \A q \in Requests : Ending(q)' => Ending(q)
    BY <1>6 DEF TypeInv, TypeOK, Crash, Ending
  <2> QED
    BY <2>1, RaceFrame
<1>7. CASE UNCHANGED vars
  BY <1>7, RaceFrame DEF vars, Ending
<1>8. CASE \E r \in Requests : Commit(r) \/ OrphanEnds(r)
  BY <1>3, <1>4, <1>8 DEF Commit, OrphanEnds, TypeInv, CommitsStorable
<1> QED
  BY <1>1, <1>2, <1>5, <1>6, <1>7, <1>8 DEF Next, MoneyStep, ReadStep, Finished

\* A balance in Redis is stale only if an operation that has its entry overlapped
\* the read that stored it: dropping the cache before the COMMIT, failing on the
\* way, crashing and leaving a COMMIT behind never keep an older balance alive.
THEOREM StaleOnlyByRace == Spec => []StaleNeedsRace
<1>1. Init => AccountInv /\ RaceInv
  BY AccountInit DEF Init, RaceInv, HistoryTrue, StoresKnown, CacheKnown, DropsEarlier, Ending
<1>2. TypeInv /\ AccountInv /\ RaceInv /\ [Next]_vars => AccountInv' /\ RaceInv'
  BY AccountStep, RaceStep
<1>3. RaceInv => StaleNeedsRace
  BY DEF RaceInv, CacheKnown, Raced, StaleNeedsRace
<1> QED
  BY <1>1, <1>2, <1>3, TypeInvariant, PTL DEF Spec
=============================================================================
