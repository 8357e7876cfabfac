------------------------- MODULE TransferSagaProofs -------------------------
(***************************************************************************)
(* Proofs about TransferSaga: for any number of attempts, users and keys,  *)
(* any payments and any combination of the faults.                         *)
(***************************************************************************)
EXTENDS TransferSaga, CircuitBreakerProofs, Sequences, FiniteSetTheorems

Calls == Attempts \X Kinds
MoneyCalls == Attempts \X MoneyKinds
LedgerRow == [transaction_id : MoneyCalls, entry_type : W!EntryTypes,
              amount : {W!DecimalAmount(a) : a \in Amounts}, balance_after : 0..MaxBalance]

\* What the types of the variables are, those of the ledger included.
TypeInv ==
    /\ TypeOK
    /\ CountsMatchState(breaker)
    /\ ledger \in [Users -> Seq(LedgerRow)]

\* Between its INSERT and its last UPDATE an attempt owns a PENDING row.
Pending(a) == row[Key(a)] # NoRow /\ row[Key(a)].owner = a /\ row[Key(a)].status = "PENDING"
Owns(a) == row[Key(a)] # NoRow /\ row[Key(a)].owner = a
Completed(a) == Owns(a) /\ row[Key(a)].status = "COMPLETED"

OwnsWhatItUses(a) ==
    /\ pc[a] \in MoneyKinds \union {"markFailed", "markRefunded", "markCompleted"} => Pending(a)
    /\ pc[a] = "finish" => Completed(a)
    /\ \A kind \in MoneyKinds : <<a, kind>> \in sent => Owns(a)

OwnerInv == (\A a \in Attempts : OwnsWhatItUses(a)) /\ EventsFollowCommit
-----------------------------------------------------------------------------
\* The saga starts with well-typed variables.
LEMMA TypeInit == Init => TypeInv
<1> SUFFICES ASSUME Init PROVE TypeInv
  OBVIOUS
<1>1. balance \in [Users -> 0..MaxBalance] /\ ledger \in [Users -> Seq(LedgerRow)]
  BY WalletAssumption DEF Init, W!Init
<1>2. result \in [Attempts \X MoneyKinds -> W!Results]
  BY DEF Init, W!Init, W!Results
<1>3. breaker \in Breaker /\ CountsMatchState(breaker)
  BY NewBreakerSound DEF Init
<1>4. /\ payment \in [Attempts -> Payments]
      /\ pc \in [Attempts -> {"idle", "done"} \union Kinds \union Statements]
      /\ sent \subseteq Attempts \X Kinds
      /\ seen \in [Attempts \X Kinds -> Outcomes]
      /\ row \in [Keys -> {NoRow} \union Row]
      /\ answer \in [Attempts -> Answers]
      /\ events \subseteq {"transaction.completed", "cashback.eligible"} \X Attempts
  BY DEF Init, Outcomes, Answers
<1> QED
  BY <1>1, <1>2, <1>3, <1>4 DEF TypeInv, TypeOK
-----------------------------------------------------------------------------
\* Appending to a ledger adds the new entry's transaction to those it records,
\* and nothing else.
LEMMA RecordsAppend ==
    ASSUME NEW s \in Seq(LedgerRow), NEW e \in LedgerRow, NEW id
    PROVE  /\ Append(s, e) \in Seq(LedgerRow)
           /\ W!Records(Append(s, e), id) <=> W!Records(s, id) \/ id = e.transaction_id
<1> DEFINE t == Append(s, e)
<1>1. /\ t \in Seq(LedgerRow)
      /\ Len(s) \in Nat /\ Len(t) = Len(s) + 1
      /\ \A i \in 1..Len(s) : t[i] = s[i]
      /\ t[Len(s) + 1] = e
  OBVIOUS
<1>2. W!Records(t, id) => W!Records(s, id) \/ id = e.transaction_id
  BY <1>1 DEF W!Records
<1>3. W!Records(s, id) \/ id = e.transaction_id => W!Records(t, id)
  BY <1>1 DEF W!Records
<1> QED
  BY <1>1, <1>2, <1>3

\* When the wallet service executes a call, that call has moved its money and
\* no other call has.
LEMMA ExecuteFacts ==
    ASSUME TypeInv, NEW a \in Attempts, NEW kind \in MoneyKinds, WalletExecutes(a, kind)
    PROVE  /\ balance' \in [Users -> 0..MaxBalance]
           /\ ledger' \in [Users -> Seq(LedgerRow)]
           /\ \A c \in MoneyCalls :
                  /\ W!Applied(c) => W!Applied(c)'
                  /\ W!Applied(c)' => W!Applied(c) \/ c = <<a, kind>>
<1> DEFINE u == Party(a, kind)
           amount == W!DecimalAmount(payment[a].amount)
<1>0. PICK after \in 0..MaxBalance :
          /\ balance' = [balance EXCEPT ![u] = after]
          /\ ledger' = [ledger EXCEPT ![u] =
                          Append(@, W!Entry(<<a, kind>>, EntryType(kind), amount, after))]
  BY DEF WalletExecutes, W!Execute
<1> DEFINE e == W!Entry(<<a, kind>>, EntryType(kind), amount, after)
<1>1. /\ after \in 0..MaxBalance
      /\ balance' = [balance EXCEPT ![u] = after]
      /\ ledger' = [ledger EXCEPT ![u] = Append(@, e)]
  BY <1>0
<1>2. e \in LedgerRow /\ e.transaction_id = <<a, kind>>
  <2>1. <<a, kind>> \in MoneyCalls
    BY DEF MoneyCalls
  <2>2. EntryType(kind) \in W!EntryTypes
    BY DEF EntryType, W!EntryTypes
  <2>3. amount \in {W!DecimalAmount(b) : b \in Amounts}
    BY DEF TypeInv, TypeOK, Amounts
  <2> QED
    BY <1>1, <2>1, <2>2, <2>3 DEF LedgerRow, W!Entry
<1>3. ledger \in [Users -> Seq(LedgerRow)] /\ balance \in [Users -> 0..MaxBalance]
  BY DEF TypeInv, TypeOK
<1>4. \A v \in Users :
        /\ ledger[v] \in Seq(LedgerRow)
        /\ ledger'[v] = IF v = u THEN Append(ledger[v], e) ELSE ledger[v]
  BY <1>1, <1>3
<1>5. ledger' \in [Users -> Seq(LedgerRow)]
  <2> HIDE DEF e
  <2>1. \A v \in Users : Append(ledger[v], e) \in Seq(LedgerRow)
    BY <1>2, <1>4
  <2>2. \A v \in Users : ledger'[v] \in Seq(LedgerRow)
    BY <1>4, <2>1
  <2>3. ledger' = [v \in Users |-> ledger'[v]]
    BY <1>1, <1>3
  <2> QED
    BY <2>2, <2>3
<1>6. balance' \in [Users -> 0..MaxBalance]
  BY <1>1, <1>3
<1>7. ASSUME NEW c \in MoneyCalls
      PROVE  /\ W!Applied(c) => W!Applied(c)'
             /\ W!Applied(c)' => W!Applied(c) \/ c = <<a, kind>>
  <2>1. \A v \in Users : W!Records(ledger[v], c) => W!Records(ledger'[v], c)
    BY <1>2, <1>4, RecordsAppend
  <2>2. \A v \in Users : W!Records(ledger'[v], c) => W!Records(ledger[v], c) \/ c = <<a, kind>>
    BY <1>2, <1>4, RecordsAppend
  <2> QED
    BY <2>1, <2>2 DEF W!Applied
<1> QED
  BY <1>5, <1>6, <1>7

\* When it answers, no money moves, and it says "ok" of money that moved.
LEMMA AnswersFacts ==
    ASSUME TypeInv, NEW a \in Attempts, NEW kind \in MoneyKinds, WalletAnswers(a, kind)
    PROVE  /\ result' \in [MoneyCalls -> W!Results]
           /\ \A c \in MoneyCalls :
                  result'[c] = "ok" => result[c] = "ok" \/ W!Applied(c)
           /\ UNCHANGED <<balance, ledger>>
<1>1. PICK told \in {"ok", IF kind = "debit" THEN "insufficient" ELSE "busy"} :
          W!Answer({<<a, kind>>}, told)
  BY DEF WalletAnswers
<1>2. told \in W!Results
  BY <1>1 DEF W!Results, W!Refusals
<1>3. result \in [MoneyCalls -> W!Results]
  BY DEF TypeInv, TypeOK, MoneyCalls
<1>4. result' = [r \in MoneyCalls |-> IF r \in {<<a, kind>>} THEN told ELSE result[r]]
  BY <1>1 DEF W!Answer, MoneyCalls
<1>5. told = "ok" => W!Applied(<<a, kind>>)
  BY <1>1 DEF W!Answer
<1>6. UNCHANGED <<balance, ledger>>
  BY <1>1 DEF W!Answer
<1> QED
  BY <1>2, <1>3, <1>4, <1>5, <1>6
-----------------------------------------------------------------------------
Labels == {"idle", "done"} \union Kinds \union Statements

\* A caller learns an outcome, and "ok" only if it was told so.
LEMMA LearnsOutcomes ==
    ASSUME NEW a \in Attempts, NEW kind \in Kinds, NEW outcome \in Learns(a, kind)
    PROVE  /\ outcome \in Outcomes
           /\ outcome = "ok" => kind = "resolve" \/ result[<<a, kind>>] = "ok"
  BY DEF Learns, Outcomes

\* After a call, transfer goes on at one of its labels.
LEMMA NextLabels ==
    /\ \A kind \in Kinds : AfterSuccess[kind] \in Labels
    /\ \A kind \in MoneyKinds : AfterFailure[kind] \in Labels
    /\ Kinds \subseteq Labels
  BY DEF Kinds, MoneyKinds, AfterSuccess, AfterFailure, Labels, Statements

\* Moving on keeps the types.
LEMMA GotoTypes ==
    ASSUME TypeOK, NEW a \in Attempts, NEW label \in Labels, Goto(a, label)
    PROVE  pc' \in [Attempts -> Labels] /\ answer' \in [Attempts -> Answers]
  BY DEF TypeOK, Goto, Labels

\* So does answering.
LEMMA RespondTypes ==
    ASSUME TypeOK, NEW a \in Attempts, NEW what \in Answers, Respond(a, what)
    PROVE  pc' \in [Attempts -> Labels] /\ answer' \in [Attempts -> Answers]
  BY DEF TypeOK, Respond, Labels

\* An UPDATE of a row its attempt owns, or one that failed.
Updates(a, status, reason) ==
    \/ row' = [row EXCEPT ![Key(a)].status = status, ![Key(a)].reason = reason]
    \/ UNCHANGED row

\* Such an UPDATE changes the row of its attempt only, and keeps its owner.
LEMMA UpdateTypes ==
    ASSUME TypeOK, NEW a \in Attempts, NEW status \in Status,
           NEW reason \in Outcomes \union {"refunded"},
           Pending(a), Updates(a, status, reason)
    PROVE  /\ row' \in [Keys -> {NoRow} \union Row]
           /\ \A k \in Keys : k # Key(a) => row'[k] = row[k]
           /\ row'[Key(a)] # NoRow /\ row'[Key(a)].owner = a
           /\ row' # row => row'[Key(a)].status = status /\ row'[Key(a)].reason = reason
<1>1. Key(a) \in Keys
  BY KeyAssumption DEF Key, TypeOK
<1>2. row[Key(a)] \in Row
  BY <1>1 DEF TypeOK, Pending
<1>3. [row[Key(a)] EXCEPT !.status = status, !.reason = reason] \in Row
  BY <1>2 DEF Row
<1>4. CASE UNCHANGED row
  BY <1>4 DEF TypeOK, Pending
<1>5. CASE row' = [row EXCEPT ![Key(a)].status = status, ![Key(a)].reason = reason]
  <2> DEFINE r == [row[Key(a)] EXCEPT !.status = status, !.reason = reason]
  <2>1. r \in Row /\ r.owner = a /\ r.status = status /\ r.reason = reason
    BY <1>2, <1>3 DEF Row, Pending
  <2>2. row' = [row EXCEPT ![Key(a)] = r]
    BY <1>1, <1>5 DEF TypeOK
  <2>3. r # NoRow
    BY <2>1, NoRowAssumption
  <2> HIDE DEF r
  <2> QED
    BY <1>1, <2>1, <2>2, <2>3 DEF TypeOK
<1> QED
  BY <1>4, <1>5 DEF Updates

\* Every step keeps the types, one case per action.
LEMMA TypeStep == TypeInv /\ OwnerInv /\ [Next]_vars => TypeInv'
<1> SUFFICES ASSUME TypeInv, OwnerInv, [Next]_vars PROVE TypeInv'
  OBVIOUS
<1> DEFINE RowType == [Keys -> {NoRow} \union Row]
<1>t. /\ TypeOK /\ CountsMatchState(breaker) /\ breaker \in Breaker
      /\ ledger \in [Users -> Seq(LedgerRow)]
  BY DEF TypeInv, TypeOK
<1>1. ASSUME NEW a \in Attempts, Lookup(a) PROVE TypeInv'
  <2>1. pc' \in [Attempts -> Labels] /\ answer' \in [Attempts -> Answers]
    BY <1>1, <1>t, NextLabels, GotoTypes, RespondTypes DEF Lookup, Answers, Kinds
  <2> QED
    BY <1>1, <1>t, <2>1 DEF Lookup, TypeInv, TypeOK, Labels, wallet
<1>2. ASSUME NEW a \in Attempts, NEW kind \in Kinds, Call(a, kind) PROVE TypeInv'
  BY <1>2, <1>t, AdmitSound DEF Call, TypeInv, TypeOK, wallet
<1>3. ASSUME NEW a \in Attempts, NEW kind \in Kinds, Return(a, kind) PROVE TypeInv'
  <2>1. PICK outcome \in Learns(a, kind) :
          /\ seen' = [seen EXCEPT ![<<a, kind>>] = outcome]
          /\ breaker' = IF outcome = "ok" THEN OnSuccess(breaker) ELSE OnFailure(breaker)
          /\ \/ Respond(a, "error")
             \/ Goto(a, AfterSuccess[kind])
             \/ kind # "resolve" /\ Goto(a, AfterFailure[kind])
    BY <1>3 DEF Return
  <2>2. breaker' \in Breaker /\ CountsMatchState(breaker')
    BY <1>t, <2>1, OnSuccessSound, OnFailureSound
  <2>3. seen' \in [Attempts \X Kinds -> Outcomes]
    BY <1>t, <2>1, LearnsOutcomes DEF TypeOK
  <2>4. kind # "resolve" => kind \in MoneyKinds
    BY DEF Kinds
  <2>5. pc' \in [Attempts -> Labels] /\ answer' \in [Attempts -> Answers]
    BY <1>t, <2>1, <2>4, NextLabels, GotoTypes, RespondTypes DEF Answers
  <2> QED
    BY <1>3, <1>t, <2>2, <2>3, <2>5 DEF Return, TypeInv, TypeOK, Labels, wallet
<1>4. ASSUME NEW a \in Attempts, NEW kind \in Kinds, Rejected(a, kind) PROVE TypeInv'
  <2>1. kind # "resolve" => kind \in MoneyKinds
    BY DEF Kinds
  <2>2. pc' \in [Attempts -> Labels] /\ answer' \in [Attempts -> Answers]
    BY <1>4, <1>t, <2>1, NextLabels, GotoTypes, RespondTypes DEF Rejected, Answers
  <2>3. seen' \in [Attempts \X Kinds -> Outcomes]
    BY <1>4, <1>t DEF Rejected, TypeOK, Outcomes
  <2> QED
    BY <1>4, <1>t, <2>2, <2>3 DEF Rejected, TypeInv, TypeOK, Labels, wallet
<1>5. ASSUME NEW a \in Attempts, InsertPending(a) PROVE TypeInv'
  <2>1. pc' \in [Attempts -> Labels] /\ answer' \in [Attempts -> Answers]
    BY <1>5, <1>t, NextLabels, GotoTypes, RespondTypes DEF InsertPending, Answers, Kinds, MoneyKinds
  <2>2. row' \in RowType
    BY <1>5, <1>t DEF InsertPending, TypeOK, Row, Status, Outcomes
  <2> QED
    BY <1>5, <1>t, <2>1, <2>2 DEF InsertPending, TypeInv, TypeOK, Labels, wallet
<1>6. ASSUME NEW a \in Attempts, MarkFailed(a) PROVE TypeInv'
  <2>1. seen[<<a, "debit">>] \in Outcomes
    BY <1>t DEF TypeOK, Kinds, MoneyKinds
  <2>2. Updates(a, "FAILED", seen[<<a, "debit">>])
    BY <1>6 DEF MarkFailed, Update, Updates
  <2>3. row' \in RowType
    BY <1>6, <1>t, <2>1, <2>2, UpdateTypes DEF MarkFailed, OwnerInv, OwnsWhatItUses, Status
  <2>4. pc' \in [Attempts -> Labels] /\ answer' \in [Attempts -> Answers]
    BY <1>6, <1>t, RespondTypes DEF MarkFailed, Update, Answers
  <2> QED
    BY <1>6, <1>t, <2>3, <2>4 DEF MarkFailed, Update, TypeInv, TypeOK, Labels, wallet
<1>7. ASSUME NEW a \in Attempts, MarkRefunded(a) PROVE TypeInv'
  <2>1. Updates(a, "FAILED", "refunded")
    BY <1>7 DEF MarkRefunded, Update, Updates
  <2>2. row' \in RowType
    BY <1>7, <1>t, <2>1, UpdateTypes DEF MarkRefunded, OwnerInv, OwnsWhatItUses, Status
  <2>3. pc' \in [Attempts -> Labels] /\ answer' \in [Attempts -> Answers]
    BY <1>7, <1>t, RespondTypes DEF MarkRefunded, Update, Answers
  <2> QED
    BY <1>7, <1>t, <2>2, <2>3 DEF MarkRefunded, Update, TypeInv, TypeOK, Labels, wallet
<1>8. ASSUME NEW a \in Attempts, MarkCompleted(a) PROVE TypeInv'
  <2>1. Updates(a, "COMPLETED", "none")
    BY <1>8 DEF MarkCompleted, Update, Updates
  <2>2. row' \in RowType
    BY <1>8, <1>t, <2>1, UpdateTypes DEF MarkCompleted, OwnerInv, OwnsWhatItUses, Status, Outcomes
  <2>3. pc' \in [Attempts -> Labels] /\ answer' \in [Attempts -> Answers]
    BY <1>8, <1>t, GotoTypes, RespondTypes DEF MarkCompleted, Update, Answers, Labels, Statements
  <2> QED
    BY <1>8, <1>t, <2>2, <2>3 DEF MarkCompleted, Update, TypeInv, TypeOK, Labels, wallet
<1>9. ASSUME NEW a \in Attempts, Finish(a) PROVE TypeInv'
  <2>1. pc' \in [Attempts -> Labels] /\ answer' \in [Attempts -> Answers]
    BY <1>9, <1>t, RespondTypes DEF Finish, Answers
  <2>2. events' \subseteq {"transaction.completed", "cashback.eligible"} \X Attempts
    BY <1>9, <1>t DEF Finish, TypeOK
  <2> QED
    BY <1>9, <1>t, <2>1, <2>2 DEF Finish, TypeInv, TypeOK, Labels, wallet
<1>10. ASSUME NEW a \in Attempts, NEW kind \in MoneyKinds, WalletExecutes(a, kind) PROVE TypeInv'
  <2>1. UNCHANGED result
    BY <1>10 DEF WalletExecutes, W!Execute
  <2> QED
    BY <1>10, <1>t, <2>1, ExecuteFacts DEF WalletExecutes, TypeInv, TypeOK
<1>11. ASSUME NEW a \in Attempts, NEW kind \in MoneyKinds, WalletAnswers(a, kind) PROVE TypeInv'
  BY <1>11, <1>t, AnswersFacts DEF WalletAnswers, TypeInv, TypeOK, MoneyCalls
<1>12. CASE Tick
  BY <1>12, <1>t, OlderSound DEF Tick, TypeInv, TypeOK, wallet
<1>13. CASE Crash
  BY <1>13, <1>t, NewBreakerSound DEF Crash, TypeInv, TypeOK, wallet, Answers
<1>14. CASE UNCHANGED vars
  BY <1>14 DEF vars, wallet, TypeInv, TypeOK
<1> QED
  BY <1>1, <1>2, <1>3, <1>4, <1>5, <1>6, <1>7, <1>8, <1>9, <1>10, <1>11, <1>12, <1>13, <1>14
  DEF Next, SagaStep, Finished
-----------------------------------------------------------------------------
\* The labels of an attempt whose row is PENDING.
Working == MoneyKinds \union {"markFailed", "markRefunded", "markCompleted"}

\* After a call, a transfer goes on with an owned row unless it never had one.
LEMMA CallLabels ==
    /\ \A kind \in Kinds : kind = "resolve" \/ kind \in MoneyKinds
    /\ \A kind \in MoneyKinds :
          /\ AfterSuccess[kind] \in Working /\ AfterSuccess[kind] # "finish"
          /\ AfterFailure[kind] \in Working /\ AfterFailure[kind] # "finish"
          /\ kind # "resolve"
    /\ AfterSuccess["resolve"] = "insert" /\ "insert" \notin Working
    /\ "finish" \notin Working /\ "done" \notin Working /\ "resolve" \notin Working
  BY DEF Kinds, MoneyKinds, AfterSuccess, AfterFailure, Working

\* A step after which no attempt works or finishes that did not before.
WorksOn ==
    \A a \in Attempts :
        /\ pc'[a] \in Working => pc[a] \in Working
        /\ pc'[a] = "finish" => pc[a] = "finish"

\* A step that sends calls for no attempt but one that works.
SendsOwn ==
    \A a \in Attempts, kind \in MoneyKinds :
        <<a, kind>> \in sent' => <<a, kind>> \in sent \/ pc[a] \in Working

\* What an attempt may do without disturbing who owns what: rows and events
\* stay as they are, it keeps on working or stops, and calls of its own leave.
LEMMA OwnerFrame ==
    ASSUME TypeInv, OwnerInv, UNCHANGED <<payment, row, events>>,
           WorksOn, SendsOwn
    PROVE  OwnerInv'
<1> USE DEF Key
<1>1. EventsFollowCommit'
  BY DEF OwnerInv, EventsFollowCommit
<1>2. ASSUME NEW b \in Attempts PROVE OwnsWhatItUses(b)'
  <2> USE DEF Pending, Owns, Completed
  <2>1. OwnsWhatItUses(b) /\ (pc[b] \in Working => Pending(b))
    BY DEF OwnerInv, OwnsWhatItUses, Working
  <2>2. pc'[b] \in Working => Pending(b)'
    BY <2>1 DEF WorksOn
  <2>3. pc'[b] = "finish" => Completed(b)'
    BY <2>1 DEF WorksOn, OwnsWhatItUses
  <2>4. \A kind \in MoneyKinds : <<b, kind>> \in sent' => Owns(b)'
    BY <2>1 DEF SendsOwn, OwnsWhatItUses
  <2> QED
    BY <2>2, <2>3, <2>4 DEF OwnsWhatItUses, Working
<1> QED
  BY <1>1, <1>2 DEF OwnerInv

\* An attempt writes its own row and leaves those of others alone.
LEMMA OwnerWrite ==
    ASSUME TypeInv, OwnerInv, NEW a \in Attempts, UNCHANGED <<payment, sent, events>>,
           NEW status \in Status, NEW label,
           \/ row[Key(a)] = NoRow
           \/ Pending(a),
           row' \in [Keys -> {NoRow} \union Row],
           \A k \in Keys : k # Key(a) => row'[k] = row[k],
           row'[Key(a)] # NoRow, row'[Key(a)].owner = a,
           row'[Key(a)].status = status,
           pc' = [pc EXCEPT ![a] = label],
           label \in Working => status = "PENDING",
           label = "finish" => status = "COMPLETED"
    PROVE  OwnerInv'
<1> USE DEF Key
<1>1. \A b \in Attempts : Key(b) \in Keys /\ Key(b)' = Key(b)
  BY KeyAssumption DEF TypeInv, TypeOK
<1>2. ASSUME NEW b \in Attempts, b # a, Owns(b)
      PROVE  row'[Key(b)] = row[Key(b)]
  BY <1>1, <1>2 DEF Owns, Pending
<1>3. \A b \in Attempts : Pending(b) => Owns(b)
  BY DEF Pending, Owns
<1>4. ASSUME NEW b \in Attempts
      PROVE  /\ pc'[b] \in Working => Pending(b)'
             /\ pc'[b] = "finish" => Completed(b)'
             /\ \A kind \in MoneyKinds : <<b, kind>> \in sent' => Owns(b)'
  <2>1. CASE b = a
    BY <1>1, <2>1 DEF TypeInv, TypeOK, Pending, Owns, Completed
  <2>2. CASE b # a
    BY <1>1, <1>2, <1>3, <2>2 DEF TypeInv, TypeOK, OwnerInv, OwnsWhatItUses, Pending, Owns, Completed, Working
  <2> QED
    BY <2>1, <2>2
<1>5. EventsFollowCommit'
  <2> SUFFICES ASSUME NEW e \in events
               PROVE  LET r == row'[Key(e[2])] IN
                        r # NoRow /\ r.owner = e[2] /\ r.status = "COMPLETED"
    BY DEF EventsFollowCommit
  <2>1. e[2] \in Attempts
    BY DEF TypeInv, TypeOK
  <2>2. LET r == row[Key(e[2])] IN
          r # NoRow /\ r.owner = e[2] /\ r.status = "COMPLETED"
    BY DEF OwnerInv, EventsFollowCommit
  <2>3. e[2] # a
    BY <2>2 DEF Pending
  <2> QED
    BY <1>2, <2>1, <2>2, <2>3 DEF Owns
<1> QED
  BY <1>4, <1>5 DEF OwnerInv, OwnsWhatItUses, Working

\* In the beginning nothing was sent or published.
LEMMA OwnerInit == Init => OwnerInv
  BY DEF Init, OwnerInv, OwnsWhatItUses, EventsFollowCommit, MoneyKinds

\* Calls, answers and statements that leave the rows alone.
LEMMA OwnerCalls ==
    ASSUME TypeInv, OwnerInv, NEW a \in Attempts, NEW kind \in Kinds,
           Call(a, kind) \/ Return(a, kind) \/ Rejected(a, kind)
    PROVE  OwnerInv'
<1>t. pc \in [Attempts -> Labels]
  BY DEF TypeInv, TypeOK, Labels
<1>1. CASE Call(a, kind)
  BY <1>1, OwnerFrame DEF Call, Working, WorksOn, SendsOwn
<1>2. CASE Return(a, kind)
  <2>1. PICK label : pc' = [pc EXCEPT ![a] = label] /\ label # "finish" /\ pc[a] = kind
                       /\ (label \in Working => kind \in MoneyKinds)
    BY <1>2, CallLabels DEF Return, Goto, Respond
  <2>2. WorksOn
    BY <1>t, <2>1 DEF Working, WorksOn
  <2> QED
    BY <1>2, <2>2, OwnerFrame DEF Return, SendsOwn
<1>3. CASE Rejected(a, kind)
  <2>1. PICK label : pc' = [pc EXCEPT ![a] = label] /\ label # "finish" /\ pc[a] = kind
                       /\ (label \in Working => kind \in MoneyKinds)
    BY <1>3, CallLabels DEF Rejected, Goto, Respond
  <2>2. WorksOn
    BY <1>t, <2>1 DEF Working, WorksOn
  <2> QED
    BY <1>3, <2>2, OwnerFrame DEF Rejected, SendsOwn
<1> QED
  BY <1>1, <1>2, <1>3

\* The UPDATEs: each leaves its row PENDING and the attempt done, or writes
\* the status and goes on.
LEMMA OwnerUpdates ==
    ASSUME TypeInv, OwnerInv, NEW a \in Attempts,
           MarkFailed(a) \/ MarkRefunded(a) \/ MarkCompleted(a)
    PROVE  OwnerInv'
<1>1. PICK status \in Status, reason \in Outcomes \union {"refunded"} :
        /\ Updates(a, status, reason)
        /\ \/ pc' = [pc EXCEPT ![a] = "done"]
           \/ status = "COMPLETED" /\ row' # row /\ pc' = [pc EXCEPT ![a] = "finish"]
        /\ Pending(a)
        /\ UNCHANGED <<payment, sent, events>>
  <2>1. CASE MarkFailed(a)
    <3>1. seen[<<a, "debit">>] \in Outcomes
      BY DEF TypeInv, TypeOK, Kinds, MoneyKinds
    <3> QED
      BY <2>1, <3>1 DEF MarkFailed, Update, Updates, Respond, OwnerInv, OwnsWhatItUses, Status
  <2>2. CASE MarkRefunded(a)
    BY <2>2 DEF MarkRefunded, Update, Updates, Respond, OwnerInv, OwnsWhatItUses, Status
  <2>3. CASE MarkCompleted(a)
    BY <2>3 DEF MarkCompleted, Update, Updates, Respond, Goto, OwnerInv, OwnsWhatItUses, Status, Outcomes
  <2> QED
    BY <2>1, <2>2, <2>3
<1>2. /\ row' \in [Keys -> {NoRow} \union Row]
      /\ \A k \in Keys : k # Key(a) => row'[k] = row[k]
      /\ row'[Key(a)] # NoRow /\ row'[Key(a)].owner = a
      /\ row' # row => row'[Key(a)].status = status
  BY <1>1, UpdateTypes DEF TypeInv
<1>3. CASE row' = row
  <2>1. row'[Key(a)].status = "PENDING"
    BY <1>1, <1>3 DEF Pending
  <2> QED
    BY <1>1, <1>2, <1>3, <2>1, CallLabels, OwnerWrite DEF Status
<1>4. CASE row' # row
  BY <1>1, <1>2, <1>4, CallLabels, OwnerWrite DEF Status
<1> QED
  BY <1>3, <1>4

\* Every step keeps ownership, one case per action that matters to it.
LEMMA OwnerStep == TypeInv /\ OwnerInv /\ [Next]_vars => OwnerInv'
<1> SUFFICES ASSUME TypeInv, OwnerInv, [Next]_vars PROVE OwnerInv'
  OBVIOUS
<1>t. pc \in [Attempts -> Labels]
  BY DEF TypeInv, TypeOK, Labels
<1>1. ASSUME NEW a \in Attempts, Lookup(a) PROVE OwnerInv'
  <2>1. PICK label \in {"done", "resolve"} : pc' = [pc EXCEPT ![a] = label]
    BY <1>1 DEF Lookup, Goto, Respond
  <2>2. WorksOn
    BY <1>t, <2>1, CallLabels DEF WorksOn
  <2> QED
    BY <1>1, <2>2, OwnerFrame DEF Lookup, SendsOwn
<1>2. ASSUME NEW a \in Attempts, InsertPending(a) PROVE OwnerInv'
  <2>1. CASE UNCHANGED row
    <3>1. pc' = [pc EXCEPT ![a] = "done"]
      <4>1. \/ Respond(a, "error")
            \/ row[Key(a)] = NoRow /\ Key(a) \in Keys /\ row'[Key(a)] \in Row
        BY <1>2, KeyAssumption DEF InsertPending, Key, TypeInv, TypeOK, Row, Status, Outcomes
      <4> QED
        BY <2>1, <4>1, NoRowAssumption DEF Respond
    <3>2. WorksOn
      BY <1>t, <3>1, CallLabels DEF WorksOn
    <3> QED
      BY <1>2, <2>1, <3>2, OwnerFrame DEF InsertPending, SendsOwn
  <2>2. CASE row' # row
    <3> DEFINE pending == [owner |-> a, status |-> "PENDING", reason |-> "none"]
    <3>1. /\ row[Key(a)] = NoRow
          /\ row' = [row EXCEPT ![Key(a)] = pending]
          /\ pc' = [pc EXCEPT ![a] = "debit"] \/ pc' = [pc EXCEPT ![a] = "done"]
          /\ UNCHANGED <<payment, sent, events>>
      BY <1>2, <2>2 DEF InsertPending, Goto, Respond
    <3>2. pending \in Row /\ pending # NoRow
      BY NoRowAssumption DEF Row, Status, Outcomes
    <3>3. Key(a) \in Keys
      BY KeyAssumption DEF Key, TypeInv, TypeOK
    <3>4. /\ row' \in [Keys -> {NoRow} \union Row]
          /\ \A k \in Keys : k # Key(a) => row'[k] = row[k]
          /\ row'[Key(a)] = pending
      BY <3>1, <3>2, <3>3 DEF TypeInv, TypeOK
    <3>5. pending.owner = a /\ pending.status = "PENDING" /\ "PENDING" \in Status
      BY DEF Status
    <3>6. "debit" # "finish" /\ "done" # "finish"
      OBVIOUS
    <3> HIDE DEF pending
    <3> QED
      BY <3>1, <3>2, <3>4, <3>5, <3>6, OwnerWrite
  <2> QED
    BY <2>1, <2>2
<1>3. ASSUME NEW a \in Attempts, Finish(a) PROVE OwnerInv'
  <2>1. pc' = [pc EXCEPT ![a] = "done"] /\ UNCHANGED <<payment, sent, row>>
    BY <1>3 DEF Finish, Respond
  <2>2. Completed(a)
    BY <1>3 DEF Finish, OwnerInv, OwnsWhatItUses
  <2>3. \A e \in events' : e \in events \/ e[2] = a
    BY <1>3 DEF Finish
  <2>4. EventsFollowCommit'
    BY <2>1, <2>2, <2>3 DEF OwnerInv, EventsFollowCommit, Completed, Owns, Key
  <2>5. WorksOn
    BY <1>t, <2>1, CallLabels DEF WorksOn
  <2>6. ASSUME NEW b \in Attempts PROVE OwnsWhatItUses(b)'
    <3>1. OwnsWhatItUses(b) /\ (pc[b] \in Working => Pending(b))
      BY DEF OwnerInv, OwnsWhatItUses, Working
    <3> USE DEF Pending, Owns, Completed, Key
    <3>2. pc'[b] \in Working => Pending(b)'
      BY <2>1, <2>5, <3>1 DEF WorksOn
    <3>3. pc'[b] = "finish" => Completed(b)'
      BY <2>1, <2>5, <3>1 DEF WorksOn, OwnsWhatItUses
    <3>4. \A kind \in MoneyKinds : <<b, kind>> \in sent' => Owns(b)'
      BY <2>1, <3>1 DEF OwnsWhatItUses
    <3> QED
      BY <3>2, <3>3, <3>4 DEF OwnsWhatItUses, Working
  <2> QED
    BY <2>4, <2>6 DEF OwnerInv
<1>4. ASSUME NEW a \in Attempts, NEW kind \in MoneyKinds,
             WalletExecutes(a, kind) \/ WalletAnswers(a, kind)
      PROVE  OwnerInv'
  BY <1>4, OwnerFrame DEF WalletExecutes, WalletAnswers, WorksOn, SendsOwn
<1>5. CASE Tick
  BY <1>5, OwnerFrame DEF Tick, WorksOn, SendsOwn
<1>6. CASE Crash
  <2>1. WorksOn
    BY <1>6, CallLabels DEF Crash, WorksOn
  <2> QED
    BY <1>6, <2>1, OwnerFrame DEF Crash, SendsOwn
<1>7. CASE UNCHANGED vars
  BY <1>7, OwnerFrame DEF vars, WorksOn, SendsOwn
<1> QED
  BY <1>1, <1>2, <1>3, <1>4, <1>5, <1>6, <1>7, OwnerCalls, OwnerUpdates
  DEF Next, SagaStep, Finished
-----------------------------------------------------------------------------
\* The labels of an attempt that has not inserted a row.
Early == {"idle", "resolve", "insert"}

\* How a step may move one attempt forward.
Progress(a) ==
    /\ pc'[a] \in Early => pc[a] \in Early
    /\ pc'[a] = "credit" =>
          pc[a] = "credit" \/ (pc[a] = "debit" /\ result[<<a, "debit">>] = "ok")
    /\ pc'[a] = "refund" => pc[a] \in {"credit", "refund"}
    /\ pc'[a] = "markRefunded" => pc[a] \in {"refund", "markRefunded"}
    /\ pc'[a] = "markCompleted" =>
          pc[a] = "markCompleted" \/ (pc[a] = "credit" /\ result[<<a, "credit">>] = "ok")
    /\ pc'[a] = "finish" => pc[a] \in {"markCompleted", "finish"}
    /\ pc[a] \in {"refund", "markRefunded", "done"} =>
          pc'[a] \in {"refund", "markRefunded", "done"}
    /\ pc[a] \in {"finish", "done"} => pc'[a] \in {"finish", "done"}

\* Money calls leave only for an attempt that is at them, and are never
\* taken back.
Sends(a) ==
    \A kind \in MoneyKinds :
        /\ <<a, kind>> \in sent => <<a, kind>> \in sent'
        /\ <<a, kind>> \in sent' => <<a, kind>> \in sent \/ pc[a] = kind

\* A call that ended leaves its attempt at the next one or at an UPDATE.
LEMMA CallProgress ==
    ASSUME TypeInv, NEW a \in Attempts, NEW kind \in Kinds,
           Return(a, kind) \/ Rejected(a, kind)
    PROVE  Progress(a)
<1>1. PICK label :
        /\ pc[a] = kind /\ pc' = [pc EXCEPT ![a] = label]
        /\ \/ label = "done"
           \/ label = AfterSuccess[kind] /\ (kind = "resolve" \/ result[<<a, kind>>] = "ok")
           \/ label = AfterFailure[kind] /\ kind \in MoneyKinds
  <2>0. kind # "resolve" => kind \in MoneyKinds
    BY CallLabels
  <2>1. CASE Rejected(a, kind)
    BY <2>0, <2>1 DEF Rejected, Respond, Goto
  <2>2. CASE Return(a, kind)
    <3>1. PICK outcome \in Learns(a, kind) :
            \/ Respond(a, "error")
            \/ outcome = "ok" /\ Goto(a, AfterSuccess[kind])
            \/ kind # "resolve" /\ Goto(a, AfterFailure[kind])
      BY <2>2 DEF Return
    <3> QED
      BY <2>0, <2>2, <3>1, LearnsOutcomes DEF Return, Respond, Goto
  <2> QED
    BY <2>1, <2>2
<1>2. pc'[a] = label
  BY <1>1 DEF TypeInv, TypeOK
<1>3. CASE kind = "resolve"
  BY <1>1, <1>2, <1>3 DEF Progress, Early, AfterSuccess, MoneyKinds
<1>4. CASE kind = "debit"
  BY <1>1, <1>2, <1>4 DEF Progress, Early, AfterSuccess, AfterFailure
<1>5. CASE kind = "credit"
  BY <1>1, <1>2, <1>5 DEF Progress, Early, AfterSuccess, AfterFailure
<1>6. CASE kind = "refund"
  BY <1>1, <1>2, <1>6 DEF Progress, Early, AfterSuccess, AfterFailure
<1> QED
  BY <1>3, <1>4, <1>5, <1>6 DEF Kinds, MoneyKinds

\* Every step moves every attempt forward as Progress says.
LEMMA AllProgress ==
    ASSUME TypeInv, [Next]_vars
    PROVE  \A b \in Attempts : Progress(b)
<1>t. pc \in [Attempts -> Labels]
  BY DEF TypeInv, TypeOK, Labels
<1> SUFFICES ASSUME NEW b \in Attempts PROVE Progress(b)
  OBVIOUS
<1>0. pc'[b] = pc[b] \/ pc'[b] = "done" => Progress(b)
  BY DEF Progress, Early
<1>1. ASSUME NEW a \in Attempts, NEW kind \in Kinds,
             Return(a, kind) \/ Rejected(a, kind)
      PROVE  Progress(b)
  <2>1. CASE a = b
    BY <1>1, <2>1, CallProgress
  <2>2. CASE a # b
    BY <1>0, <1>1, <1>t, <2>2 DEF Return, Rejected, Goto, Respond
  <2> QED
    BY <2>1, <2>2
<1>2. ASSUME NEW a \in Attempts, Lookup(a) \/ InsertPending(a)
      PROVE  Progress(b)
  BY <1>2, <1>t DEF Lookup, InsertPending, Goto, Respond, Progress, Early
<1>3. ASSUME NEW a \in Attempts,
             MarkFailed(a) \/ MarkRefunded(a) \/ MarkCompleted(a) \/ Finish(a)
      PROVE  Progress(b)
  BY <1>3, <1>t DEF MarkFailed, MarkRefunded, MarkCompleted, Finish, Update, Goto, Respond, Progress, Early
<1>4. CASE Crash
  BY <1>0, <1>4, <1>t DEF Crash
<1>5. ASSUME UNCHANGED pc PROVE Progress(b)
  BY <1>0, <1>5
<1> QED
  BY <1>1, <1>2, <1>3, <1>4, <1>5
  DEF Next, SagaStep, Call, WalletExecutes, WalletAnswers, Tick, Finished, vars

\* Every step sends calls as Sends says.
LEMMA AllSends ==
    ASSUME TypeInv, [Next]_vars
    PROVE  \A b \in Attempts : Sends(b)
<1>1. ASSUME NEW a \in Attempts, NEW kind \in Kinds, Call(a, kind)
      PROVE  \A b \in Attempts : Sends(b)
  BY <1>1 DEF Call, Sends
<1>2. ASSUME UNCHANGED sent PROVE \A b \in Attempts : Sends(b)
  BY <1>2 DEF Sends
<1> QED
  BY <1>1, <1>2
  DEF Next, SagaStep, Lookup, Return, Rejected, InsertPending, MarkFailed, MarkRefunded,
      MarkCompleted, Update, Finish, WalletExecutes, WalletAnswers, Tick, Crash, Finished, vars
-----------------------------------------------------------------------------
\* The wallet service moves money for calls it received, once, and says "ok"
\* only afterwards.
MovedMeansSent ==
    \A a \in Attempts, kind \in MoneyKinds : Moved(a, kind) => <<a, kind>> \in sent
OkMeansMoved ==
    \A a \in Attempts, kind \in MoneyKinds : result[<<a, kind>>] = "ok" => Moved(a, kind)
WalletInv ==
    /\ MovedMeansSent
    /\ OkMeansMoved
    /\ \A u \in Users : W!NoDuplicates(ledger[u])

\* What a step does to the money of one attempt.
Moves(a) ==
    \A kind \in MoneyKinds :
        /\ Moved(a, kind) => Moved(a, kind)'
        /\ Moved(a, kind)' => Moved(a, kind) \/ <<a, kind>> \in sent

\* Every step moves money as Moves says.
LEMMA AllMoves ==
    ASSUME TypeInv, [Next]_vars
    PROVE  \A b \in Attempts : Moves(b)
<1>1. ASSUME NEW a \in Attempts, NEW kind \in MoneyKinds, WalletExecutes(a, kind)
      PROVE  \A b \in Attempts : Moves(b)
  <2> SUFFICES ASSUME NEW b \in Attempts, NEW k \in MoneyKinds
               PROVE  /\ Moved(b, k) => Moved(b, k)'
                      /\ Moved(b, k)' => Moved(b, k) \/ <<b, k>> \in sent
    BY DEF Moves
  <2>1. <<b, k>> \in MoneyCalls
    BY DEF MoneyCalls
  <2>2. /\ W!Applied(<<b, k>>) => W!Applied(<<b, k>>)'
        /\ W!Applied(<<b, k>>)' => W!Applied(<<b, k>>) \/ <<b, k>> = <<a, kind>>
    BY <1>1, <2>1, ExecuteFacts
  <2>3. <<a, kind>> \in sent
    BY <1>1 DEF WalletExecutes
  <2> QED
    BY <2>2, <2>3 DEF W!Applied, Moved
<1>2. ASSUME UNCHANGED ledger PROVE \A b \in Attempts : Moves(b)
  BY <1>2 DEF Moves, Moved
<1>3. ASSUME NEW a \in Attempts, NEW kind \in MoneyKinds, WalletAnswers(a, kind)
      PROVE  UNCHANGED ledger
  BY <1>3, AnswersFacts
<1> QED
  BY <1>1, <1>2, <1>3
  DEF Next, SagaStep, Lookup, Call, Return, Rejected, InsertPending, MarkFailed, MarkRefunded,
      MarkCompleted, Update, Finish, Tick, Crash, Finished, vars, wallet

\* In the beginning no money has moved.
LEMMA WalletInit == Init => WalletInv
<1> SUFFICES ASSUME Init PROVE WalletInv
  OBVIOUS
<1>1. ledger = [u \in Users |-> <<>>] /\ result = [c \in Attempts \X MoneyKinds |-> "none"]
  BY DEF Init, W!Init
<1> QED
  BY <1>1 DEF WalletInv, MovedMeansSent, OkMeansMoved, Moved, W!Records, W!NoDuplicates

\* A new entry is the first of its transaction in its ledger.
LEMMA NoDuplicatesAppend ==
    ASSUME NEW s \in Seq(LedgerRow), NEW e \in LedgerRow,
           W!NoDuplicates(s), ~W!Records(s, e.transaction_id)
    PROVE  W!NoDuplicates(Append(s, e))
<1> DEFINE t == Append(s, e)
<1>1. /\ Len(s) \in Nat /\ Len(t) = Len(s) + 1
      /\ \A i \in 1..Len(s) : t[i] = s[i]
      /\ t[Len(s) + 1] = e
  OBVIOUS
<1>2. \A i \in 1..Len(s) : t[i].transaction_id # e.transaction_id
  BY <1>1 DEF W!Records
<1>3. \A i, j \in 1..Len(s) : t[i].transaction_id = t[j].transaction_id => i = j
  BY <1>1 DEF W!NoDuplicates
<1>4. \A i \in 1..Len(t) : i \in 1..Len(s) \/ i = Len(s) + 1
  BY <1>1
<1> HIDE DEF t
<1>5. W!NoDuplicates(t)
  BY <1>1, <1>2, <1>3, <1>4 DEF W!NoDuplicates
<1> QED
  BY <1>5 DEF t

\* Every step keeps the wallet service honest.
LEMMA WalletStep == TypeInv /\ WalletInv /\ [Next]_vars => WalletInv'
<1> SUFFICES ASSUME TypeInv, WalletInv, [Next]_vars PROVE WalletInv'
  OBVIOUS
<1>1. \A b \in Attempts : Moves(b) /\ Sends(b)
  BY AllMoves, AllSends
<1>2. MovedMeansSent'
  BY <1>1 DEF WalletInv, MovedMeansSent, Moves, Sends
<1>3. OkMeansMoved'
  <2> SUFFICES ASSUME NEW b \in Attempts, NEW k \in MoneyKinds, result'[<<b, k>>] = "ok"
               PROVE  Moved(b, k)'
    BY DEF OkMeansMoved
  <2>1. <<b, k>> \in MoneyCalls
    BY DEF MoneyCalls
  <2>2. ASSUME NEW a \in Attempts, NEW kind \in MoneyKinds, WalletAnswers(a, kind)
        PROVE  result[<<b, k>>] = "ok" \/ Moved(b, k)
    BY <2>1, <2>2, AnswersFacts DEF W!Applied, Moved
  <2>3. ASSUME NEW a \in Attempts, NEW kind \in MoneyKinds, WalletExecutes(a, kind)
        PROVE  UNCHANGED result
    BY <2>3 DEF WalletExecutes, W!Execute
  <2>4. result[<<b, k>>] = "ok" \/ Moved(b, k)
    BY <2>2, <2>3
    DEF Next, SagaStep, Lookup, Call, Return, Rejected, InsertPending, MarkFailed, MarkRefunded,
        MarkCompleted, Update, Finish, Tick, Crash, Finished, vars, wallet
  <2>5. Moved(b, k)
    BY <2>4 DEF WalletInv, OkMeansMoved
  <2> QED
    BY <1>1, <2>5 DEF Moves
<1>4. ASSUME NEW u \in Users PROVE W!NoDuplicates(ledger'[u])
  <2>1. ASSUME NEW a \in Attempts, NEW kind \in MoneyKinds, WalletExecutes(a, kind)
        PROVE  W!NoDuplicates(ledger'[u])
    <3> DEFINE v == Party(a, kind)
               amount == W!DecimalAmount(payment[a].amount)
    <3>0. PICK after \in 0..MaxBalance :
              ledger' = [ledger EXCEPT ![v] =
                           Append(@, W!Entry(<<a, kind>>, EntryType(kind), amount, after))]
      BY <2>1 DEF WalletExecutes, W!Execute
    <3> DEFINE e == W!Entry(<<a, kind>>, EntryType(kind), amount, after)
    <3>1. /\ ~W!Applied(<<a, kind>>)
          /\ ledger' = [ledger EXCEPT ![v] = Append(@, e)]
      BY <2>1, <3>0 DEF WalletExecutes, W!Execute
    <3>2. e \in LedgerRow /\ e.transaction_id = <<a, kind>>
      <4>1. <<a, kind>> \in MoneyCalls /\ EntryType(kind) \in W!EntryTypes
        BY DEF MoneyCalls, EntryType, W!EntryTypes
      <4>2. amount \in {W!DecimalAmount(b) : b \in Amounts}
        BY DEF TypeInv, TypeOK, Amounts
      <4> QED
        BY <3>0, <4>1, <4>2 DEF LedgerRow, W!Entry
    <3>3. ledger[u] \in Seq(LedgerRow) /\ W!NoDuplicates(ledger[u])
      BY DEF TypeInv, WalletInv
    <3>4. ~W!Records(ledger[u], e.transaction_id)
      BY <3>1, <3>2 DEF W!Applied
    <3> HIDE DEF e
    <3>5. W!NoDuplicates(Append(ledger[u], e))
      BY <3>2, <3>3, <3>4, NoDuplicatesAppend
    <3>6. ledger'[u] = Append(ledger[u], e) \/ ledger'[u] = ledger[u]
      BY <3>1 DEF TypeInv
    <3> QED
      BY <3>3, <3>5, <3>6
  <2>2. ASSUME UNCHANGED ledger PROVE W!NoDuplicates(ledger'[u])
    BY <2>2 DEF WalletInv
  <2>3. ASSUME NEW a \in Attempts, NEW kind \in MoneyKinds, WalletAnswers(a, kind)
        PROVE  UNCHANGED ledger
    BY <2>3, AnswersFacts
  <2> QED
    BY <2>1, <2>2, <2>3
    DEF Next, SagaStep, Lookup, Call, Return, Rejected, InsertPending, MarkFailed, MarkRefunded,
        MarkCompleted, Update, Finish, Tick, Crash, Finished, vars, wallet
<1> QED
  BY <1>2, <1>3, <1>4 DEF WalletInv
-----------------------------------------------------------------------------
\* What a step does to a row: it inserts it for an attempt with this key, or
\* its owner, if it is PENDING, gives it its outcome.
Written(k) == \* with an outcome
    LET b == row[k].owner IN
    /\ row'[k].owner = b
    /\ \/ /\ pc[b] = "markFailed" /\ pc'[b] = "done"
          /\ row'[k].status = "FAILED" /\ row'[k].reason = seen[<<b, "debit">>]
       \/ /\ pc[b] = "markRefunded" /\ pc'[b] = "done"
          /\ row'[k].status = "FAILED" /\ row'[k].reason = "refunded"
       \/ /\ pc[b] = "markCompleted" /\ pc'[b] \in {"finish", "done"}
          /\ row'[k].status = "COMPLETED"

RowStep(k) ==
    row'[k] # row[k] =>
        /\ row'[k] \in Row
        /\ Key(row'[k].owner) = k
        /\ \/ /\ row[k] = NoRow /\ row'[k].status = "PENDING"
              /\ pc'[row'[k].owner] \notin Early
           \/ row[k] \in Row /\ row[k].status = "PENDING" /\ Written(k)

\* Every step treats the rows as RowStep says.
LEMMA AllRowSteps ==
    ASSUME TypeInv, OwnerInv, [Next]_vars
    PROVE  \A k \in Keys : RowStep(k)
<1>1. ASSUME UNCHANGED row PROVE \A k \in Keys : RowStep(k)
  BY <1>1 DEF RowStep
<1>2. ASSUME NEW a \in Attempts, InsertPending(a) PROVE \A k \in Keys : RowStep(k)
  <2>1. [owner |-> a, status |-> "PENDING", reason |-> "none"] \in Row
    BY DEF Row, Status, Outcomes
  <2> QED
    BY <1>2, <2>1 DEF InsertPending, Goto, Respond, RowStep, TypeInv, TypeOK, Early
<1>3. ASSUME NEW a \in Attempts, NEW status \in Status,
             NEW reason \in Outcomes \union {"refunded"},
             Pending(a), Updates(a, status, reason),
             \/ status = "FAILED" /\ pc'[a] = "done"
                  /\ \/ pc[a] = "markFailed" /\ reason = seen[<<a, "debit">>]
                     \/ pc[a] = "markRefunded" /\ reason = "refunded"
             \/ status = "COMPLETED" /\ pc[a] = "markCompleted" /\ pc'[a] \in {"finish", "done"}
      PROVE  \A k \in Keys : RowStep(k)
  <2>1. /\ row' \in [Keys -> {NoRow} \union Row]
        /\ \A k \in Keys : k # Key(a) => row'[k] = row[k]
        /\ row'[Key(a)] # NoRow /\ row'[Key(a)].owner = a
        /\ row' # row => row'[Key(a)].status = status /\ row'[Key(a)].reason = reason
    BY <1>3, UpdateTypes DEF TypeInv
  <2>2. Key(a) \in Keys
    BY KeyAssumption DEF Key, TypeInv, TypeOK
  <2>3. /\ row[Key(a)] \in Row
        /\ row[Key(a)].owner = a
        /\ row[Key(a)].status = "PENDING"
    BY <1>3, <2>2 DEF TypeInv, TypeOK, Pending
  <2>4. row'[Key(a)] # row[Key(a)] => row' # row
    OBVIOUS
  <2>5. RowStep(Key(a))
    BY <1>3, <2>1, <2>2, <2>3, <2>4 DEF RowStep, Written
  <2> QED
    BY <2>1, <2>5 DEF RowStep
<1>4. ASSUME NEW a \in Attempts, MarkFailed(a) PROVE \A k \in Keys : RowStep(k)
  <2>1. seen[<<a, "debit">>] \in Outcomes
    BY DEF TypeInv, TypeOK, Kinds, MoneyKinds
  <2>2. Updates(a, "FAILED", seen[<<a, "debit">>]) /\ Pending(a)
    BY <1>4 DEF MarkFailed, Update, Updates, OwnerInv, OwnsWhatItUses
  <2>3. pc[a] = "markFailed" /\ pc'[a] = "done"
    BY <1>4 DEF MarkFailed, Update, Respond, TypeInv, TypeOK
  <2> QED
    BY <1>3, <2>1, <2>2, <2>3 DEF Status
<1>5. ASSUME NEW a \in Attempts, MarkRefunded(a) PROVE \A k \in Keys : RowStep(k)
  <2>1. Updates(a, "FAILED", "refunded") /\ Pending(a)
    BY <1>5 DEF MarkRefunded, Update, Updates, OwnerInv, OwnsWhatItUses
  <2>2. pc[a] = "markRefunded" /\ pc'[a] = "done"
    BY <1>5 DEF MarkRefunded, Update, Respond, TypeInv, TypeOK
  <2> QED
    BY <1>3, <2>1, <2>2 DEF Status
<1>6. ASSUME NEW a \in Attempts, MarkCompleted(a) PROVE \A k \in Keys : RowStep(k)
  <2>1. Updates(a, "COMPLETED", "none") /\ Pending(a)
    BY <1>6 DEF MarkCompleted, Update, Updates, OwnerInv, OwnsWhatItUses
  <2>2. pc[a] = "markCompleted" /\ pc'[a] \in {"finish", "done"}
    BY <1>6 DEF MarkCompleted, Update, Goto, Respond, TypeInv, TypeOK
  <2> QED
    BY <1>3, <2>1, <2>2 DEF Status, Outcomes
<1> QED
  BY <1>1, <1>2, <1>4, <1>5, <1>6
  DEF Next, SagaStep, Lookup, Call, Return, Rejected, Finish, WalletExecutes, WalletAnswers,
      Tick, Crash, Finished, vars
-----------------------------------------------------------------------------
\* The order of the saga, attempt by attempt.
InOrder(a) ==
    /\ pc[a] \in {"credit", "refund", "markRefunded", "markCompleted", "finish"} => Moved(a, "debit")
    /\ <<a, "credit">> \in sent \/ <<a, "refund">> \in sent => Moved(a, "debit")
    /\ pc[a] \in {"markCompleted", "finish"} => Moved(a, "credit")
    /\ <<a, "refund">> \in sent => pc[a] \in {"refund", "markRefunded", "done"}

\* A COMPLETED row tells the truth, and its owner will not send a refund.
TellsTruth(k) ==
    row[k] # NoRow /\ row[k].status = "COMPLETED" =>
        /\ Moved(row[k].owner, "debit") /\ Moved(row[k].owner, "credit")
        /\ <<row[k].owner, "refund">> \notin sent
        /\ pc[row[k].owner] \in {"finish", "done"}

OrderInv == (\A a \in Attempts : InOrder(a)) /\ (\A k \in Keys : TellsTruth(k))

\* Every step keeps the order of every saga and the truth of every row.
LEMMA OrderStep ==
    TypeInv /\ OwnerInv /\ WalletInv /\ OrderInv /\ [Next]_vars => OrderInv'
<1> SUFFICES ASSUME TypeInv, OwnerInv, WalletInv, OrderInv, [Next]_vars PROVE OrderInv'
  OBVIOUS
<1>m. MoneyKinds = {"debit", "credit", "refund"}
  BY DEF MoneyKinds
<1>1. ASSUME NEW b \in Attempts
      PROVE  /\ Moved(b, "debit") => Moved(b, "debit")'
             /\ Moved(b, "credit") => Moved(b, "credit")'
             /\ <<b, "credit">> \in sent' => <<b, "credit">> \in sent \/ pc[b] = "credit"
             /\ <<b, "refund">> \in sent' => <<b, "refund">> \in sent \/ pc[b] = "refund"
             /\ Progress(b)
             /\ InOrder(b)
             /\ result[<<b, "debit">>] = "ok" => Moved(b, "debit")
             /\ result[<<b, "credit">>] = "ok" => Moved(b, "credit")
  BY <1>m, AllMoves, AllSends, AllProgress DEF Moves, Sends, OrderInv, WalletInv, OkMeansMoved
<1>2. ASSUME NEW b \in Attempts PROVE InOrder(b)'
  BY <1>1 DEF InOrder, Progress
<1>3. ASSUME NEW k \in Keys PROVE TellsTruth(k)'
  <2> SUFFICES ASSUME NEW b \in Attempts, row'[k] # NoRow, row'[k].owner = b,
                      row'[k].status = "COMPLETED"
               PROVE  /\ Moved(b, "debit")' /\ Moved(b, "credit")'
                      /\ <<b, "refund">> \notin sent'
                      /\ pc'[b] \in {"finish", "done"}
    <3>1. TypeInv'
      BY TypeStep
    <3>2. row'[k] # NoRow => row'[k].owner \in Attempts
      BY <3>1 DEF TypeInv, TypeOK, Row
    <3> QED
      BY <3>2 DEF TellsTruth, Moved
  <2>1. RowStep(k)
    BY AllRowSteps
  <2>2. CASE row'[k] = row[k]
    <3>1. TellsTruth(k)
      BY DEF OrderInv
    <3>2. /\ Moved(b, "debit") /\ Moved(b, "credit")
          /\ <<b, "refund">> \notin sent
          /\ pc[b] \in {"finish", "done"}
      BY <2>2, <3>1 DEF TellsTruth
    <3> QED
      BY <1>1, <3>2 DEF Progress
  <2>3. CASE row'[k] # row[k]
    <3>1. pc[b] = "markCompleted" /\ pc'[b] \in {"finish", "done"}
      BY <2>1, <2>3 DEF RowStep, Written
    <3> QED
      BY <1>1, <3>1 DEF InOrder
  <2> QED
    BY <2>2, <2>3
<1> QED
  BY <1>2, <1>3 DEF OrderInv
-----------------------------------------------------------------------------
SagaInv == TypeInv /\ OwnerInv /\ WalletInv /\ OrderInv

\* The inductive invariant of the saga.
LEMMA SagaInvariant == Spec => []SagaInv
<1>1. Init => OrderInv
  <2> SUFFICES ASSUME Init PROVE OrderInv
    OBVIOUS
  <2> QED
    BY DEF Init, OrderInv, InOrder, TellsTruth
<1>2. Init => SagaInv
  BY <1>1, TypeInit, OwnerInit, WalletInit DEF SagaInv
<1>3. SagaInv /\ [Next]_vars => SagaInv'
  BY TypeStep, OwnerStep, WalletStep, OrderStep DEF SagaInv
<1> QED
  BY <1>2, <1>3, PTL DEF Spec

\* Every variable of the saga keeps its type, however its attempts interleave
\* and whatever fails.
THEOREM TypeCorrect == Spec => []TypeOK
<1>1. SagaInv => TypeOK
  BY DEF SagaInv, TypeInv
<1> QED
  BY <1>1, SagaInvariant, PTL

\* However often a request is retried, in parallel or later: the payer of an
\* idempotency key is charged at most once.  Money moves only for calls that
\* were sent, and only the owner of the key's one row sends calls.
THEOREM NoDoubleCharge == Spec => []AtMostOneCharge
<1>1. SagaInv => AtMostOneCharge
  <2> SUFFICES ASSUME SagaInv PROVE AtMostOneCharge
    OBVIOUS
  <2>1. ASSUME NEW a \in Attempts, NEW b \in Attempts, Key(a) = Key(b),
               Moved(a, "debit"), Moved(b, "debit")
        PROVE  a = b
    <3>1. <<a, "debit">> \in sent /\ <<b, "debit">> \in sent
      BY <2>1 DEF SagaInv, WalletInv, MovedMeansSent, MoneyKinds
    <3>2. Owns(a) /\ Owns(b)
      BY <3>1 DEF SagaInv, OwnerInv, OwnsWhatItUses, MoneyKinds
    <3> QED
      BY <2>1, <3>2 DEF Owns
  <2> QED
    BY <2>1 DEF AtMostOneCharge, SagaInv, WalletInv
<1> QED
  BY <1>1, SagaInvariant, PTL

\* Neither the receiver nor the sender is credited out of a debit that did
\* not happen.
THEOREM SagaKeepsOrder == Spec => []CreditNeedsDebit
<1>1. SagaInv => CreditNeedsDebit
  BY DEF SagaInv, WalletInv, MovedMeansSent, MoneyKinds, OrderInv, InOrder, CreditNeedsDebit
<1> QED
  BY <1>1, SagaInvariant, PTL

\* A row that says COMPLETED tells the truth: both halves of the transfer have
\* been made, and it is not taken back.
THEOREM CompletionIsTrue == Spec => []CompletedMeansMoved
<1>1. SagaInv => CompletedMeansMoved
  <2> SUFFICES ASSUME SagaInv, NEW k \in Keys, row[k] # NoRow, row[k].status = "COMPLETED"
               PROVE  /\ Moved(row[k].owner, "debit") /\ Moved(row[k].owner, "credit")
                      /\ ~Moved(row[k].owner, "refund")
    BY DEF CompletedMeansMoved
  <2>1. row[k].owner \in Attempts
    BY DEF SagaInv, TypeInv, TypeOK, Row
  <2> QED
    BY <2>1 DEF SagaInv, OrderInv, TellsTruth, WalletInv, MovedMeansSent, MoneyKinds
<1> QED
  BY <1>1, SagaInvariant, PTL

\* Events are published of COMPLETED transactions only.
THEOREM EventsAreTrue == Spec => []EventsFollowCommit
<1>1. SagaInv => EventsFollowCommit
  BY DEF SagaInv, OwnerInv
<1> QED
  BY <1>1, SagaInvariant, PTL

\* The outcome of a transaction is final: nothing rewrites a row that says
\* COMPLETED or FAILED, and no row changes hands.
THEOREM FinalOutcome == Spec => OutcomeIsFinal
<1> DEFINE Keeps ==
      \A k \in Keys : row[k] # NoRow =>
          /\ row'[k] # NoRow /\ row'[k].owner = row[k].owner
          /\ row[k].status # "PENDING" => row'[k] = row[k]
<1>1. SagaInv /\ [Next]_vars => [Keeps]_vars
  <2> SUFFICES ASSUME SagaInv, [Next]_vars PROVE Keeps
    OBVIOUS
  <2>1. \A k \in Keys : RowStep(k)
    BY AllRowSteps DEF SagaInv
  <2> QED
    BY <2>1, NoRowAssumption DEF RowStep, Written
<1> QED
  BY <1>1, SagaInvariant, PTL DEF Spec, OutcomeIsFinal
-----------------------------------------------------------------------------
\* The call was never sent, or ended without an "ok".
Failed(a, kind) == <<a, kind>> \in sent => seen[<<a, kind>>] \in {"refused", "unknown"}

\* The three ways a transfer can end: its debit failed and nothing followed;
\* the receiver was paid; the credit failed and a refund was tried.
NotCharged(a) == <<a, "credit">> \notin sent /\ <<a, "refund">> \notin sent /\ Failed(a, "debit")
Paid(a) == Moved(a, "debit") /\ Moved(a, "credit") /\ <<a, "refund">> \notin sent
TakenBack(a) ==
    /\ Moved(a, "debit") /\ Failed(a, "credit")
    /\ seen[<<a, "refund">>] # "none"
    /\ seen[<<a, "refund">>] = "ok" => Moved(a, "refund")

\* Every transfer is on its way to one of them.
OnCourse(a) ==
    /\ pc[a] \in {"idle", "resolve", "insert"} => \A kind \in MoneyKinds : <<a, kind>> \notin sent
    /\ pc[a] = "debit" => <<a, "credit">> \notin sent
    /\ pc[a] = "markFailed" => NotCharged(a)
    /\ pc[a] = "refund" => Failed(a, "credit")
    /\ pc[a] = "markRefunded" => TakenBack(a)
    /\ pc[a] = "done" /\ answer[a] # "lost" => NotCharged(a) \/ Paid(a) \/ TakenBack(a)

\* The wallet service never moves the money of a call it refused, before or
\* after, and a caller that saw a refusal was told one.
RefusedUnmoved ==
    \A c \in MoneyCalls :
        /\ result[c] \notin {"none", "ok"} => ~W!Applied(c)
        /\ seen[c] = "refused" => result[c] \notin {"none", "ok"}
        /\ result[c] # "error"

CourseInv == RefusedUnmoved /\ \A a \in Attempts : OnCourse(a)

\* In the beginning nothing was sent.
LEMMA CourseInit == Init => CourseInv
<1> SUFFICES ASSUME Init PROVE CourseInv
  OBVIOUS
<1>1. /\ result = [c \in MoneyCalls |-> "none"] /\ seen = [c \in Calls |-> "none"]
      /\ MoneyCalls \subseteq Calls
  BY DEF Init, W!Init, MoneyCalls, Calls, Kinds
<1>2. RefusedUnmoved
  BY <1>1 DEF RefusedUnmoved
<1> QED
  BY <1>2 DEF Init, CourseInv, OnCourse

\* What one step leaves of the verdict on a call.
LEMMA RefusedStep == TypeInv /\ RefusedUnmoved /\ [Next]_vars => RefusedUnmoved'
<1> SUFFICES ASSUME TypeInv, RefusedUnmoved, [Next]_vars, NEW c \in MoneyCalls
             PROVE  /\ result'[c] \notin {"none", "ok"} => ~W!Applied(c)'
                    /\ seen'[c] = "refused" => result'[c] \notin {"none", "ok"}
                    /\ result'[c] # "error"
  BY DEF RefusedUnmoved
<1>0. /\ result[c] \notin {"none", "ok"} => ~W!Applied(c)
      /\ seen[c] = "refused" => result[c] \notin {"none", "ok"}
      /\ result[c] # "error"
  BY DEF RefusedUnmoved
<1>1. ASSUME NEW a \in Attempts, NEW kind \in MoneyKinds, WalletExecutes(a, kind)
      PROVE  /\ result'[c] \notin {"none", "ok"} => ~W!Applied(c)'
             /\ seen'[c] = "refused" => result'[c] \notin {"none", "ok"}
             /\ result'[c] # "error"
  <2>1. result[<<a, kind>>] = "none" /\ UNCHANGED <<result, seen>>
    BY <1>1 DEF WalletExecutes, W!Execute, RefusedUnmoved, MoneyCalls
  <2>2. W!Applied(c)' => W!Applied(c) \/ c = <<a, kind>>
    BY <1>1, ExecuteFacts
  <2> QED
    BY <1>0, <2>1, <2>2
<1>2. ASSUME NEW a \in Attempts, NEW kind \in MoneyKinds, WalletAnswers(a, kind)
      PROVE  /\ result'[c] \notin {"none", "ok"} => ~W!Applied(c)'
             /\ seen'[c] = "refused" => result'[c] \notin {"none", "ok"}
             /\ result'[c] # "error"
  <2>1. PICK told \in {"ok", "insufficient", "busy"} : W!Answer({<<a, kind>>}, told)
    BY <1>2 DEF WalletAnswers
  <2>2. /\ result[<<a, kind>>] = "none"
        /\ told # "ok" => ~W!Applied(<<a, kind>>)
        /\ result' = [r \in MoneyCalls |-> IF r \in {<<a, kind>>} THEN told ELSE result[r]]
        /\ UNCHANGED ledger
    BY <2>1 DEF W!Answer, W!Refusals, MoneyCalls
  <2>3. W!Applied(c)' <=> W!Applied(c)
    BY <2>2 DEF W!Applied
  <2>4. seen' = seen
    BY <1>2 DEF WalletAnswers
  <2> QED
    BY <1>0, <2>2, <2>3, <2>4
<1>3. ASSUME NEW a \in Attempts, NEW kind \in Kinds, Return(a, kind) \/ Rejected(a, kind)
      PROVE  /\ result'[c] \notin {"none", "ok"} => ~W!Applied(c)'
             /\ seen'[c] = "refused" => result'[c] \notin {"none", "ok"}
             /\ result'[c] # "error"
  <2>1. UNCHANGED <<result, ledger>>
    BY <1>3 DEF Return, Rejected, wallet
  <2>2. W!Applied(c)' <=> W!Applied(c)
    BY <2>1 DEF W!Applied
  <2>3. seen'[c] = "refused" => result[c] \notin {"none", "ok"}
    <3>1. CASE c = <<a, kind>>
      <4>1. kind # "resolve" /\ c \in Calls
        BY <3>1 DEF MoneyCalls, MoneyKinds, Calls, Kinds
      <4>2. CASE Rejected(a, kind)
        BY <3>1, <4>1, <4>2 DEF Rejected, TypeInv, TypeOK, Calls
      <4>3. CASE Return(a, kind)
        <5>1. PICK outcome \in Learns(a, kind) : seen' = [seen EXCEPT ![<<a, kind>>] = outcome]
          BY <4>3 DEF Return
        <5>2. outcome = "refused" => result[c] \notin {"none", "ok"}
          BY <3>1, <4>1 DEF Learns
        <5> QED
          BY <3>1, <4>1, <5>1, <5>2 DEF TypeInv, TypeOK, Calls
      <4> QED
        BY <1>3, <4>2, <4>3
    <3>2. CASE c # <<a, kind>>
      <4>1. c \in Calls
        BY DEF MoneyCalls, Calls, Kinds
      <4>2. seen'[c] = seen[c]
        BY <1>3, <3>2, <4>1 DEF Return, Rejected, TypeInv, TypeOK, Calls
      <4> QED
        BY <1>0, <4>2
    <3> QED
      BY <3>1, <3>2
  <2> QED
    BY <1>0, <2>1, <2>2, <2>3
<1>4. ASSUME UNCHANGED <<result, ledger, seen>>
      PROVE  /\ result'[c] \notin {"none", "ok"} => ~W!Applied(c)'
             /\ seen'[c] = "refused" => result'[c] \notin {"none", "ok"}
             /\ result'[c] # "error"
  BY <1>0, <1>4 DEF W!Applied
<1> QED
  BY <1>1, <1>2, <1>3, <1>4
  DEF Next, SagaStep, Lookup, Call, InsertPending, MarkFailed, MarkRefunded, MarkCompleted,
      Update, Finish, Tick, Crash, Finished, vars, wallet

\* A step that is not the attempt's own, but for a call that leaves, keeps it
\* on course.
LEMMA CourseFrame ==
    ASSUME NEW b \in Attempts, OnCourse(b), InOrder(b), Moves(b), Sends(b),
           \A kind \in MoneyKinds : seen'[<<b, kind>>] = seen[<<b, kind>>],
           \/ pc'[b] = pc[b] /\ answer'[b] = answer[b]
           \/ pc'[b] = "done" /\ answer'[b] = "lost"
    PROVE  OnCourse(b)'
<1>m. MoneyKinds = {"debit", "credit", "refund"}
  BY DEF MoneyKinds
<1>1. \A kind \in MoneyKinds :
          /\ seen'[<<b, kind>>] = seen[<<b, kind>>]
          /\ Moved(b, kind) => Moved(b, kind)'
          /\ <<b, kind>> \in sent' => <<b, kind>> \in sent \/ pc[b] = kind
  BY DEF Moves, Sends
<1>2. CASE pc'[b] = pc[b] /\ answer'[b] = answer[b]
  BY <1>m, <1>1, <1>2 DEF OnCourse, NotCharged, Paid, TakenBack, Failed
<1>3. CASE pc'[b] = "done" /\ answer'[b] = "lost"
  BY <1>3 DEF OnCourse
<1> QED
  BY <1>2, <1>3

\* An attempt that steps itself stays on course.
LEMMA CourseCalls ==
    ASSUME SagaInv, CourseInv, NEW a \in Attempts, NEW kind \in Kinds,
           Return(a, kind) \/ Rejected(a, kind), Moves(a), Sends(a)
    PROVE  OnCourse(a)'
<1>m. MoneyKinds = {"debit", "credit", "refund"} /\ Kinds = {"resolve", "debit", "credit", "refund"}
  BY DEF MoneyKinds, Kinds
<1>1. /\ OnCourse(a) /\ InOrder(a)
      /\ \A k \in MoneyKinds : Moved(a, k) => Moved(a, k)'
      /\ \A k \in MoneyKinds : result[<<a, k>>] = "ok" => Moved(a, k)
  BY DEF CourseInv, SagaInv, OrderInv, WalletInv, OkMeansMoved, Moves
<1>t. seen \in [Calls -> Outcomes] /\ \A k \in Kinds : <<a, k>> \in Calls
  BY DEF SagaInv, TypeInv, TypeOK, Calls
<1>2. /\ pc[a] = kind /\ sent' = sent
      /\ \A k \in MoneyKinds \ {kind} : seen'[<<a, k>>] = seen[<<a, k>>]
  BY <1>m, <1>t DEF Return, Rejected
<1>3. PICK label, outcome :
        /\ pc' = [pc EXCEPT ![a] = label] /\ seen' = [seen EXCEPT ![<<a, kind>>] = outcome]
        /\ \/ label = "done" /\ kind = "resolve"
           \/ label = AfterSuccess[kind] /\ outcome = "ok"
           \/ /\ label = AfterFailure[kind] /\ kind \in MoneyKinds
              /\ outcome \in {"refused", "unknown"} \/ (outcome = "rejected" /\ <<a, kind>> \notin sent)
        /\ outcome = "ok" => kind = "resolve" \/ result[<<a, kind>>] = "ok"
  <2>1. CASE Rejected(a, kind)
    <3>1. /\ seen' = [seen EXCEPT ![<<a, kind>>] = "rejected"]
          /\ <<a, kind>> \notin sent
          /\ \/ kind = "resolve" /\ pc' = [pc EXCEPT ![a] = "done"]
             \/ kind # "resolve" /\ pc' = [pc EXCEPT ![a] = AfterFailure[kind]]
      BY <2>1 DEF Rejected, Goto, Respond
    <3>2. CASE kind = "resolve"
      BY <3>1, <3>2, Zenon
    <3>3. CASE kind # "resolve"
      <4>1. kind \in MoneyKinds
        BY <1>m, <3>3
      <4>2. pc' = [pc EXCEPT ![a] = AfterFailure[kind]]
        BY <3>1, <3>3
      <4> WITNESS AfterFailure[kind], "rejected"
      <4> QED
        BY <3>1, <4>1, <4>2
    <3> QED
      BY <3>2, <3>3
  <2>2. CASE Return(a, kind)
    <3>1. PICK outcome \in Learns(a, kind) :
            /\ seen' = [seen EXCEPT ![<<a, kind>>] = outcome]
            /\ \/ kind = "resolve" /\ Respond(a, "error")
               \/ outcome = "ok" /\ Goto(a, AfterSuccess[kind])
               \/ kind # "resolve" /\ outcome # "ok" /\ Goto(a, AfterFailure[kind])
      BY <2>2 DEF Return
    <3>2. outcome \in {"ok", "refused", "unknown"}
      BY DEF Learns
    <3> QED
      BY <1>m, <3>1, <3>2, LearnsOutcomes DEF Goto, Respond
  <2> QED
    BY <2>1, <2>2
<1>4. pc'[a] = label /\ seen'[<<a, kind>>] = outcome
  BY <1>3 DEF SagaInv, TypeInv, TypeOK
<1> USE DEF OnCourse, AfterSuccess, AfterFailure
<1>5. CASE kind = "resolve"
  BY <1>m, <1>1, <1>2, <1>3, <1>4, <1>5 DEF NotCharged, Failed
<1>6. CASE kind = "debit"
  <2>1. <<a, "credit">> \notin sent /\ <<a, "refund">> \notin sent
    BY <1>1, <1>2, <1>6 DEF InOrder
  <2> QED
    BY <1>m, <1>2, <1>3, <1>4, <1>6, <2>1 DEF NotCharged, Failed
<1>7. CASE kind = "credit"
  BY <1>m, <1>2, <1>3, <1>4, <1>7 DEF Failed
<1>8. CASE kind = "refund"
  <2>1. Moved(a, "debit")' /\ (outcome = "ok" => Moved(a, "refund")')
    BY <1>m, <1>1, <1>2, <1>3, <1>8 DEF InOrder
  <2>2. Failed(a, "credit")'
    BY <1>m, <1>1, <1>2, <1>8 DEF Failed
  <2>3. outcome # "none"
    BY <1>3, <1>8
  <2> QED
    BY <1>3, <1>4, <1>8, <2>1, <2>2, <2>3 DEF TakenBack
<1> QED
  BY <1>m, <1>5, <1>6, <1>7, <1>8

\* So it does at its statements.
LEMMA CourseStatements ==
    ASSUME SagaInv, CourseInv, NEW a \in Attempts, Moves(a),
           \/ Lookup(a) \/ InsertPending(a)
           \/ MarkFailed(a) \/ MarkRefunded(a) \/ MarkCompleted(a) \/ Finish(a)
    PROVE  OnCourse(a)'
<1>m. MoneyKinds = {"debit", "credit", "refund"}
  BY DEF MoneyKinds
<1>1. /\ OnCourse(a) /\ InOrder(a)
      /\ \A k \in MoneyKinds : Moved(a, k) => Moved(a, k)'
  BY DEF CourseInv, SagaInv, OrderInv, Moves
<1>2. UNCHANGED <<sent, seen>>
  BY DEF Lookup, InsertPending, MarkFailed, MarkRefunded, MarkCompleted, Finish, Update
<1>3. \E label :
        /\ pc' = [pc EXCEPT ![a] = label]
        /\ \/ pc[a] = "idle" /\ label \in {"done", "resolve"}
           \/ pc[a] = "insert" /\ label \in {"done", "debit"}
           \/ pc[a] \in {"markFailed", "markRefunded", "finish"} /\ label = "done"
           \/ pc[a] = "markCompleted" /\ label \in {"done", "finish"}
  BY DEF Lookup, InsertPending, MarkFailed, MarkRefunded, MarkCompleted, Finish, Update, Goto, Respond
<1>4. \/ pc[a] = "idle" /\ pc'[a] \in {"done", "resolve"}
      \/ pc[a] = "insert" /\ pc'[a] \in {"done", "debit"}
      \/ pc[a] \in {"markFailed", "markRefunded", "finish"} /\ pc'[a] = "done"
      \/ pc[a] = "markCompleted" /\ pc'[a] \in {"done", "finish"}
  BY <1>3 DEF SagaInv, TypeInv, TypeOK
<1>5. CASE pc[a] \in {"idle", "insert"}
  BY <1>m, <1>1, <1>2, <1>4, <1>5 DEF OnCourse, NotCharged, Failed
<1>6. CASE pc[a] = "markFailed"
  <2>1. NotCharged(a)'
    BY <1>1, <1>2, <1>6 DEF OnCourse, NotCharged, Failed
  <2> QED
    BY <1>4, <1>6, <2>1 DEF OnCourse
<1>7. CASE pc[a] = "markRefunded"
  <2>1. TakenBack(a)'
    BY <1>m, <1>1, <1>2, <1>7 DEF OnCourse, TakenBack, Failed
  <2> QED
    BY <1>4, <1>7, <2>1 DEF OnCourse
<1>8. CASE pc[a] \in {"markCompleted", "finish"}
  <2>1. Paid(a)'
    BY <1>m, <1>1, <1>2, <1>8 DEF InOrder, Paid
  <2> QED
    BY <1>4, <1>8, <2>1 DEF OnCourse
<1> QED
  BY <1>4, <1>5, <1>6, <1>7, <1>8

\* Every step keeps every transfer on course.
LEMMA CourseStep == SagaInv /\ CourseInv /\ [Next]_vars => CourseInv'
<1> SUFFICES ASSUME SagaInv, CourseInv, [Next]_vars PROVE CourseInv'
  OBVIOUS
<1>t. /\ TypeInv /\ pc \in [Attempts -> Labels]
      /\ answer \in [Attempts -> Answers] /\ seen \in [Calls -> Outcomes]
  BY DEF SagaInv, TypeInv, TypeOK, Labels, Calls
<1>1. RefusedUnmoved'
  BY RefusedStep DEF SagaInv, CourseInv
<1>2. ASSUME NEW b \in Attempts PROVE OnCourse(b)'
  <2>1. OnCourse(b) /\ InOrder(b) /\ Moves(b) /\ Sends(b)
    BY AllMoves, AllSends DEF SagaInv, CourseInv, OrderInv
  <2>2. ASSUME NEW a \in Attempts, NEW kind \in Kinds, Return(a, kind) \/ Rejected(a, kind)
        PROVE  OnCourse(b)'
    <3>1. CASE a = b
      BY <2>1, <2>2, <3>1, CourseCalls
    <3>2. CASE a # b
      <4>1. pc'[b] = pc[b] /\ answer'[b] = answer[b]
        BY <1>t, <2>2, <3>2 DEF Return, Rejected, Goto, Respond
      <4>2. \A k \in MoneyKinds : seen'[<<b, k>>] = seen[<<b, k>>]
        <5>1. \A k \in MoneyKinds : <<b, k>> \in Calls /\ <<b, k>> # <<a, kind>>
          BY <3>2 DEF Calls, Kinds
        <5> QED
          BY <1>t, <2>2, <5>1 DEF Return, Rejected
      <4> QED
        BY <2>1, <4>1, <4>2, CourseFrame
    <3> QED
      BY <3>1, <3>2
  <2>3. ASSUME NEW a \in Attempts,
               \/ Lookup(a) \/ InsertPending(a)
               \/ MarkFailed(a) \/ MarkRefunded(a) \/ MarkCompleted(a) \/ Finish(a)
        PROVE  OnCourse(b)'
    <3>1. CASE a = b
      BY <2>1, <2>3, <3>1, CourseStatements
    <3>2. CASE a # b
      <4>1. pc'[b] = pc[b] /\ answer'[b] = answer[b] /\ seen' = seen
        BY <1>t, <2>3, <3>2
        DEF Lookup, InsertPending, MarkFailed, MarkRefunded, MarkCompleted, Finish, Update,
            Goto, Respond
      <4> QED
        BY <2>1, <4>1, CourseFrame
    <3> QED
      BY <3>1, <3>2
  <2>4. CASE Crash
    <3>1. /\ \/ pc'[b] = pc[b] /\ answer'[b] = answer[b]
             \/ pc'[b] = "done" /\ answer'[b] = "lost"
          /\ seen' = seen
      BY <2>4 DEF Crash
    <3> QED
      BY <2>1, <3>1, CourseFrame
  <2>5. ASSUME UNCHANGED <<pc, answer, seen>> PROVE OnCourse(b)'
    BY <2>1, <2>5, CourseFrame
  <2> QED
    BY <2>2, <2>3, <2>4, <2>5
    DEF Next, SagaStep, Call, WalletExecutes, WalletAnswers, Tick, Finished, vars
<1> QED
  BY <1>1, <1>2 DEF CourseInv

\* On course, the known outcomes of its calls decide which of them moved money.
LEMMA CourseSettles == SagaInv /\ CourseInv => SettledExactly
<1> SUFFICES ASSUME SagaInv, CourseInv, NEW a \in Attempts,
                    pc[a] = "done", answer[a] # "lost",
                    \A kind \in MoneyKinds : Certain(a, kind),
                    seen[<<a, "refund">>] \in {"none", "ok"}
             PROVE  Cardinality({kind \in MoneyKinds : Moved(a, kind)}) \in {0, 2}
  BY DEF SettledExactly
<1> DEFINE moved == {kind \in MoneyKinds : Moved(a, kind)}
<1>m. MoneyKinds = {"debit", "credit", "refund"}
  BY DEF MoneyKinds
<1>1. ASSUME NEW kind \in MoneyKinds, Failed(a, kind) PROVE ~Moved(a, kind)
  <2>1. <<a, kind>> \in MoneyCalls
    BY DEF MoneyCalls
  <2>2. CASE <<a, kind>> \notin sent
    BY <2>2 DEF SagaInv, WalletInv, MovedMeansSent
  <2>3. CASE <<a, kind>> \in sent
    <3>1. seen[<<a, kind>>] = "refused"
      BY <1>1, <2>3 DEF Failed, Certain
    <3> QED
      BY <2>1, <3>1 DEF CourseInv, RefusedUnmoved, W!Applied, Moved
  <2> QED
    BY <2>2, <2>3
<1>2. ASSUME NEW kind \in MoneyKinds, <<a, kind>> \notin sent PROVE ~Moved(a, kind)
  BY <1>1, <1>2 DEF Failed
<1>3. NotCharged(a) \/ Paid(a) \/ TakenBack(a)
  BY DEF CourseInv, OnCourse
<1>4. CASE NotCharged(a)
  <2>1. moved = {}
    BY <1>m, <1>1, <1>2, <1>4 DEF NotCharged
  <2> QED
    BY <2>1, FS_EmptySet
<1>5. ASSUME NEW kind \in {"credit", "refund"}, moved = {"debit", kind}
      PROVE  Cardinality(moved) \in {0, 2}
  <2>1. {"debit", kind} = {"debit"} \union {kind} /\ kind \notin {"debit"}
    BY <1>5
  <2>2. IsFiniteSet({"debit"}) /\ Cardinality({"debit"}) = 1
    BY FS_Singleton
  <2>3. Cardinality({"debit"} \union {kind}) = Cardinality({"debit"}) + 1
    <3> DEFINE S == {"debit"}
    <3>1. IsFiniteSet(S) /\ kind \notin S
      BY <2>1, <2>2
    <3> HIDE DEF S
    <3>2. Cardinality(S \union {kind}) = Cardinality(S) + 1
      BY <3>1, FS_AddElement, Zenon
    <3> QED
      BY <3>2 DEF S
  <2> QED
    BY <1>5, <2>1, <2>2, <2>3
<1>6. CASE Paid(a)
  <2>1. moved = {"debit", "credit"}
    BY <1>m, <1>2, <1>6 DEF Paid
  <2> QED
    BY <1>5, <2>1
<1>7. CASE TakenBack(a)
  <2>1. ~Moved(a, "credit") /\ Moved(a, "debit") /\ Moved(a, "refund")
    BY <1>m, <1>1, <1>7 DEF TakenBack
  <2>2. moved = {"debit", "refund"}
    BY <1>m, <2>1
  <2> QED
    BY <1>5, <2>2
<1> QED
  BY <1>3, <1>4, <1>6, <1>7

\* A transfer that ended and knows how its calls ended left no money behind:
\* what it took from the sender reached the receiver or went back, never both
\* and never neither, unless its refund was turned away.
THEOREM NoMoneyLeftBehind == Spec => []SettledExactly
<1>1. SagaInv /\ CourseInv /\ [Next]_vars => CourseInv'
  BY CourseStep
<1> QED
  BY <1>1, CourseInit, CourseSettles, SagaInvariant, PTL DEF Spec
-----------------------------------------------------------------------------
\* The client of an attempt is told something exactly when the attempt ends.
AnsweredAtTheEnd == \A a \in Attempts : answer[a] = "none" <=> pc[a] # "done"

\* Before its INSERT an attempt owns nothing.
NothingYet(a) == pc[a] \in Early => ~Owns(a)

\* A row has the key of its owner, and if it says FAILED its owner is done and
\* its reason says how far the saga got.
WhyFailed(k) ==
    LET b == row[k].owner IN
    row[k] # NoRow =>
        /\ Key(b) = k
        /\ row[k].status = "FAILED" =>
              /\ pc[b] = "done"
              /\ row[k].reason = "refunded" => Moved(b, "debit")
              /\ row[k].reason # "refunded" =>
                    NotCharged(b) /\ row[k].reason = seen[<<b, "debit">>]

ContractInv ==
    /\ AnsweredAtTheEnd
    /\ \A a \in Attempts : NothingYet(a)
    /\ \A k \in Keys : WhyFailed(k)

\* In the beginning there are no rows and nobody was told anything.
LEMMA ContractInvInit == Init => ContractInv
<1> SUFFICES ASSUME Init PROVE ContractInv
  OBVIOUS
<1>1. \A a \in Attempts : Key(a) \in Keys
  BY KeyAssumption DEF Init, Key
<1> QED
  BY <1>1 DEF Init, ContractInv, AnsweredAtTheEnd, NothingYet, Owns, WhyFailed

\* What a caller saw of a money call changes only at that call.
LEMMA SeenStep ==
    ASSUME TypeInv, [Next]_vars, NEW b \in Attempts, NEW k \in MoneyKinds
    PROVE  pc[b] # k => seen'[<<b, k>>] = seen[<<b, k>>]
<1>1. ASSUME NEW a \in Attempts, NEW kind \in Kinds, Return(a, kind) \/ Rejected(a, kind)
      PROVE  pc[b] # k => seen'[<<b, k>>] = seen[<<b, k>>]
  <2>1. PICK outcome : seen' = [seen EXCEPT ![<<a, kind>>] = outcome]
    BY <1>1 DEF Return, Rejected
  <2>2. pc[a] = kind
    BY <1>1 DEF Return, Rejected
  <2>3. <<b, k>> \in Calls /\ seen \in [Calls -> Outcomes]
    BY DEF Calls, Kinds, TypeInv, TypeOK
  <2> QED
    BY <2>1, <2>2, <2>3
<1>2. ASSUME UNCHANGED seen PROVE pc[b] # k => seen'[<<b, k>>] = seen[<<b, k>>]
  BY <1>2
<1> QED
  BY <1>1, <1>2
  DEF Next, SagaStep, Lookup, Call, InsertPending, MarkFailed, MarkRefunded, MarkCompleted,
      Update, Finish, WalletExecutes, WalletAnswers, Tick, Crash, Finished, vars

\* An attempt ends by answering, and nothing else answers it.
LEMMA AnsweredStep == TypeInv /\ AnsweredAtTheEnd /\ [Next]_vars => AnsweredAtTheEnd'
<1> SUFFICES ASSUME TypeInv, AnsweredAtTheEnd, [Next]_vars PROVE AnsweredAtTheEnd'
  OBVIOUS
<1>t. pc \in [Attempts -> Labels] /\ answer \in [Attempts -> Answers]
  BY DEF TypeInv, TypeOK, Labels
<1>1. ASSUME NEW a \in Attempts, NEW what \in Answers \ {"none"}, Respond(a, what)
      PROVE  AnsweredAtTheEnd'
  BY <1>1, <1>t DEF AnsweredAtTheEnd, Respond
<1>2. ASSUME NEW a \in Attempts, NEW label \in Labels \ {"done"}, pc[a] # "done", Goto(a, label)
      PROVE  AnsweredAtTheEnd'
  BY <1>2, <1>t DEF AnsweredAtTheEnd, Goto
<1>3. ASSUME UNCHANGED <<pc, answer>> PROVE AnsweredAtTheEnd'
  BY <1>3 DEF AnsweredAtTheEnd
<1>4. {"existing", "invalid", "failed", "refunded", "completed", "error"} \subseteq Answers \ {"none"}
  BY DEF Answers
<1>5. {"resolve", "debit", "finish"} \subseteq Labels \ {"done"}
  BY DEF Labels, Kinds, MoneyKinds, Statements
<1>6. ASSUME NEW a \in Attempts, NEW kind \in Kinds, Return(a, kind) \/ Rejected(a, kind)
      PROVE  AnsweredAtTheEnd'
  <2>1. /\ pc[a] # "done"
        /\ \/ Respond(a, "error")
           \/ Goto(a, AfterSuccess[kind])
           \/ kind # "resolve" /\ Goto(a, AfterFailure[kind])
    BY <1>6 DEF Return, Rejected, Kinds, MoneyKinds
  <2>2. /\ AfterSuccess[kind] \in Labels \ {"done"}
        /\ kind # "resolve" => AfterFailure[kind] \in Labels \ {"done"}
    BY NextLabels, CallLabels
  <2> QED
    BY <1>1, <1>2, <1>4, <2>1, <2>2
<1>7. ASSUME NEW a \in Attempts, Lookup(a) \/ InsertPending(a) PROVE AnsweredAtTheEnd'
  BY <1>1, <1>2, <1>4, <1>5, <1>7 DEF Lookup, InsertPending
<1>8. ASSUME NEW a \in Attempts, MarkFailed(a) \/ MarkRefunded(a) \/ MarkCompleted(a) \/ Finish(a)
      PROVE  AnsweredAtTheEnd'
  BY <1>1, <1>2, <1>4, <1>5, <1>8 DEF MarkFailed, MarkRefunded, MarkCompleted, Update, Finish
<1>9. CASE Crash
  BY <1>9, <1>t DEF Crash, AnsweredAtTheEnd
<1> QED
  BY <1>3, <1>6, <1>7, <1>8, <1>9
  DEF Next, SagaStep, Call, WalletExecutes, WalletAnswers, Tick, Finished, vars

\* A row that says why it failed goes on being right: its owner is done.
LEMMA WhyFailedStep ==
    ASSUME SagaInv, CourseInv, ContractInv, [Next]_vars, NEW k \in Keys
    PROVE  WhyFailed(k)'
<1>m. MoneyKinds = {"debit", "credit", "refund"}
  BY DEF MoneyKinds
<1>k. \A a \in Attempts : Key(a)' = Key(a)
  BY DEF Key, Next, SagaStep, Lookup, Call, Return, Rejected, InsertPending, MarkFailed,
         MarkRefunded, MarkCompleted, Update, Finish, WalletExecutes, WalletAnswers, Tick,
         Crash, Finished, vars
<1> SUFFICES ASSUME row'[k] # NoRow PROVE WhyFailed(k)'
  BY DEF WhyFailed
<1>1. PICK b \in Attempts : b = row'[k].owner
  <2>1. TypeInv'
    BY TypeStep DEF SagaInv
  <2> QED
    BY <2>1 DEF TypeInv, TypeOK, Row
<1>2. /\ Progress(b) /\ Moves(b) /\ Sends(b) /\ RowStep(k) /\ WhyFailed(k)
      /\ OnCourse(b) /\ InOrder(b)
      /\ \A kind \in MoneyKinds : pc[b] # kind => seen'[<<b, kind>>] = seen[<<b, kind>>]
  BY AllProgress, AllMoves, AllSends, AllRowSteps, SeenStep
  DEF SagaInv, CourseInv, ContractInv, OrderInv
\* What the goal says of b, without the row.
<1>3. ASSUME Key(b) = k,
             row'[k].status = "FAILED" =>
               /\ pc'[b] = "done"
               /\ row'[k].reason = "refunded" => Moved(b, "debit")'
               /\ row'[k].reason # "refunded" =>
                     NotCharged(b)' /\ row'[k].reason = seen'[<<b, "debit">>]
      PROVE  WhyFailed(k)'
  BY <1>1, <1>3, <1>k DEF WhyFailed, Moved, NotCharged, Failed
<1>4. pc[b] \notin MoneyKinds =>
        /\ NotCharged(b) => NotCharged(b)'
        /\ seen'[<<b, "debit">>] = seen[<<b, "debit">>]
  BY <1>m, <1>2 DEF NotCharged, Failed, Sends
<1>5. Moved(b, "debit") => Moved(b, "debit")'
  BY <1>m, <1>2 DEF Moves
<1>6. CASE row'[k] = row[k]
  <2>1. pc[b] = "done" => pc'[b] = "done"
    BY <1>2 DEF Progress
  <2>2. "done" \notin MoneyKinds
    BY <1>m
  <2> QED
    BY <1>1, <1>2, <1>3, <1>4, <1>5, <1>6, <2>1, <2>2 DEF WhyFailed
<1>7. CASE row'[k] # row[k]
  <2>1. Key(b) = k
    BY <1>1, <1>2, <1>7 DEF RowStep
  <2>2. SUFFICES ASSUME row'[k].status = "FAILED"
        PROVE  /\ pc'[b] = "done"
               /\ row'[k].reason = "refunded" => Moved(b, "debit")'
               /\ row'[k].reason # "refunded" =>
                     NotCharged(b)' /\ row'[k].reason = seen'[<<b, "debit">>]
    BY <1>3, <2>1
  <2>3. /\ pc'[b] = "done"
        /\ \/ pc[b] = "markFailed" /\ row'[k].reason = seen[<<b, "debit">>]
           \/ pc[b] = "markRefunded" /\ row'[k].reason = "refunded"
    BY <1>1, <1>2, <1>7, <2>2 DEF RowStep, Written
  <2>4. CASE pc[b] = "markFailed"
    <3>1. NotCharged(b)
      BY <1>2, <2>4 DEF OnCourse
    <3>2. seen[<<b, "debit">>] # "refunded"
      <4>1. <<b, "debit">> \in Attempts \X Kinds
        BY <1>m DEF Kinds
      <4> QED
        BY <4>1 DEF SagaInv, TypeInv, TypeOK, Outcomes
    <3> QED
      BY <1>m, <1>4, <2>3, <2>4, <3>1, <3>2
  <2>5. CASE pc[b] = "markRefunded"
    BY <1>2, <1>5, <2>3, <2>5 DEF InOrder
  <2> QED
    BY <2>3, <2>4, <2>5
<1> QED
  BY <1>6, <1>7

\* An attempt owns nothing until it leaves its INSERT.
LEMMA NothingYetStep ==
    ASSUME TypeInv, OwnerInv, [Next]_vars, NEW a \in Attempts, NothingYet(a)
    PROVE  NothingYet(a)'
<1>1. Key(a)' = Key(a) /\ Key(a) \in Keys
  BY KeyAssumption
  DEF Key, TypeInv, TypeOK, Next, SagaStep, Lookup, Call, Return, Rejected, InsertPending,
      MarkFailed, MarkRefunded, MarkCompleted, Update, Finish, WalletExecutes, WalletAnswers,
      Tick, Crash, Finished, vars
<1>2. RowStep(Key(a)) /\ Progress(a)
  BY <1>1, AllRowSteps, AllProgress
<1> SUFFICES ASSUME pc'[a] \in Early, row'[Key(a)] # NoRow, row'[Key(a)].owner = a
             PROVE  FALSE
  BY <1>1 DEF NothingYet, Owns
<1>3. pc[a] \in Early /\ ~Owns(a)
  BY <1>2 DEF Progress, NothingYet
<1> QED
  BY <1>2, <1>3, NoRowAssumption DEF RowStep, Written, Owns

\* The invariant under which the saga keeps its contract.
LEMMA ContractInvariant == Spec => [](SagaInv /\ CourseInv /\ ContractInv)
<1>1. SagaInv /\ CourseInv /\ ContractInv /\ [Next]_vars => ContractInv'
  BY AnsweredStep, NothingYetStep, WhyFailedStep DEF SagaInv, ContractInv
<1>2. SagaInv /\ CourseInv /\ [Next]_vars => CourseInv'
  BY CourseStep
<1> QED
  BY <1>1, <1>2, CourseInit, ContractInvInit, SagaInvariant, PTL DEF Spec

\* Whoever was refused, or never called, was not charged and will not be.
LEMMA DeclinedIsUnmoved ==
    ASSUME SagaInv, CourseInv, NEW a \in Attempts, NEW kind \in MoneyKinds,
           <<a, kind>> \in sent => seen[<<a, kind>>] = "refused"
    PROVE  /\ ~Moved(a, kind)
           /\ <<a, kind>> \in sent => result[<<a, kind>>] # "none"
<1>1. <<a, kind>> \in MoneyCalls
  BY DEF MoneyCalls
<1>2. CASE <<a, kind>> \notin sent
  BY <1>2 DEF SagaInv, WalletInv, MovedMeansSent
<1>3. CASE <<a, kind>> \in sent
  BY <1>1, <1>3 DEF CourseInv, RefusedUnmoved, W!Applied, Moved
<1> QED
  BY <1>2, <1>3

\* Whatever times out, fails or crashes elsewhere: where the row names the
\* refusal or the rejection that failed its transfer, the sender was not charged
\* and will not be.  Only the reason of a call whose outcome is unknown leaves it
\* open, and there it is false: see the run saga_debit_timeout.
THEOREM FailedIsUncharged == Spec => []DeclinedMeansUncharged
<1>1. SagaInv /\ CourseInv /\ ContractInv => DeclinedMeansUncharged
  <2> SUFFICES ASSUME SagaInv, CourseInv, ContractInv,
                      NEW k \in Keys, row[k] # NoRow, row[k].status = "FAILED",
                      row[k].reason \notin {"refunded", "unknown"}
               PROVE  ~Moved(row[k].owner, "debit")
    BY DEF DeclinedMeansUncharged
  <2>1. PICK b \in Attempts : b = row[k].owner
    BY DEF SagaInv, TypeInv, TypeOK, Row
  <2>2. NotCharged(b) /\ row[k].reason = seen[<<b, "debit">>]
    BY <2>1 DEF ContractInv, WhyFailed
  <2>3. <<b, "debit">> \in sent => seen[<<b, "debit">>] = "refused"
    BY <2>2 DEF NotCharged, Failed
  <2> QED
    BY <2>1, <2>3, DeclinedIsUnmoved DEF MoneyKinds
<1> QED
  BY <1>1, ContractInvariant, PTL
-----------------------------------------------------------------------------
\* The values the contract's variables have in the saga.
AbsOutcome == [a \in Attempts |-> OutcomeOf(a)]
AbsMoved == {c \in Attempts \X MoneyKinds : Moved(c[1], c[2])}
AbsKey == [a \in Attempts |-> Key(a)]

\* What the contract reads of them.
LEMMA MapReads ==
    ASSUME SagaInv, ContractInv, NEW a \in Attempts
    PROVE  /\ \A kind \in MoneyKinds : Contract!Moved(a, kind) <=> Moved(a, kind)
           /\ Contract!Taken(Key(a)) <=> row[Key(a)] # NoRow
           /\ Key(a) \in Keys
           /\ Owns(a) <=> OutcomeOf(a) # "none"
           /\ Completed(a) => OutcomeOf(a) = "completed"
           /\ Pending(a) => OutcomeOf(a) = "pending"
<1>1. \A kind \in MoneyKinds : Contract!Moved(a, kind) <=> Moved(a, kind)
  BY DEF Contract!Moved
<1>2. \A b \in Attempts : Key(b) \in Keys
  BY KeyAssumption DEF Key, SagaInv, TypeInv, TypeOK
<1>3. \A b \in Attempts : Owns(b) <=> OutcomeOf(b) # "none"
  BY DEF Owns, OutcomeOf
<1>4. Contract!Taken(Key(a)) <=> row[Key(a)] # NoRow
  <2>1. Contract!Taken(Key(a)) <=> \E b \in Attempts : Key(b) = Key(a) /\ OutcomeOf(b) # "none"
    BY DEF Contract!Taken
  <2>2. ASSUME row[Key(a)] # NoRow
        PROVE  \E b \in Attempts : Key(b) = Key(a) /\ OutcomeOf(b) # "none"
    <3>1. PICK b \in Attempts : b = row[Key(a)].owner
      BY <1>2, <2>2 DEF SagaInv, TypeInv, TypeOK, Row
    <3>2. Key(b) = Key(a)
      BY <1>2, <2>2, <3>1 DEF ContractInv, WhyFailed
    <3> QED
      BY <1>3, <2>2, <3>1, <3>2 DEF Owns
  <2> QED
    BY <1>3, <2>1, <2>2 DEF Owns
<1> QED
  BY <1>1, <1>2, <1>3, <1>4 DEF Completed, Pending, Owns, OutcomeOf

\* What a step leaves alone, the contract does not see change.
LEMMA MapFrame ==
    /\ UNCHANGED payment => UNCHANGED AbsKey
    /\ UNCHANGED ledger => UNCHANGED AbsMoved
    /\ UNCHANGED <<payment, row>> => UNCHANGED AbsOutcome
    /\ UNCHANGED <<payment, ledger, row, answer>> => UNCHANGED Contract!vars
<1>1. UNCHANGED payment => UNCHANGED AbsKey
  BY DEF AbsKey, Key
<1>2. UNCHANGED ledger => UNCHANGED AbsMoved
  BY DEF AbsMoved, Moved
<1>3. UNCHANGED <<payment, row>> => UNCHANGED AbsOutcome
  BY DEF AbsOutcome, OutcomeOf, Key
<1> QED
  BY <1>1, <1>2, <1>3 DEF Contract!vars, AbsKey, AbsMoved, AbsOutcome

\* A write to the row of an attempt that owns it, or whose key is free, is a
\* write to the outcome of that attempt.
LEMMA MapWrite ==
    ASSUME SagaInv, ContractInv, NEW a \in Attempts, NEW final, UNCHANGED payment,
           row[Key(a)] = NoRow \/ Owns(a),
           \A k \in Keys : k # Key(a) => row'[k] = row[k],
           row'[Key(a)] # NoRow, row'[Key(a)].owner = a, OutcomeOf(a)' = final
    PROVE  AbsOutcome' = [AbsOutcome EXCEPT ![a] = final]
<1>1. \A b \in Attempts : Key(b) \in Keys /\ Key(b)' = Key(b)
  BY KeyAssumption DEF Key, SagaInv, TypeInv, TypeOK
<1>2. ASSUME NEW b \in Attempts, b # a PROVE OutcomeOf(b)' = OutcomeOf(b)
  BY <1>1, <1>2 DEF OutcomeOf, Owns
<1> QED
  BY <1>2 DEF AbsOutcome

\* In the beginning the contract is at its beginning.
LEMMA MapInit == Init => Contract!Init
<1> SUFFICES ASSUME Init PROVE Contract!Init
  OBVIOUS
<1>1. \A a \in Attempts : Key(a) \in Keys
  BY KeyAssumption DEF Init, Key
<1>2. \A a \in Attempts : OutcomeOf(a) = "none"
  BY <1>1 DEF Init, OutcomeOf
<1>3. \A a \in Attempts, kind \in MoneyKinds : ~Moved(a, kind)
  BY WalletInit DEF WalletInv, MovedMeansSent, Init
<1>4. answer = [a \in Attempts |-> "none"]
  BY DEF Init
<1> QED
  BY <1>1, <1>2, <1>3, <1>4 DEF Contract!Init
-----------------------------------------------------------------------------
\* An attempt that ends without touching its row tells its client something
\* the contract allows.
LEMMA TellStep ==
    ASSUME SagaInv, ContractInv, NEW a \in Attempts, NEW what,
           UNCHANGED <<payment, ledger, row>>, pc[a] # "done", Respond(a, what),
           \/ what = "error"
           \/ what = "existing" /\ row[Key(a)] # NoRow /\ ~Owns(a)
           \/ what = "invalid" /\ row[Key(a)] = NoRow
           \/ what = "completed" /\ Completed(a)
    PROVE  Contract!Next
<1>1. what \in Contract!Answers
  BY DEF Contract!Answers
<1>2. answer[a] = "none" /\ answer' = [answer EXCEPT ![a] = what]
  BY DEF Respond, ContractInv, AnsweredAtTheEnd
<1>3. UNCHANGED AbsKey /\ UNCHANGED AbsMoved /\ UNCHANGED AbsOutcome
  BY MapFrame
<1>4. Completed(a) => "completed" \in Contract!Says[OutcomeOf(a)]
  BY MapReads DEF Contract!Says
<1>5. Contract!Tell(a, what)
  BY <1>1, <1>2, <1>3, <1>4, MapReads
  DEF Contract!Tell, Contract!MayTell, AbsKey, AbsMoved, AbsOutcome
<1> QED
  BY <1>1, <1>5 DEF Contract!Next

\* An UPDATE that took effect decides the outcome, if the money justifies it.
LEMMA DecideStep ==
    ASSUME SagaInv, ContractInv, NEW a \in Attempts, NEW status \in Status,
           NEW reason \in Outcomes \union {"refunded"}, NEW final \in Contract!Final, NEW what,
           UNCHANGED <<payment, ledger>>, pc[a] # "done", Pending(a),
           Updates(a, status, reason), row' # row,
           OutcomeOf(a)' = final, Contract!Justifies(a, final),
           what \in {"none", "error"} \union Contract!Says[final],
           answer' = [answer EXCEPT ![a] = what]
    PROVE  Contract!Next
<1>1. answer[a] = "none"
  BY DEF ContractInv, AnsweredAtTheEnd
<1>2. what \in {"none"} \union Contract!Answers
  BY DEF Contract!Answers, Contract!Final, Contract!Says
<1>3. UNCHANGED AbsKey /\ UNCHANGED AbsMoved
  BY MapFrame
<1>4. AbsOutcome' = [AbsOutcome EXCEPT ![a] = final]
  <2>1. /\ \A k \in Keys : k # Key(a) => row'[k] = row[k]
        /\ row'[Key(a)] # NoRow /\ row'[Key(a)].owner = a
    BY UpdateTypes DEF SagaInv, TypeInv
  <2> QED
    BY <2>1, MapWrite DEF Owns, Pending
<1>5. OutcomeOf(a) = "pending"
  BY MapReads
<1>6. Contract!Decide(a, final)
  BY <1>1, <1>2, <1>3, <1>4, <1>5
  DEF Contract!Decide, Contract!MayTell, AbsKey, AbsMoved, AbsOutcome
<1> QED
  BY <1>6 DEF Contract!Next

\* The INSERT takes the key.
LEMMA BeginStep ==
    ASSUME SagaInv, ContractInv, NEW a \in Attempts, InsertPending(a)
    PROVE  Contract!Next \/ UNCHANGED Contract!vars
<1>1. pc[a] # "done" /\ answer[a] = "none" /\ answer \in [Attempts -> Answers]
  BY DEF InsertPending, ContractInv, AnsweredAtTheEnd, SagaInv, TypeInv, TypeOK
<1>2. UNCHANGED <<payment, ledger>>
  BY DEF InsertPending, wallet
<1> DEFINE pending == [owner |-> a, status |-> "PENDING", reason |-> "none"]
<1>3. CASE row[Key(a)] = NoRow /\ row' = [row EXCEPT ![Key(a)] = pending]
            /\ (Goto(a, "debit") \/ Respond(a, "error"))
  <2>1. PICK what \in {"none", "error"} : answer' = [answer EXCEPT ![a] = what]
    BY <1>1, <1>3 DEF Goto, Respond
  <2>2. pending \in Row /\ pending # NoRow
    BY NoRowAssumption DEF Row, Status, Outcomes
  <2>3. Key(a) \in Keys /\ Key(a)' = Key(a)
    BY <1>2, MapReads DEF Key
  <2>4. /\ \A k \in Keys : k # Key(a) => row'[k] = row[k]
        /\ row'[Key(a)] = pending
    BY <1>3, <2>3 DEF SagaInv, TypeInv, TypeOK
  <2>5. OutcomeOf(a)' = "pending"
    BY <2>2, <2>3, <2>4 DEF OutcomeOf
  <2>6. AbsOutcome' = [AbsOutcome EXCEPT ![a] = "pending"]
    BY <1>2, <1>3, <2>2, <2>4, <2>5, MapWrite
  <2>7. UNCHANGED AbsKey /\ UNCHANGED AbsMoved
    BY <1>2, MapFrame
  <2>8. ~Contract!Taken(Key(a))
    BY <1>3, MapReads
  <2>9. Contract!Begin(a)
    BY <1>1, <2>1, <2>6, <2>7, <2>8
    DEF Contract!Begin, Contract!MayTell, Contract!Answers, AbsKey, AbsMoved, AbsOutcome
  <2> QED
    BY <2>9 DEF Contract!Next
<1>4. CASE UNCHANGED row /\ Respond(a, "error")
  BY <1>1, <1>2, <1>4, TellStep
<1> QED
  BY <1>3, <1>4 DEF InsertPending

\* The three UPDATEs decide, or tell of an error.
LEMMA UpdateDecides ==
    ASSUME SagaInv, CourseInv, ContractInv, NEW a \in Attempts,
           MarkFailed(a) \/ MarkRefunded(a) \/ MarkCompleted(a)
    PROVE  Contract!Next
<1>m. MoneyKinds = {"debit", "credit", "refund"} /\ Contract!Movements = MoneyKinds
  BY DEF MoneyKinds, Contract!Movements
<1>1. /\ pc[a] # "done" /\ Pending(a) /\ InOrder(a) /\ OnCourse(a)
      /\ UNCHANGED <<payment, ledger>>
      /\ answer[a] = "none" /\ answer \in [Attempts -> Answers]
  BY DEF MarkFailed, MarkRefunded, MarkCompleted, Update, wallet, SagaInv, OwnerInv,
         OwnsWhatItUses, OrderInv, CourseInv, ContractInv, AnsweredAtTheEnd, TypeInv, TypeOK
<1>2. \A kind \in MoneyKinds :
        /\ Contract!Moved(a, kind) <=> Moved(a, kind)
        /\ <<a, kind>> \notin sent => ~Moved(a, kind)
  BY MapReads DEF SagaInv, WalletInv, MovedMeansSent
<1>3. CASE row' = row
  <2>1. Respond(a, "error")
    BY <1>3 DEF MarkFailed, MarkRefunded, MarkCompleted, Update
  <2> QED
    BY <1>1, <1>3, <2>1, TellStep
<1>4. ASSUME NEW status \in Status, NEW reason \in Outcomes \union {"refunded"},
             Updates(a, status, reason), row' # row
      PROVE  OutcomeOf(a)' = IF status = "PENDING" THEN "pending"
                             ELSE IF status = "COMPLETED" THEN "completed"
                             ELSE IF reason = "refunded" THEN "reversed"
                             ELSE IF reason = "unknown" THEN "uncertain"
                             ELSE "declined"
  <2>1. /\ row'[Key(a)] # NoRow /\ row'[Key(a)].owner = a
        /\ row'[Key(a)].status = status /\ row'[Key(a)].reason = reason
    BY <1>1, <1>4, UpdateTypes DEF SagaInv, TypeInv
  <2>2. Key(a)' = Key(a)
    BY <1>1 DEF Key
  <2> QED
    BY <2>1, <2>2 DEF OutcomeOf
<1>5. CASE row' # row /\ MarkFailed(a)
  <2>1. PICK reason \in Outcomes : reason = seen[<<a, "debit">>]
    BY DEF SagaInv, TypeInv, TypeOK, Kinds, MoneyKinds
  <2>2. Updates(a, "FAILED", reason) /\ "FAILED" \in Status
    BY <1>5, <2>1 DEF MarkFailed, Update, Updates, Status
  <2>3. PICK final \in {"uncertain", "declined"} :
          /\ OutcomeOf(a)' = final
          /\ final = "uncertain" <=> reason = "unknown"
    BY <1>4, <1>5, <2>2 DEF Outcomes
  <2>4. NotCharged(a)
    BY <1>1, <1>5 DEF OnCourse, MarkFailed
  <2>5. ~Moved(a, "credit") /\ ~Moved(a, "refund")
    BY <1>m, <1>2, <2>4 DEF NotCharged
  <2>6. final = "declined" => ~Moved(a, "debit")
    BY <1>m, <2>1, <2>3, <2>4, DeclinedIsUnmoved DEF NotCharged, Failed
  <2>7. Contract!Justifies(a, final)
    BY <1>m, <1>2, <2>5, <2>6 DEF Contract!Justifies
  <2>8. PICK what \in {"failed", "error"} : answer' = [answer EXCEPT ![a] = what]
    BY <1>5 DEF MarkFailed, Update, Respond
  <2>9. what \in {"none", "error"} \union Contract!Says[final] /\ final \in Contract!Final
    BY DEF Contract!Says, Contract!Final
  <2> QED
    BY <1>1, <1>5, <2>2, <2>3, <2>7, <2>8, <2>9, DecideStep
<1>6. CASE row' # row /\ MarkRefunded(a)
  <2>1. Updates(a, "FAILED", "refunded") /\ "FAILED" \in Status
    BY <1>6 DEF MarkRefunded, Update, Updates, Status
  <2>2. OutcomeOf(a)' = "reversed"
    BY <1>4, <1>6, <2>1
  <2>3. Contract!Justifies(a, "reversed")
    BY <1>m, <1>1, <1>2, <1>6 DEF Contract!Justifies, InOrder, MarkRefunded
  <2>4. PICK what \in {"refunded", "error"} : answer' = [answer EXCEPT ![a] = what]
    BY <1>6 DEF MarkRefunded, Update, Respond
  <2>5. what \in {"none", "error"} \union Contract!Says["reversed"] /\ "reversed" \in Contract!Final
    BY DEF Contract!Says, Contract!Final
  <2> QED
    BY <1>1, <1>6, <2>1, <2>2, <2>3, <2>4, <2>5, DecideStep
<1>7. CASE row' # row /\ MarkCompleted(a)
  <2>1. Updates(a, "COMPLETED", "none") /\ "COMPLETED" \in Status /\ "none" \in Outcomes
    BY <1>7 DEF MarkCompleted, Update, Updates, Status, Outcomes
  <2>2. OutcomeOf(a)' = "completed"
    BY <1>4, <1>7, <2>1
  <2>3. Contract!Justifies(a, "completed")
    BY <1>m, <1>1, <1>2, <1>7 DEF Contract!Justifies, InOrder, MarkCompleted
  <2>4. PICK what \in {"none", "error"} : answer' = [answer EXCEPT ![a] = what]
    BY <1>1, <1>7 DEF MarkCompleted, Update, Respond, Goto
  <2>5. "completed" \in Contract!Final
    BY DEF Contract!Final
  <2> QED
    BY <1>1, <1>7, <2>1, <2>2, <2>3, <2>4, <2>5, DecideStep
<1> QED
  BY <1>3, <1>5, <1>6, <1>7

\* The wallet service moves money as the outcome of the transaction allows,
\* whoever still waits for it.
LEMMA ExecuteMoves ==
    ASSUME SagaInv, CourseInv, ContractInv, NEW a \in Attempts, NEW kind \in MoneyKinds,
           WalletExecutes(a, kind)
    PROVE  Contract!Next \/ UNCHANGED Contract!vars
<1>m. MoneyKinds = {"debit", "credit", "refund"} /\ Contract!Movements = MoneyKinds
  BY DEF MoneyKinds, Contract!Movements
<1>1. /\ <<a, kind>> \in sent /\ result[<<a, kind>>] = "none"
      /\ UNCHANGED <<payment, row, answer>>
      /\ ~W!Applied(<<a, kind>>)
  BY DEF WalletExecutes, W!Execute, CourseInv, RefusedUnmoved, MoneyCalls
<1>2. ~Moved(a, kind)
  BY <1>1 DEF W!Applied, Moved
<1>3. \A b \in Attempts, k \in MoneyKinds :
        /\ Moved(b, k) => Moved(b, k)'
        /\ Moved(b, k)' => Moved(b, k) \/ <<b, k>> = <<a, kind>>
  <2> SUFFICES ASSUME NEW b \in Attempts, NEW k \in MoneyKinds
               PROVE  /\ Moved(b, k) => Moved(b, k)'
                      /\ Moved(b, k)' => Moved(b, k) \/ <<b, k>> = <<a, kind>>
    OBVIOUS
  <2>1. <<b, k>> \in MoneyCalls
    BY DEF MoneyCalls
  <2> QED
    BY <2>1, ExecuteFacts DEF SagaInv, W!Applied, Moved
<1>4. AbsMoved' = AbsMoved \/ AbsMoved' = AbsMoved \union {<<a, kind>>}
  BY <1>3 DEF AbsMoved
<1>5. UNCHANGED AbsKey /\ UNCHANGED AbsOutcome
  BY <1>1, MapFrame
<1>6. CASE AbsMoved' = AbsMoved
  BY <1>1, <1>5, <1>6 DEF Contract!vars, AbsKey, AbsMoved, AbsOutcome
<1>7. CASE AbsMoved' = AbsMoved \union {<<a, kind>>}
  <2>1. Owns(a) /\ InOrder(a) /\ Key(a) \in Keys /\ WhyFailed(Key(a)) /\ TellsTruth(Key(a))
    BY <1>1, MapReads DEF SagaInv, OwnerInv, OwnsWhatItUses, OrderInv, ContractInv
  <2>2. PICK r \in Row : r = row[Key(a)] /\ r # NoRow /\ r.owner = a
    BY <2>1 DEF Owns, SagaInv, TypeInv, TypeOK
  <2>3. \/ kind = "debit" /\ OutcomeOf(a) \in {"pending", "uncertain"}
        \/ kind # "debit" /\ Moved(a, "debit") /\ OutcomeOf(a) \in {"pending", "reversed"}
    <3>1. CASE r.status = "PENDING"
      BY <1>m, <1>1, <2>1, <2>2, <3>1 DEF OutcomeOf, InOrder
    <3>2. CASE r.status = "COMPLETED"
      BY <1>m, <1>1, <1>2, <2>1, <2>2, <3>2 DEF TellsTruth
    <3>3. CASE r.status = "FAILED" /\ r.reason = "refunded"
      BY <1>m, <1>1, <1>2, <2>1, <2>2, <3>3 DEF OutcomeOf, WhyFailed
    <3>4. CASE r.status = "FAILED" /\ r.reason # "refunded"
      <4>1. NotCharged(a) /\ r.reason = seen[<<a, "debit">>]
        BY <2>1, <2>2, <3>4 DEF WhyFailed
      <4>2. kind = "debit"
        BY <1>m, <1>1, <4>1 DEF NotCharged
      <4>3. r.reason # "refused"
        BY <1>1, <4>1, <4>2, DeclinedIsUnmoved
      <4>4. r.reason = "unknown"
        BY <1>1, <4>1, <4>2, <4>3 DEF NotCharged, Failed
      <4> QED
        BY <2>2, <3>4, <4>2, <4>4 DEF OutcomeOf
    <3> QED
      BY <3>1, <3>2, <3>3, <3>4 DEF Row, Status
  <2>4. ~Contract!Moved(a, kind) /\ (Contract!Moved(a, "debit") <=> Moved(a, "debit"))
    BY <1>m, <1>2, MapReads
  <2>5. Contract!Move(a, kind)
    BY <1>1, <1>5, <1>7, <2>3, <2>4 DEF Contract!Move, AbsKey, AbsMoved, AbsOutcome
  <2> QED
    BY <1>m, <2>5 DEF Contract!Next
<1> QED
  BY <1>4, <1>6, <1>7

\* Every step of the saga is a step of the contract or changes nothing in it.
LEMMA ContractStep ==
    SagaInv /\ CourseInv /\ ContractInv /\ [Next]_vars => [Contract!Next]_(Contract!vars)
<1> SUFFICES ASSUME SagaInv, CourseInv, ContractInv, [Next]_vars
             PROVE  Contract!Next \/ UNCHANGED Contract!vars
  OBVIOUS
<1>1. ASSUME NEW a \in Attempts, Lookup(a) PROVE Contract!Next \/ UNCHANGED Contract!vars
  <2>1. pc[a] # "done" /\ ~Owns(a) /\ UNCHANGED <<payment, ledger, row>>
    BY <1>1 DEF Lookup, wallet, ContractInv, NothingYet, Early
  <2>2. CASE UNCHANGED answer
    BY <2>1, <2>2, MapFrame
  <2>3. CASE \/ row[Key(a)] # NoRow /\ Respond(a, "existing")
             \/ row[Key(a)] = NoRow /\ Respond(a, "invalid")
             \/ Respond(a, "error")
    BY <2>1, <2>3, TellStep
  <2> QED
    BY <1>1, <2>2, <2>3 DEF Lookup, Goto
<1>2. ASSUME NEW a \in Attempts, NEW kind \in Kinds, Return(a, kind) \/ Rejected(a, kind)
      PROVE  Contract!Next \/ UNCHANGED Contract!vars
  <2>1. /\ pc[a] # "done" /\ UNCHANGED <<payment, ledger, row>>
        /\ UNCHANGED answer \/ Respond(a, "error")
    BY <1>2 DEF Return, Rejected, Goto, wallet, Kinds, MoneyKinds
  <2> QED
    BY <2>1, MapFrame, TellStep
<1>3. ASSUME NEW a \in Attempts, Finish(a) PROVE Contract!Next \/ UNCHANGED Contract!vars
  <2>1. /\ pc[a] # "done" /\ Completed(a) /\ UNCHANGED <<payment, ledger, row>>
        /\ Respond(a, "completed") \/ Respond(a, "error")
    BY <1>3 DEF Finish, wallet, SagaInv, OwnerInv, OwnsWhatItUses
  <2> QED
    BY <2>1, TellStep
<1>4. ASSUME NEW a \in Attempts, NEW kind \in MoneyKinds, WalletAnswers(a, kind)
      PROVE  UNCHANGED Contract!vars
  <2>1. UNCHANGED <<payment, ledger, row, answer>>
    BY <1>4, AnswersFacts DEF WalletAnswers, SagaInv
  <2> QED
    BY <2>1, MapFrame
<1>5. CASE Crash
  <2>1. PICK R \in SUBSET Attempts :
          /\ \A a \in R : pc[a] # "done"
          /\ answer' = [a \in Attempts |-> IF a \in R THEN "lost" ELSE answer[a]]
    BY <1>5 DEF Crash
  <2>2. \A a \in R : answer[a] = "none"
    BY <2>1 DEF ContractInv, AnsweredAtTheEnd
  <2>3. UNCHANGED AbsKey /\ UNCHANGED AbsMoved /\ UNCHANGED AbsOutcome
    BY <1>5, MapFrame DEF Crash, wallet
  <2>4. Contract!Lose(R)
    BY <2>1, <2>2, <2>3 DEF Contract!Lose, AbsKey, AbsMoved, AbsOutcome
  <2> QED
    BY <2>4 DEF Contract!Next
<1>6. ASSUME UNCHANGED <<payment, wallet, row, answer>> PROVE UNCHANGED Contract!vars
  BY <1>6, MapFrame DEF wallet
<1> QED
  BY <1>1, <1>2, <1>3, <1>4, <1>5, <1>6, BeginStep, UpdateDecides, ExecuteMoves
  DEF Next, SagaStep, Call, Tick, Finished, vars

\* The saga implements its contract: whatever fails, is late, is lost or is
\* repeated, its clients see one transaction per key whose money moves only as
\* its outcome allows, and are told nothing but that outcome.
THEOREM SagaImplementsContract == Spec => ImplementsContract
<1>1. SagaInv /\ CourseInv /\ ContractInv /\ [Next]_vars => [Contract!Next]_(Contract!vars)
  BY ContractStep
<1> QED
  BY <1>1, MapInit, ContractInvariant, PTL DEF Spec, ImplementsContract, Contract!Spec
-----------------------------------------------------------------------------
\* The contract limits what moved by the outcome, and answers agree with it.
LEMMA HonestStep ==
    Contract!HonestInv /\ [Contract!Next]_(Contract!vars) => Contract!HonestInv'
<1> SUFFICES ASSUME Contract!HonestInv, [Contract!Next]_(Contract!vars)
             PROVE  Contract!HonestInv'
  OBVIOUS
<1> USE DEF Contract!HonestInv, Contract!ContractTypes, Contract!Limits, Contract!Agrees,
            Contract!Moved, Contract!Movements, Contract!Final, Contract!Answers, Contract!Says
\* How the outcome and the answer of one attempt may change together.
<1>0. ASSUME NEW a \in Attempts, NEW new \in {"pending"} \union Contract!Final,
             NEW what \in {"none"} \union Contract!Answers,
             AbsOutcome' = [AbsOutcome EXCEPT ![a] = new], UNCHANGED AbsMoved,
             answer[a] = "none", answer' = [answer EXCEPT ![a] = what],
             what \in {"none", "error"} \union Contract!Says[new],
             \/ new = "pending" /\ AbsOutcome[a] = "none"
             \/ AbsOutcome[a] = "pending" /\ Contract!Justifies(a, new)
      PROVE  Contract!HonestInv'
  <2>1. Contract!ContractTypes'
    BY <1>0 DEF AbsOutcome
  <2>2. \A b \in Attempts, kind \in Contract!Movements : Contract!Moved(b, kind)' <=> Contract!Moved(b, kind)
    BY <1>0 DEF AbsMoved
  <2>3. \A b \in Attempts : b # a => AbsOutcome'[b] = AbsOutcome[b] /\ answer'[b] = answer[b]
    BY <1>0 DEF AbsOutcome
  <2>4. AbsOutcome'[a] = new /\ answer'[a] = what
    BY <1>0 DEF AbsOutcome
  <2> HIDE DEF Contract!Moved
  <2>5. ASSUME NEW b \in Attempts PROVE Contract!Limits(b)' /\ Contract!Agrees(b)'
    <3>1. CASE b # a
      BY <2>2, <2>3, <3>1 DEF AbsOutcome
    <3>2. CASE b = a
      BY <1>0, <2>2, <2>4, <3>2 DEF AbsOutcome, Contract!Justifies
    <3> QED
      BY <3>1, <3>2
  <2> QED
    BY <2>1, <2>5
<1>1. ASSUME NEW a \in Attempts, Contract!Begin(a) PROVE Contract!HonestInv'
  <2>1. PICK what \in {"none", "error"} : Contract!MayTell(a, what) /\ answer' = [answer EXCEPT ![a] = what]
    BY <1>1 DEF Contract!Begin
  <2>2. AbsOutcome' = [AbsOutcome EXCEPT ![a] = "pending"] /\ UNCHANGED AbsMoved
    BY <1>1 DEF Contract!Begin, AbsOutcome, AbsMoved
  <2>3. AbsOutcome[a] = "none"
    BY <1>1 DEF Contract!Begin, Contract!Taken, AbsOutcome
  <2> QED
    BY <1>0, <2>1, <2>2, <2>3 DEF Contract!MayTell
<1>2. ASSUME NEW a \in Attempts, NEW kind \in Contract!Movements, Contract!Move(a, kind)
      PROVE  Contract!HonestInv'
  BY <1>2 DEF Contract!Move
<1>3. ASSUME NEW a \in Attempts, NEW final \in Contract!Final, Contract!Decide(a, final)
      PROVE  Contract!HonestInv'
  <2>1. PICK what \in {"none", "error"} \union Contract!Says[final] :
          Contract!MayTell(a, what) /\ answer' = [answer EXCEPT ![a] = what]
    BY <1>3 DEF Contract!Decide
  <2>2. AbsOutcome' = [AbsOutcome EXCEPT ![a] = final] /\ UNCHANGED AbsMoved
    BY <1>3 DEF Contract!Decide, AbsOutcome, AbsMoved
  <2>3. AbsOutcome[a] = "pending" /\ Contract!Justifies(a, final)
    BY <1>3 DEF Contract!Decide, AbsOutcome
  <2> QED
    BY <1>0, <2>1, <2>2, <2>3 DEF Contract!MayTell
<1>4. ASSUME NEW a \in Attempts, NEW what \in Contract!Answers, Contract!Tell(a, what)
      PROVE  Contract!HonestInv'
  BY <1>4 DEF Contract!Tell, Contract!MayTell, Contract!Taken
<1>5. ASSUME NEW R \in SUBSET Attempts, Contract!Lose(R) PROVE Contract!HonestInv'
  BY <1>5 DEF Contract!Lose
<1>6. CASE UNCHANGED Contract!vars
  BY <1>6 DEF Contract!vars
<1> QED
  BY <1>1, <1>2, <1>3, <1>4, <1>5, <1>6 DEF Contract!Next

\* The contract is honest, and so is the saga that implements it: no answer is
\* made false by a call that takes effect after it.
THEOREM AnswersStayTrue == Spec => []ToldTheTruth
<1>1. Contract!Init => Contract!HonestInv
  BY DEF Contract!Init, Contract!HonestInv, Contract!ContractTypes, Contract!Limits,
         Contract!Agrees, Contract!Moved, Contract!Movements
<1>2. Contract!HonestInv => ToldTheTruth
  BY DEF Contract!HonestInv, Contract!Limits, Contract!Agrees, Contract!Movements,
         Contract!Final, Contract!ContractTypes, Contract!Says, Contract!Honest, ToldTheTruth
<1>3. Contract!Spec => []Contract!HonestInv
  BY <1>1, HonestStep, PTL DEF Contract!Spec
<1> QED
  BY <1>2, <1>3, SagaImplementsContract, PTL DEF ImplementsContract
=============================================================================
