-------------------------- MODULE TransferContract --------------------------
(***************************************************************************)
(* What POST /transactions/transfer promises its clients, with no breaker, *)
(* no call, no statement and no program counter in sight.  A key belongs   *)
(* to the first attempt that begins a transaction with it.  The money of a *)
(* transaction moves in up to three steps, each at most once and only      *)
(* while its outcome allows it, and what a client is told agrees with the  *)
(* outcome.  The outcome "uncertain" is what time-outs leave: the sender   *)
(* may still be charged.  After "reversed" the receiver may still be       *)
(* credited, or the refund may not come.  No other outcome leaves room.    *)
(***************************************************************************)

CONSTANTS Attempts,  \* requests for a transfer
          Keys       \* idempotency keys

VARIABLES
    key,      \* key[a]: the idempotency key of attempt a
    outcome,  \* outcome[a]: of the transaction attempt a began, if it did
    moved,    \* the movements <<a, kind>> of money that were made
    told      \* told[a]: what the client of a was told

vars == <<key, outcome, moved, told>>

Movements == {"debit", "credit", "refund"}
Final == {"completed", "declined", "uncertain", "reversed"}
Answers == {"existing", "invalid", "failed", "refunded", "completed", "error", "lost"}

Moved(a, kind) == <<a, kind>> \in moved
Taken(k) == \E a \in Attempts : key[a] = k /\ outcome[a] # "none"

Init ==
    /\ key \in [Attempts -> Keys]
    /\ outcome = [a \in Attempts |-> "none"]
    /\ moved = {}
    /\ told = [a \in Attempts |-> "none"]

\* The client of a has not been told anything, and may be told this now.
MayTell(a, what) == told[a] = "none" /\ what \in {"none"} \union Answers

\* Attempt a takes its key; it may fail right away, with the key taken.
Begin(a) ==
    /\ ~Taken(key[a])
    /\ \E what \in {"none", "error"} :
         /\ MayTell(a, what)
         /\ told' = [told EXCEPT ![a] = what]
    /\ outcome' = [outcome EXCEPT ![a] = "pending"]
    /\ UNCHANGED <<key, moved>>

\* Money moves: the sender's before anyone else's, and out of transactions
\* only whose outcome does not exclude it.
Move(a, kind) ==
    /\ ~Moved(a, kind)
    /\ \/ kind = "debit" /\ outcome[a] \in {"pending", "uncertain"}
       \/ kind # "debit" /\ Moved(a, "debit") /\ outcome[a] \in {"pending", "reversed"}
    /\ moved' = moved \union {<<a, kind>>}
    /\ UNCHANGED <<key, outcome, told>>

\* What must have happened to the money of a before this outcome is written.
Justifies(a, final) ==
    \/ final = "completed" /\ Moved(a, "debit") /\ Moved(a, "credit") /\ ~Moved(a, "refund")
    \/ final = "reversed" /\ Moved(a, "debit")
    \/ final = "uncertain" /\ ~Moved(a, "credit") /\ ~Moved(a, "refund")
    \/ final = "declined" /\ \A kind \in Movements : ~Moved(a, kind)

\* What the client may be told of a transaction of its own with this outcome.
Says == [none |-> {}, pending |-> {}, completed |-> {"completed"},
         reversed |-> {"refunded"}, uncertain |-> {"failed"}, declined |-> {"failed"}]

\* The outcome is written, once; the client is told the same, or later, or
\* that something failed.
Decide(a, final) ==
    /\ outcome[a] = "pending"
    /\ Justifies(a, final)
    /\ outcome' = [outcome EXCEPT ![a] = final]
    /\ \E what \in {"none", "error"} \union Says[final] :
         /\ MayTell(a, what)
         /\ told' = [told EXCEPT ![a] = what]
    /\ UNCHANGED <<key, moved>>

\* The client is told the outcome of its transaction, or that its key is
\* another attempt's, or that nothing was begun, or an error.
Tell(a, what) ==
    /\ MayTell(a, what)
    /\ \/ what \in Says[outcome[a]] \union {"error"}
       \/ what = "existing" /\ outcome[a] = "none" /\ Taken(key[a])
       \/ what = "invalid" /\ ~Taken(key[a])
    /\ told' = [told EXCEPT ![a] = what]
    /\ UNCHANGED <<key, outcome, moved>>

\* The clients of R get no answer.
Lose(R) ==
    /\ \A a \in R : told[a] = "none"
    /\ told' = [a \in Attempts |-> IF a \in R THEN "lost" ELSE told[a]]
    /\ UNCHANGED <<key, outcome, moved>>

Next ==
    \/ \E a \in Attempts :
         \/ Begin(a)
         \/ \E kind \in Movements : Move(a, kind)
         \/ \E final \in Final : Decide(a, final)
         \/ \E what \in Answers : Tell(a, what)
    \/ \E R \in SUBSET Attempts : Lose(R)

Spec == Init /\ [][Next]_vars
-----------------------------------------------------------------------------
\* What a client was told stays true of its money, however late a movement:
\* after "completed" and "failed" nothing moves that makes it false.
Honest ==
    \A a \in Attempts :
        /\ told[a] = "completed" => Moved(a, "debit") /\ Moved(a, "credit") /\ ~Moved(a, "refund")
        /\ told[a] = "refunded" => Moved(a, "debit")
        /\ told[a] = "failed" => ~Moved(a, "credit") /\ ~Moved(a, "refund")
        /\ told[a] \in {"existing", "invalid"} => \A kind \in Movements : ~Moved(a, kind)

\* Why: an outcome limits what moved, and an answer says what the outcome is.
Limits(a) ==
    /\ outcome[a] \in {"none", "declined"} => \A kind \in Movements : ~Moved(a, kind)
    /\ outcome[a] = "uncertain" => ~Moved(a, "credit") /\ ~Moved(a, "refund")
    /\ outcome[a] = "reversed" => Moved(a, "debit")
    /\ outcome[a] = "completed" => Moved(a, "debit") /\ Moved(a, "credit") /\ ~Moved(a, "refund")

Agrees(a) ==
    /\ told[a] \in {"completed", "refunded", "failed"} => told[a] \in Says[outcome[a]]
    /\ told[a] \in {"existing", "invalid"} => outcome[a] = "none"

ContractTypes ==
    /\ outcome \in [Attempts -> {"none", "pending"} \union Final]
    /\ told \in [Attempts -> {"none"} \union Answers]

HonestInv == ContractTypes /\ \A a \in Attempts : Limits(a) /\ Agrees(a)
=============================================================================
