---------------------------- MODULE AtomicLedger ----------------------------
(***************************************************************************)
(* What the wallet service promises its callers, with no lock, no cache    *)
(* and no transaction in sight: a request moves money in one atomic step,  *)
(* at most once, never below zero, and its answer is honest: "ok" only if  *)
(* the money moved, a refusal only if it did not and never will.  After    *)
(* "error" the caller cannot tell: the money may have moved, and if not it *)
(* may still move, once, when a COMMIT was on its way.                     *)
(***************************************************************************)
EXTENDS Ledger

CONSTANTS Wallets,      \* the wallets
          Requests,     \* the requests that may reach the service
          Amounts,      \* the amounts a request may carry
          MaxBalance,   \* the largest balance a wallet row can hold
          Opening       \* Opening[w]: the balance of w at the start

VARIABLES balance,      \* balance[w]: the column wallets.balance
          ledger,       \* ledger[w]: the entries of w, oldest first
          result        \* result[r]: what the caller of r was told

vars == <<balance, ledger, result>>

Refusals == {"insufficient", "busy", "invalid"}
Results == {"none", "ok", "error"} \union Refusals

Applied(r) == \E w \in Wallets : Records(ledger[w], r)

Init ==
    /\ balance = Opening
    /\ ledger = [w \in Wallets |-> <<>>]
    /\ result = [r \in Requests |-> "none"]

\* Move the money of request r, as exactly as the DECIMAL columns keep it.
Execute(r, w, type, amount) ==
    /\ ~Applied(r)
    /\ result[r] \in {"none", "error"}
    /\ \E after \in Decimal(balance[w] + Delta(type, amount)) :
           /\ after \in 0..MaxBalance
           /\ balance' = [balance EXCEPT ![w] = after]
           /\ ledger' = [ledger EXCEPT ![w] =
                           Append(@, Entry(r, type, DecimalAmount(amount), after))]
    /\ UNCHANGED result

\* Answer the requests of R, all of them without an answer so far.
Answer(R, answer) ==
    /\ \A r \in R : result[r] = "none"
    /\ answer = "ok" => \A r \in R : Applied(r)
    /\ answer \in Refusals => \A r \in R : ~Applied(r)
    /\ result' = [r \in Requests |-> IF r \in R THEN answer ELSE result[r]]
    /\ UNCHANGED <<balance, ledger>>

Next ==
    \/ \E r \in Requests, w \in Wallets, type \in EntryTypes, a \in Amounts :
           Execute(r, w, type, a)
    \/ \E R \in SUBSET Requests, answer \in Results \ {"none"} :
           Answer(R, answer)

Spec == Init /\ [][Next]_vars
=============================================================================
