------------------------------- MODULE Ledger -------------------------------
(***************************************************************************)
(* The wallet service keeps money twice: as wallets.balance and as rows    *)
(* of ledger_entries, each carrying the balance it left behind.  This      *)
(* module holds the row and what it means for the rows to add up.          *)
(* Amounts are counted in half paise: the DECIMAL(15, 2) columns hold      *)
(* whole paise, the even numbers, and half a paisa is the only fraction    *)
(* whose rounding depends on more than the amount itself.                  *)
(***************************************************************************)
EXTENDS Integers, Sequences

EntryTypes == {"DEBIT", "CREDIT"}

\* One row of ledger_entries, without the columns no property reads.
Entry(id, type, amount, after) ==
    [transaction_id |-> id, entry_type |-> type,
     amount |-> amount, balance_after |-> after]

\* What an entry of this type and amount adds to the balance.
Delta(type, amount) == IF type = "CREDIT" THEN amount ELSE -amount

\* The balance before the i-th entry of a wallet that started at opening.
BalanceBefore(opening, entries, i) ==
    IF i = 1 THEN opening ELSE entries[i - 1].balance_after

\* The balance after every entry of the wallet.
LastBalance(opening, entries) ==
    BalanceBefore(opening, entries, Len(entries) + 1)

\* What a DECIMAL(15, 2) column keeps of a computed sum.  Whole paise
\* survive; binary floating point decides which way half a paisa goes.
Decimal(x) == IF x % 2 = 0 THEN {x} ELSE {x - 1, x + 1}

\* What the column keeps of an amount itself: half a paisa rounds up.
DecimalAmount(a) == a + (a % 2)

\* The entries of a wallet telescope to the difference of two balances: each
\* moves the balance by its own amount, exactly, unless it is of a request of
\* fractional and the balance, rounded by itself, moved one paisa less.
Chains(opening, entries, fractional) ==
    \A i \in 1..Len(entries) :
        LET e == entries[i]
            before == BalanceBefore(opening, entries, i)
        IN
        \/ e.balance_after = before + Delta(e.entry_type, e.amount)
        \/ /\ e.transaction_id \in fractional
           /\ e.balance_after = before + Delta(e.entry_type, e.amount - 2)

\* Is there an entry of this transaction in these entries?
Records(entries, id) ==
    \E i \in 1..Len(entries) : entries[i].transaction_id = id

\* At most one entry of each transaction.
NoDuplicates(entries) ==
    \A i, j \in 1..Len(entries) :
        entries[i].transaction_id = entries[j].transaction_id => i = j
=============================================================================
