--------------------------- MODULE MCWalletLedger ---------------------------
(***************************************************************************)
(* Small instances of WalletLedger for TLC.                                *)
(***************************************************************************)
EXTENDS WalletLedger, TLC

CONSTANTS OpeningBalance

\* All wallets start with the same balance.
MCOpening == [w \in Wallets |-> OpeningBalance]

\* The jobs of the model, in an order.  Crediting and adding money differ only
\* in who checks the amount, so it takes one of each; two debits compete for one
\* balance, two reads for the cache.  Half a paisa can be added, three taken.
JobOf(op, w, amount) == [op |-> op, wallet |-> w, amount |-> amount]
Menu(w) == << JobOf("debit", w, 3), JobOf("debit", w, 3), JobOf("credit", w, 4),
              JobOf("addMoney", w, 1), JobOf("addMoney", w, 4),
              JobOf("getBalance", w, 0), JobOf("getBalance", w, 0) >>

\* Requests are the numbers 1, 2, ... and all alike, so it is enough to start
\* from the assignments of jobs that go down the menu.
MenuOrder ==
    \A w \in Wallets :
        \E f \in [Requests -> 1..Len(Menu(w))] :
            /\ \A r \in Requests : job[r] = Menu(w)[f[r]]
            /\ \A q, r \in Requests : q < r => f[q] < f[r]

MCInit == Init /\ MenuOrder
MCSpec == MCInit /\ [][Next]_vars /\ Fairness
=============================================================================
