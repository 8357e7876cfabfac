--------------------------- MODULE MCTransferSaga ---------------------------
(***************************************************************************)
(* Small instances of TransferSaga for TLC.                                *)
(***************************************************************************)
EXTENDS TransferSaga, TLC

CONSTANTS k1, k2, alice, bob, stranger, OpeningBalance

MCUsers == {alice, bob}
MCKeys == {k1, k2}

\* bob's wallet is empty: he can only pay what he was paid.
MCOpening == [u \in Users |-> IF u = alice THEN OpeningBalance ELSE 0]

Pay(key, sender, receiver, amount) ==
    [key |-> key, sender |-> sender, receiver |-> receiver, amount |-> amount]

Payment1 == Pay(k1, alice, bob, 4)
Payment2 == Pay(k2, bob, alice, 2)

\* What a transfer refuses: an amount of zero, a receiver that is not named in
\* a way it knows, oneself as receiver, and a receiver without a wallet.
Refused == {Pay(k2, alice, bob, 0), Pay(k2, alice, Unnamed, 2),
            Pay(k2, alice, alice, 2), Pay(k2, alice, stranger, 2)}

MCPayments == {Payment1, Payment2} \union Refused

\* One attempt makes the first payment; the others retry it, or make another
\* one in the opposite direction, or one that is refused.  All attempts are
\* alike, so it does not matter which of them is the first.
Payer == CHOOSE a \in Attempts : TRUE
MCInit == Init /\ payment[Payer] = Payment1
MCSpec == MCInit /\ [][Next]_vars /\ Fairness

\* All attempts are tries of one payment.
MCRetryInit == Init /\ \A a \in Attempts : payment[a] = Payment1
MCRetrySpec == MCRetryInit /\ [][Next]_vars
=============================================================================
