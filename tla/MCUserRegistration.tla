------------------------- MODULE MCUserRegistration -------------------------
(***************************************************************************)
(* Small instances of UserRegistration for TLC.                            *)
(***************************************************************************)
EXTENDS UserRegistration, Sequences

CONSTANTS asha, asha2, ravi

MCOwner == [q \in Queues |-> q]

\* asha and asha2 are addresses of two domains with one local part.
MCHandleOf == [m \in Emails |-> IF m = ravi THEN "ravi" ELSE "asha"]

\* Attempts are the numbers 1, 2, ... and all alike: it is enough to start
\* from the assignments that do not go down the list of requests.
Req(kind, email) == [kind |-> kind, email |-> email]
Requests == << Req("register", asha), Req("google", asha), Req("register", asha2),
               Req("google", asha2), Req("register", ravi), Req("google", ravi) >>

MCInit ==
    /\ Init
    /\ \E f \in [Attempts -> 1..Len(Requests)] :
          /\ \A a \in Attempts : request[a] = Requests[f[a]]
          /\ \A a, b \in Attempts : a < b => f[a] <= f[b]
MCSpec == MCInit /\ [][Next]_vars /\ Fairness
=============================================================================
