--------------------------- MODULE MCAccountAccess ---------------------------
(***************************************************************************)
(* Small instances of AccountAccess for TLC.  Requests are the numbers 1,  *)
(* 2, ...; a workload says what each of them is for, whatever the order in *)
(* which they arrive, and what may go wrong around them.                   *)
(***************************************************************************)
EXTENDS AccountAccess, Sequences

CONSTANT Workloads

Load(kinds, faulty) ==
    [kind |-> [r \in Requests |-> IF r \in DOMAIN kinds THEN kinds[r] ELSE "none"],
     faults |-> faulty]

\* More attempts with one OTP than it allows, and an OTP that replaces another.
Resets ==
    {Load(<<"sendForgot", "reset", "reset">>, F) : F \in {{"mongo", "crash"}, {"mail", "expiry"}}}
    \union {Load(<<"sendForgot", "sendForgot", "reset">>, {f}) : f \in FaultKinds}

\* An OTP of another purpose, and an email that is verified already.
Verifications ==
    {Load(<<"sendVerify", "verify", "sendForgot">>, F) : F \in {{"mongo"}, {"crash"}, {"expiry"}}}
    \union {Load(<<"sendVerify", "verify", "sendVerify">>, {"mail"})}

\* A change of the password with a login before, during or after it.
Changes ==
    {Load(<<"sendChange", "change", "login">>, {"mongo", "crash"}),
     Load(<<"sendChange", "change", "login", "login">>, {})}

\* Both ways to a new password at once, each with the OTPs of the other.
Crossings ==
    {Load(<<"sendForgot", "sendChange", "reset", "change">>, {"mongo"}),
     Load(<<"sendForgot", "change", "sendVerify">>, {"crash"}),
     Load(<<"sendChange", "reset", "sendVerify">>, {"mail"})}

\* Sessions that are refreshed, left, and ended by a new password.
Sessions ==
    {Load(<<"login", "refresh", "refresh", "logout">>, {f}) : f \in {"mongo", "crash", "expiry"}}
    \union {Load(<<"google", "refresh", "logout">>, {"mongo"}),
            Load(<<"google", "sendForgot", "reset", "refresh">>, {"crash"})}

MCWorkloads == Resets \union Verifications \union Changes \union Crossings \union Sessions

\* A login and a logout where nothing goes wrong.
LogoutWorkloads == {Load(<<"login", "logout">>, {})}

MCInit == Init /\ [kind |-> kind, faults |-> faults] \in Workloads
MCSpec == MCInit /\ [][Next]_vars
=============================================================================
