---------------------------- MODULE BreakerCalls ----------------------------
(***************************************************************************)
(* The calls of wallet.client.js, all behind one circuit breaker.  A call  *)
(* is let through or rejected, is then in flight for at most its axios     *)
(* timeout, and ends in any order with the others.                         *)
(***************************************************************************)
EXTENDS CircuitBreaker

CONSTANTS Calls,        \* calls that may be in flight together
          CallTimeout   \* the axios timeout, in the ticks of RecoveryTimeout

\* 5 seconds against 30.
ASSUME TimeoutAssumption == CallTimeout \in Nat /\ CallTimeout <= RecoveryTimeout

VARIABLES
    breaker,  \* the shared breaker
    call,     \* call[c]: "idle" or "inFlight"
    left,     \* left[c]: ticks until c in flight times out
    probe,    \* probe[c]: was c let through in the present half-open period?
    passed    \* history: probes that have succeeded since the circuit opened
              \* last, counted up to SuccessThreshold

vars == <<breaker, call, left, probe, passed>>

TypeOK ==
    /\ breaker \in Breaker
    /\ call \in [Calls -> {"idle", "inFlight"}]
    /\ left \in [Calls -> 0..CallTimeout]
    /\ probe \in [Calls -> BOOLEAN]
    /\ passed \in 0..SuccessThreshold

Init ==
    /\ breaker = NewBreaker
    /\ call = [c \in Calls |-> "idle"]
    /\ left = [c \in Calls |-> 0]
    /\ probe = [c \in Calls |-> FALSE]
    /\ passed = 0

\* execute lets c through.
Enter(c) ==
    /\ call[c] = "idle"
    /\ ~Rejects(breaker)
    /\ breaker' = Admit(breaker)
    /\ call' = [call EXCEPT ![c] = "inFlight"]
    /\ left' = [left EXCEPT ![c] = CallTimeout]
    /\ probe' = [probe EXCEPT ![c] = breaker'.state = "HALF_OPEN"]
    /\ UNCHANGED passed

\* Mutant: the rejection is thrown inside the try and counts as a failure.
RejectCounts(c) ==
    /\ call[c] = "idle"
    /\ Rejects(breaker)
    /\ breaker' = OnFailure(breaker)
    /\ UNCHANGED <<call, left, probe, passed>>

\* execute rejects c; nothing remembers that it did.
Reject(c) ==
    /\ call[c] = "idle"
    /\ Rejects(breaker)
    /\ UNCHANGED vars

\* The call is over and so, if the circuit leaves HALF_OPEN, is the period.
End(c) ==
    /\ call[c] = "inFlight"
    /\ call' = [call EXCEPT ![c] = "idle"]
    /\ left' = [left EXCEPT ![c] = 0]
    /\ probe' = [d \in Calls |-> d # c /\ probe[d] /\ breaker'.state = "HALF_OPEN"]

Succeed(c) ==
    /\ breaker' = OnSuccess(breaker)
    /\ passed' = IF probe[c] THEN AtMost(SuccessThreshold, passed + 1) ELSE passed
    /\ End(c)

Fail(c) ==
    /\ breaker' = OnFailure(breaker)
    /\ passed' = IF breaker'.state = "OPEN" THEN 0 ELSE passed
    /\ End(c)

\* Mutant: axios is called without a timeout.
TickWithoutTimeout ==
    /\ breaker' = Older(breaker)
    /\ UNCHANGED <<call, left, probe, passed>>

\* Time passes, but no call outlives its timeout.
Tick ==
    /\ \A c \in Calls : call[c] = "inFlight" => left[c] > 0
    /\ breaker' = Older(breaker)
    /\ left' = [c \in Calls |-> IF call[c] = "inFlight" THEN left[c] - 1 ELSE left[c]]
    /\ UNCHANGED <<call, probe, passed>>

Next ==
    \/ \E c \in Calls : Enter(c) \/ Reject(c) \/ Succeed(c) \/ Fail(c)
    \/ Tick

Spec == Init /\ [][Next]_vars

\* Time passes and calls end.
FairSpec == Spec /\ WF_vars(Tick) /\ \A c \in Calls : WF_vars(Succeed(c) \/ Fail(c))

\* An assumption of the properties below, not of the specification: the
\* service keeps being asked.
Traffic == \A c \in Calls : WF_vars(Enter(c) \/ Reject(c))

\* The wallet service stops failing, for good.
Recovered == <>[][\A c \in Calls : ~Fail(c)]_vars
-----------------------------------------------------------------------------
\* The counters of the breaker never contradict its state.
CountsConsistent == CountsMatchState(breaker)

\* README "enters HALF-OPEN and tests recovery": the test is real.  Every call
\* whose end a half-open circuit counts was let through by it, none is left
\* over from before it opened, because calls time out before it recovers.
OnlyProbesCount ==
    breaker.state = "HALF_OPEN" =>
        \A c \in Calls : call[c] = "inFlight" => probe[c]

\* README "tests recovery": a circuit that opened closes again only when as many
\* calls as successThreshold asks for, all of them let through after it opened,
\* have succeeded and none of them has failed.  The breaker keeps no record of
\* when a call was let through: it counts ends, whichever call's they are, over
\* half-open periods that each of several concurrent probes can cut short.
NeverClosesUntested ==
    [][breaker.state # "CLOSED" /\ breaker'.state = "CLOSED" => passed' = SuccessThreshold]_vars

\* An open circuit tests recovery if calls keep coming: rejecting them does
\* not put the test off.
RecoveryIsTested == Traffic => (breaker.state = "OPEN" ~> breaker.state = "HALF_OPEN")

\* Once the wallet service has stopped failing, the circuit closes for good.
CircuitCloses == Traffic /\ Recovered => <>[](breaker.state = "CLOSED")
=============================================================================
