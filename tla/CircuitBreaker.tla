--------------------------- MODULE CircuitBreaker ---------------------------
(***************************************************************************)
(* The class CircuitBreaker of the transaction service as functions from   *)
(* breaker to breaker.  JavaScript runs each of them without interruption; *)
(* what happens between them belongs to the modules that use this one.     *)
(***************************************************************************)
EXTENDS Integers

CONSTANTS FailureThreshold,  \* failures that open a closed circuit
          SuccessThreshold,  \* successes that close a half-open one
          RecoveryTimeout    \* how long an open circuit rejects, in ticks

ASSUME ThresholdAssumption ==
    /\ FailureThreshold \in Nat \ {0}
    /\ SuccessThreshold \in Nat \ {0}
    /\ RecoveryTimeout \in Nat

States == {"CLOSED", "OPEN", "HALF_OPEN"}

\* age is Date.now() - lastFailureTime; it is read in state OPEN only and
\* stops just past RecoveryTimeout, as failureCount does at its threshold:
\* the code compares them with nothing larger.
Breaker == [state : States, failureCount : 0..FailureThreshold,
            successCount : 0..(SuccessThreshold - 1), age : 0..(RecoveryTimeout + 1)]

NewBreaker == [state |-> "CLOSED", failureCount |-> 0, successCount |-> 0, age |-> 0]

AtMost(bound, n) == IF n <= bound THEN n ELSE bound

\* execute throws before it calls anything.
Rejects(b) == b.state = "OPEN" /\ b.age <= RecoveryTimeout

\* Mutant: every probe starts a new count of successes.
AdmitRestartsCount(b) ==
    IF b.state = "CLOSED" THEN b ELSE [b EXCEPT !.state = "HALF_OPEN", !.successCount = 0]

\* The breaker once execute has let a call through.
Admit(b) == IF b.state = "OPEN" THEN [b EXCEPT !.state = "HALF_OPEN"] ELSE b

\* Mutant: > for >=.
OnSuccessOffByOne(b) ==
    LET counted == b.successCount + 1
        half == b.state = "HALF_OPEN"
        closes == half /\ counted > SuccessThreshold
    IN [state |-> IF closes THEN "CLOSED" ELSE b.state,
        failureCount |-> 0,
        successCount |-> IF closes THEN 0 ELSE IF half THEN counted ELSE b.successCount,
        age |-> b.age]

\* _onSuccess: only a half-open circuit counts successes.
OnSuccess(b) ==
    LET counted == b.successCount + 1
        half == b.state = "HALF_OPEN"
        closes == half /\ counted >= SuccessThreshold
    IN [state |-> IF closes THEN "CLOSED" ELSE b.state,
        failureCount |-> 0,
        successCount |-> IF closes THEN 0 ELSE IF half THEN counted ELSE b.successCount,
        age |-> b.age]

\* Mutant: the successes of a half-open period that failed are not forgotten.
OnFailureKeepsCount(b) ==
    LET counted == AtMost(FailureThreshold, b.failureCount + 1)
        opens == counted = FailureThreshold \/ b.state = "HALF_OPEN"
    IN [b EXCEPT !.state = IF opens THEN "OPEN" ELSE @, !.failureCount = counted, !.age = 0]

\* _onFailure: too many failures, or one in a half-open circuit, open it.
OnFailure(b) ==
    LET counted == AtMost(FailureThreshold, b.failureCount + 1)
        opens == counted = FailureThreshold \/ b.state = "HALF_OPEN"
    IN [state |-> IF opens THEN "OPEN" ELSE b.state,
        failureCount |-> counted,
        successCount |-> IF opens THEN 0 ELSE b.successCount,
        age |-> 0]

\* A tick of the clock.
Older(b) ==
    IF b.state = "OPEN"
    THEN [b EXCEPT !.age = AtMost(RecoveryTimeout + 1, @ + 1)]
    ELSE b

\* A closed circuit has not failed too often, and only a half-open one has
\* successes on its count: whatever order calls end in, no success of an
\* earlier half-open period counts in a later one.
CountsMatchState(b) ==
    /\ b.state = "CLOSED" => b.failureCount < FailureThreshold
    /\ b.successCount > 0 => b.state = "HALF_OPEN"
=============================================================================
