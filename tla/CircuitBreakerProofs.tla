------------------------ MODULE CircuitBreakerProofs ------------------------
(***************************************************************************)
(* What the functions on breakers return: a well-typed breaker whose       *)
(* counters match its state, if they were given one.  For any thresholds.  *)
(***************************************************************************)
EXTENDS CircuitBreaker, TLAPS

\* A new breaker is sound.
LEMMA NewBreakerSound == NewBreaker \in Breaker /\ CountsMatchState(NewBreaker)
  BY ThresholdAssumption DEF NewBreaker, Breaker, States, CountsMatchState

\* Letting a call through opens an open circuit halfway.
LEMMA AdmitSound ==
    ASSUME NEW b \in Breaker, CountsMatchState(b)
    PROVE  /\ Admit(b) \in Breaker
           /\ CountsMatchState(Admit(b))
           /\ Admit(b).state = (IF b.state = "OPEN" THEN "HALF_OPEN" ELSE b.state)
           /\ Admit(b).successCount = b.successCount
  BY ThresholdAssumption DEF Admit, Breaker, States, CountsMatchState

\* A success closes a circuit only if it is half open and the last one needed,
\* and adds at most one to the count.
LEMMA OnSuccessSound ==
    ASSUME NEW b \in Breaker, CountsMatchState(b)
    PROVE  /\ OnSuccess(b) \in Breaker
           /\ CountsMatchState(OnSuccess(b))
           /\ \/ OnSuccess(b).state = b.state
              \/ /\ b.state = "HALF_OPEN" /\ OnSuccess(b).state = "CLOSED"
                 /\ b.successCount + 1 >= SuccessThreshold
           /\ OnSuccess(b).successCount <= b.successCount + 1
           /\ OnSuccess(b).age = b.age
<1> DEFINE half == b.state = "HALF_OPEN"
           closes == half /\ b.successCount + 1 >= SuccessThreshold
<1>1. b.successCount \in Nat /\ b.successCount < SuccessThreshold
  BY ThresholdAssumption DEF Breaker, CountsMatchState
<1>2. CASE closes
  BY <1>1, <1>2, ThresholdAssumption DEF OnSuccess, Breaker, States, CountsMatchState
<1>3. CASE half /\ ~closes
  BY <1>1, <1>3, ThresholdAssumption DEF OnSuccess, Breaker, States, CountsMatchState
<1>4. CASE ~half
  BY <1>1, <1>4, ThresholdAssumption DEF OnSuccess, Breaker, States, CountsMatchState
<1> QED
  BY <1>2, <1>3, <1>4

\* A failure opens a circuit or leaves it closed, and restarts its clock.
LEMMA OnFailureSound ==
    ASSUME NEW b \in Breaker, CountsMatchState(b)
    PROVE  /\ OnFailure(b) \in Breaker
           /\ CountsMatchState(OnFailure(b))
           /\ \/ OnFailure(b).state = "OPEN"
              \/ b.state = "CLOSED" /\ OnFailure(b).state = "CLOSED"
           /\ OnFailure(b).age = 0
<1> DEFINE counted == AtMost(FailureThreshold, b.failureCount + 1)
           opens == counted = FailureThreshold \/ b.state = "HALF_OPEN"
<1>1. b.failureCount \in Nat /\ counted \in 0..FailureThreshold
  BY ThresholdAssumption DEF Breaker, AtMost
<1>2. CASE opens
  BY <1>1, <1>2, ThresholdAssumption DEF OnFailure, Breaker, States, CountsMatchState
<1>3. CASE ~opens
  BY <1>1, <1>3, ThresholdAssumption DEF OnFailure, Breaker, States, CountsMatchState
<1> QED
  BY <1>2, <1>3

\* Time alone changes no state.
LEMMA OlderSound ==
    ASSUME NEW b \in Breaker, CountsMatchState(b)
    PROVE  /\ Older(b) \in Breaker
           /\ CountsMatchState(Older(b))
           /\ Older(b).state = b.state
           /\ Older(b).successCount = b.successCount
           /\ Older(b).age <= b.age + 1
  BY ThresholdAssumption DEF Older, AtMost, Breaker, States, CountsMatchState
=============================================================================
