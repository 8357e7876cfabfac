---------------------------- MODULE BreakerProofs ----------------------------
(***************************************************************************)
(* Proofs about BreakerCalls, for any number of calls, any thresholds and  *)
(* any call timeout that is not longer than the recovery timeout.          *)
(***************************************************************************)
EXTENDS BreakerCalls, CircuitBreakerProofs

\* While the circuit is open, every call in flight is older than the last
\* failure, and will have timed out before the circuit has recovered.
DrainsBeforeRecovery ==
    breaker.state = "OPEN" =>
        \A c \in Calls : call[c] = "inFlight" => left[c] + breaker.age <= CallTimeout

ProbeInv == OnlyProbesCount /\ DrainsBeforeRecovery
-----------------------------------------------------------------------------
CountsInv == TypeOK /\ CountsConsistent

\* Every step keeps the breaker well typed and its counters sound.
LEMMA CountsStep == CountsInv /\ [Next]_vars => CountsInv'
<1> SUFFICES ASSUME CountsInv, [Next]_vars PROVE CountsInv'
  OBVIOUS
<1> USE TimeoutAssumption, ThresholdAssumption DEF CountsInv, TypeOK, CountsConsistent
<1>1. ASSUME NEW c \in Calls, Enter(c) PROVE CountsInv'
  BY <1>1, AdmitSound DEF Enter
<1>2. ASSUME NEW c \in Calls, Succeed(c) PROVE CountsInv'
  BY <1>2, OnSuccessSound DEF Succeed, End, AtMost
<1>3. ASSUME NEW c \in Calls, Fail(c) PROVE CountsInv'
  BY <1>3, OnFailureSound DEF Fail, End
<1>4. CASE Tick
  BY <1>4, OlderSound DEF Tick
<1>5. CASE UNCHANGED vars
  BY <1>5 DEF vars
<1> QED
  BY <1>1, <1>2, <1>3, <1>4, <1>5 DEF Next, Reject

\* So they are at all times.
LEMMA CountsInvariant == Spec => []CountsInv
<1>1. Init => CountsInv
  BY NewBreakerSound, TimeoutAssumption, ThresholdAssumption DEF Init, CountsInv, TypeOK, CountsConsistent
<1> QED
  BY <1>1, CountsStep, PTL DEF Spec

\* The breaker is a well-typed breaker at all times.
THEOREM TypeCorrect == Spec => []TypeOK
<1>1. CountsInv => TypeOK
  BY DEF CountsInv
<1> QED
  BY <1>1, CountsInvariant, PTL

\* Its counters never contradict its state, in whatever order calls end.
THEOREM CountersSound == Spec => []CountsConsistent
<1>1. CountsInv => CountsConsistent
  BY DEF CountsInv
<1> QED
  BY <1>1, CountsInvariant, PTL
-----------------------------------------------------------------------------
\* Every step keeps old calls out of a half-open circuit: a call enters an
\* OPEN circuit only once all calls before it have drained.
LEMMA ProbeStep == CountsInv /\ CountsInv' /\ ProbeInv /\ [Next]_vars => ProbeInv'
<1> SUFFICES ASSUME CountsInv, CountsInv', ProbeInv, [Next]_vars PROVE ProbeInv'
  OBVIOUS
<1> USE TimeoutAssumption, ThresholdAssumption
    DEF CountsInv, TypeOK, CountsConsistent, ProbeInv, OnlyProbesCount, DrainsBeforeRecovery
<1>0. breaker.age \in Nat /\ breaker'.age \in Nat /\ \A c \in Calls : left[c] \in Nat
  BY DEF Breaker
<1>1. ASSUME NEW c \in Calls, Enter(c) PROVE ProbeInv'
  <2>1. CASE breaker.state = "OPEN"
    <3>1. breaker.age > CallTimeout
      BY <1>0, <1>1, <2>1 DEF Enter, Rejects
    <3>2. \A d \in Calls : call[d] # "inFlight"
      BY <1>0, <2>1, <3>1
    <3>3. breaker'.state = "HALF_OPEN"
      BY <1>1, <2>1, AdmitSound DEF Enter
    <3> QED
      BY <1>1, <3>2, <3>3 DEF Enter
  <2>2. CASE breaker.state # "OPEN"
    <3>1. breaker'.state = breaker.state
      BY <1>1, <2>2, AdmitSound DEF Enter
    <3> QED
      BY <1>1, <2>2, <3>1 DEF Enter
  <2> QED
    BY <2>1, <2>2
<1>2. ASSUME NEW c \in Calls, Succeed(c) PROVE ProbeInv'
  <2>1. /\ breaker'.age = breaker.age
        /\ breaker'.state = breaker.state \/ breaker'.state = "CLOSED"
    BY <1>2, OnSuccessSound DEF Succeed
  <2> QED
    BY <1>2, <2>1 DEF Succeed, End
<1>3. ASSUME NEW c \in Calls, Fail(c) PROVE ProbeInv'
  <2>1. breaker'.age = 0 /\ breaker'.state # "HALF_OPEN"
    BY <1>3, OnFailureSound DEF Fail
  <2> QED
    BY <1>3, <2>1 DEF Fail, End
<1>4. CASE Tick
  <2>1. breaker'.state = breaker.state /\ breaker'.age <= breaker.age + 1
    BY <1>4, OlderSound DEF Tick
  <2> QED
    BY <1>0, <1>4, <2>1 DEF Tick
<1>5. CASE UNCHANGED vars
  BY <1>5 DEF vars
<1> QED
  BY <1>1, <1>2, <1>3, <1>4, <1>5 DEF Next, Reject

\* A half-open circuit is tested by its own probes alone: calls time out no
\* later than it recovers, so none of an earlier period is still in flight.
THEOREM ProbesAreFresh == Spec => []OnlyProbesCount
<1>1. Init => ProbeInv
  BY DEF Init, NewBreaker, ProbeInv, OnlyProbesCount, DrainsBeforeRecovery
<1>2. ProbeInv => OnlyProbesCount
  BY DEF ProbeInv
<1> QED
  BY <1>1, <1>2, ProbeStep, CountsInvariant, PTL DEF Spec
-----------------------------------------------------------------------------
\* Every success the breaker counts is one of a probe since the circuit opened.
CountsProbes == breaker.successCount <= passed

\* Every step keeps it: in a half-open circuit only probes are in flight, and a
\* failure takes both counts back to none.
LEMMA PassedStep ==
    CountsInv /\ CountsInv' /\ OnlyProbesCount /\ CountsProbes /\ [Next]_vars
      => /\ CountsProbes'
         /\ breaker.state # "CLOSED" /\ breaker'.state = "CLOSED" => passed' = SuccessThreshold
<1> SUFFICES ASSUME CountsInv, CountsInv', OnlyProbesCount, CountsProbes, [Next]_vars
             PROVE  /\ CountsProbes'
                    /\ breaker.state # "CLOSED" /\ breaker'.state = "CLOSED"
                         => passed' = SuccessThreshold
  OBVIOUS
<1> USE ThresholdAssumption DEF CountsInv, TypeOK, CountsConsistent, CountsProbes
<1>0. /\ breaker.successCount \in Nat /\ breaker'.successCount \in 0..(SuccessThreshold - 1)
      /\ passed \in 0..SuccessThreshold /\ passed' \in 0..SuccessThreshold
      /\ breaker'.state # "HALF_OPEN" => breaker'.successCount = 0
  BY DEF Breaker, CountsMatchState
<1>1. ASSUME NEW c \in Calls, Enter(c)
      PROVE  /\ CountsProbes'
             /\ breaker.state # "CLOSED" => breaker'.state # "CLOSED"
  BY <1>1, AdmitSound DEF Enter
<1>2. ASSUME NEW c \in Calls, Succeed(c)
      PROVE  /\ CountsProbes'
             /\ breaker.state # "CLOSED" /\ breaker'.state = "CLOSED" => passed' = SuccessThreshold
  <2>1. CASE breaker.state = "HALF_OPEN"
    <3>1. passed' = AtMost(SuccessThreshold, passed + 1)
      BY <1>2, <2>1 DEF Succeed, End, OnlyProbesCount
    <3>2. /\ breaker'.successCount <= breaker.successCount + 1
          /\ breaker'.state = "CLOSED" => breaker.successCount + 1 >= SuccessThreshold
      BY <1>2, <2>1, OnSuccessSound DEF Succeed
    <3> QED
      BY <1>0, <2>1, <3>1, <3>2 DEF AtMost
  <2>2. CASE breaker.state # "HALF_OPEN"
    BY <1>0, <1>2, <2>2, OnSuccessSound DEF Succeed
  <2> QED
    BY <2>1, <2>2
<1>3. ASSUME NEW c \in Calls, Fail(c)
      PROVE  /\ CountsProbes'
             /\ breaker.state # "CLOSED" => breaker'.state # "CLOSED"
  BY <1>0, <1>3, OnFailureSound DEF Fail
<1>4. CASE Tick
  BY <1>4, OlderSound DEF Tick
<1>5. CASE UNCHANGED vars
  BY <1>5 DEF vars
<1> QED
  BY <1>1, <1>2, <1>3, <1>4, <1>5 DEF Next, Reject

\* A circuit that opened closes only after SuccessThreshold calls it let through
\* since have succeeded, and none has failed in between.
THEOREM NoUntestedClose == Spec => NeverClosesUntested
<1>1. Init => CountsProbes
  BY ThresholdAssumption DEF Init, NewBreaker, CountsProbes
<1>2. CountsInv /\ CountsInv' /\ OnlyProbesCount /\ CountsProbes /\ [Next]_vars => CountsProbes'
  BY PassedStep
<1>3. CountsInv /\ CountsInv' /\ OnlyProbesCount /\ CountsProbes /\ [Next]_vars
        => [breaker.state # "CLOSED" /\ breaker'.state = "CLOSED" => passed' = SuccessThreshold]_vars
  BY PassedStep
<1> QED
  BY <1>1, <1>2, <1>3, CountsInvariant, ProbesAreFresh, PTL DEF Spec, NeverClosesUntested
=============================================================================
