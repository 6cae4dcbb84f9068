--------------------------- MODULE MCBackoffProofs ---------------------------
(***************************************************************************)
(* What MCBackoff checks for small durations, for every MaxDuration and    *)
(* every bound on the attempts.                                            *)
(***************************************************************************)
EXTENDS MCBackoff, BackoffProofs

(* The settings are valid ones and do not change; the status is a status.  *)
TypeOK ==
    /\ settings \in AllSettings
    /\ status \in Status

LEMMA InitTypeOK == Init => TypeOK
  BY CapAssumption DEF Init, TypeOK, NoStatus, Status

LEMMA NextTypeOK == TypeOK /\ [Next]_vars => TypeOK'
  BY CapAssumption
  DEF TypeOK, Next, Attempt, Reset, vars, UpdateBackoffStatus, Capped, NoStatus, Status

(* README.md:236: after attempt n, the delay of determineNextActionTime is *)
(* min(base delay x 2^(n-1), maximum delay) with exponential backoff and   *)
(* the base delay without.                                                 *)
THEOREM DelayIsTheDocumentedOne == Spec => []DelayIsDocumentedDelay
  <1>1. TypeOK => DelayIsDocumentedDelay
    <2> SUFFICES ASSUME TypeOK, status.attempts > 0
                 PROVE  DelayIsDocumentedDelay
      BY DEF DelayIsDocumentedDelay
    <2>1. status.attempts \in 1..AttemptCap
      BY CapAssumption DEF TypeOK, Status
    <2>2. /\ settings.baseDelay \in Nat /\ settings.maxDelay \in Nat
          /\ settings.exponential \in BOOLEAN
          /\ ValidBackoff(settings)
      BY MaxDurationAssumption DEF TypeOK, AllSettings
    <2>3. determineNextActionTime(settings, status.attempts) =
            IF settings.exponential
            THEN AtMost(settings.baseDelay * PowerOfTwo[status.attempts - 1],
                        settings.maxDelay)
            ELSE settings.baseDelay
      BY <2>1, <2>2, DelayIsDocumented
    <2> QED
      BY <2>2, <2>3 DEF DelayIsDocumentedDelay, AtMost
  <1> QED
    BY <1>1, InitTypeOK, NextTypeOK, PTL DEF Spec
=============================================================================
