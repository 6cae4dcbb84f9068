------------------------------ MODULE MCBackoff ------------------------------
(***************************************************************************)
(* Every valid backoff configuration over a small duration, and every      *)
(* number of attempts: the loop against the formula of the README.         *)
(***************************************************************************)
EXTENDS Backoff, PowersOfTwo

(* The recursion of PowersOfTwo is the exponent of the README's formula.   *)
ASSUME PowersAreExponents == \A n \in 0..AttemptCap : PowerOfTwo[n] = 2 ^ n

VARIABLES settings, status

vars == <<settings, status>>

AllSettings ==
    {s \in [baseDelay : 1..MaxDuration, maxDelay : 1..MaxDuration,
            exponential : BOOLEAN] : ValidBackoff(s)}

Init ==
    /\ settings \in AllSettings
    /\ status = NoStatus

Attempt == status' = UpdateBackoffStatus(status, 0)

Reset == status' = NoStatus

Next == (Attempt \/ Reset) /\ UNCHANGED settings

Spec == Init /\ [][Next]_vars

(* README.md:236: "With exponential backoff enabled, the delay after       *)
(* attempt number n is min(base delay x 2^(n-1), maximum delay) [...] When *)
(* exponential backoff is disabled, each attempt uses the base delay."     *)
(* The loop of determineNextActionTime halves maxDelay so as not to        *)
(* overflow a duration; the result is this formula all the same.           *)
DelayIsDocumentedDelay ==
    status.attempts > 0 =>
        LET exact == settings.baseDelay * PowerOfTwo[status.attempts - 1]
        IN  determineNextActionTime(settings, status.attempts)
              = IF ~settings.exponential THEN settings.baseDelay
                ELSE IF exact < settings.maxDelay THEN exact
                ELSE settings.maxDelay
=============================================================================
