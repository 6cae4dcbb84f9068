------------------------------- MODULE Backoff -------------------------------
(***************************************************************************)
(* The pure part of internal/poll/backoff: what a backoff entry is, how    *)
(* long the window after an attempt lasts, and whether it is still open.   *)
(*                                                                         *)
(* Times are relative.  An entry does not hold LastAttemptTime but the     *)
(* time elapsed since it, so the code's "now is before lastAttempt+delay"  *)
(* reads "age < delay".  A Go map returns the zero Status for a missing    *)
(* key and a recorded entry has at least one attempt, so the map is a      *)
(* total function whose missing keys hold NoStatus.                        *)
(***************************************************************************)
EXTENDS Integers

CONSTANTS
    MaxDuration,   \* the largest time.Duration (2^63-1 in the program)
    AttemptCap,    \* bound: Attempts stops counting here
    AgeCap         \* bound: an age stops growing here

ASSUME MaxDurationAssumption == MaxDuration \in Nat \ {0}
ASSUME CapAssumption == AttemptCap \in Nat \ {0} /\ AgeCap \in Nat

Status == [attempts : 0..AttemptCap, age : 0..AgeCap]

NoStatus == [attempts |-> 0, age |-> 0]

Capped(n, cap) == IF n > cap THEN cap ELSE n

Aged(status) ==
    IF status.attempts = 0 THEN status
    ELSE [status EXCEPT !.age = Capped(@ + 1, AgeCap)]

(* A sum or product of durations, in signed two's complement arithmetic.   *)
Wrapped(d) ==
    LET span == 2 * (MaxDuration + 1)
    IN  ((d + MaxDuration + 1) % span) - (MaxDuration + 1)

(* Mutant: no halving test before the multiplication.                      *)
DoubledUnguarded(delay, maxDelay) ==
    IF delay >= maxDelay THEN delay ELSE Wrapped(delay * 2)

(* One turn of the doubling loop: delay, unless the loop has stopped.      *)
Doubled(delay, maxDelay) ==
    IF delay >= maxDelay THEN delay
    ELSE IF delay > maxDelay \div 2 THEN maxDelay
    ELSE Wrapped(delay * 2)

(* The delay determineNextActionTime adds to the time of the last attempt. *)
determineNextActionTime(settings, attempts) ==
    LET base == IF settings.maxDelay > 0 /\ settings.baseDelay > settings.maxDelay
                THEN settings.maxDelay ELSE settings.baseDelay
        delayAt[n \in 0..AttemptCap] ==
            IF n <= 1 THEN base ELSE Doubled(delayAt[n - 1], settings.maxDelay)
    IN  IF settings.exponential THEN delayAt[attempts] ELSE base

(* Mutant: the window still holds at its very end.                         *)
IsInClosedWindow(status, settings) ==
    /\ status.attempts > 0
    /\ status.age <= determineNextActionTime(settings, status.attempts)

IsInBackoffWindow(status, settings) ==
    /\ status.attempts > 0
    /\ status.age < determineNextActionTime(settings, status.attempts)

(* UpdateBackoffStatus: sinceAttempt is the time since AttemptedAt, which  *)
(* the code reads before it sends the request and records after it.        *)
UpdateBackoffStatus(status, sinceAttempt) ==
    [attempts |-> Capped(status.attempts + 1, AttemptCap),
     age |-> sinceAttempt]

(* What config.ValidateConfiguration admits.                               *)
ValidBackoff(settings) ==
    /\ settings.baseDelay > 0
    /\ settings.maxDelay >= settings.baseDelay
    /\ settings.maxDelay <= MaxDuration
=============================================================================
