---------------------------- MODULE RestartPolicy ----------------------------
(***************************************************************************)
(* What one poller promises about restarts, in the words of README.md,     *)
(* "Restart backoff" (lines 236-238): which targets it restarts after a    *)
(* status snapshot, how the delays grow, when a history is forgotten.      *)
(* There is no ticker, no HTTP exchange and no string key here: a history  *)
(* belongs to its target and an attempt is an instant.  Poller.tla is      *)
(* checked to implement this specification.                                *)
(***************************************************************************)
EXTENDS Integers, PowersOfTwo

CONSTANTS
    Targets,      \* what can be restarted, records [kind, connector, task]
    Snapshots,    \* functions from Targets to observed states
    Settings,     \* records [backoff, restartFailedTasks]
    AttemptCap, AgeCap   \* bounds, as in Backoff.tla

VARIABLES
    settings,     \* in effect
    history,      \* per target: restart attempts since it was last forgotten
                  \* and time since the latest of them
    seen,         \* the snapshot still to be acted on: at most one
    due           \* targets the latest snapshot says must be restarted

vars == <<settings, history, seen, due>>

Never == [attempts |-> 0, age |-> 0]

SmallerOf(a, b) == IF a < b THEN a ELSE b

Delay(backoff, n) ==
    IF backoff.exponential
    THEN SmallerOf(backoff.baseDelay * PowerOfTwo[n - 1], backoff.maxDelay)
    ELSE backoff.baseDelay

Waiting(entry) ==
    /\ settings.backoff.enabled
    /\ entry.attempts > 0
    /\ entry.age < Delay(settings.backoff, entry.attempts)

(* "Failed connectors are restarted regardless of restartFailedTasks; that *)
(* setting controls failed tasks whose connector is running."              *)
Failing(snapshot) ==
    {t \in Targets :
        /\ snapshot[t] = "FAILED"
        /\ t.kind = "restart_task" =>
             /\ settings.restartFailedTasks
             /\ \A c \in Targets :
                  c.kind = "restart_connector" /\ c.connector = t.connector
                    => snapshot[c] = "RUNNING"}

Forgiven(snapshot) == {t \in Targets : snapshot[t] \in {"RUNNING", "absent"}}

Init ==
    /\ settings \in Settings
    /\ history = [t \in Targets |-> Never]
    /\ seen = {}
    /\ due = {}

Adopt ==
    /\ due = {} /\ seen = {}
    /\ settings' \in Settings
    /\ UNCHANGED <<history, seen, due>>

Observe ==
    /\ due = {} /\ seen = {}
    /\ \E snapshot \in Snapshots : seen' = {snapshot}
    /\ UNCHANGED <<settings, history, due>>

Decide ==
    \E snapshot \in seen :
        /\ history' = [t \in Targets |-> IF t \in Forgiven(snapshot)
                                         THEN Never ELSE history[t]]
        /\ due' = {t \in Failing(snapshot) : ~Waiting(history[t])}
        /\ seen' = {}
        /\ UNCHANGED settings

Attempt ==
    \E t \in due :
        /\ history' = [history EXCEPT ![t] =
                         [attempts |-> SmallerOf(@.attempts + 1, AttemptCap),
                          age |-> 0]]
        /\ due' = due \ {t}
        /\ UNCHANGED <<settings, seen>>

TimePasses ==
    /\ history' = [t \in Targets |->
                     IF history[t].attempts = 0 THEN history[t]
                     ELSE [history[t] EXCEPT !.age = SmallerOf(@ + 1, AgeCap)]]
    /\ UNCHANGED <<settings, seen, due>>

Next == Adopt \/ Observe \/ Decide \/ Attempt \/ TimePasses

Spec == Init /\ [][Next]_vars
=============================================================================
