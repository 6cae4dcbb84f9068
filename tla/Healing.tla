------------------------------- MODULE Healing -------------------------------
(***************************************************************************)
(* A poller and the Kafka Connect cluster it looks after: Poller answers   *)
(* to any snapshots, here they come from connectors and tasks that fail,   *)
(* are paused, resumed or deleted by others, and recover when a restart    *)
(* that the poller sent is performed.  Connect is external: it performs a  *)
(* restart before or after its answer, after the poller gave up waiting    *)
(* for one, or never.                                                      *)
(***************************************************************************)
EXTENDS Poller

CONSTANT MaxEvents   \* bound: what befalls Connect's targets from outside

ASSUME MaxEventsAssumption == MaxEvents \in Nat

(* includeTasks and onlyFailed: a connector's failed tasks come with it.   *)
RestartedWith(t) ==
    IF t.kind = "restart_task" THEN {t}
    ELSE {u \in Targets : u.connector = t.connector}

Restarted(snapshot, t) ==
    [u \in Targets |-> IF u \in RestartedWith(t) /\ snapshot[u] = "FAILED"
                       THEN "RUNNING" ELSE snapshot[u]]

ASSUME RestartsAssumption ==
    \A s \in Responses, t \in Targets : Restarted(s, t) \in Responses

VARIABLES
    actual,      \* what the targets are
    events,      \* how often they were changed from outside
    sent,        \* restarts that Connect may still perform
    answer,      \* the HTTP response to the restart being requested
    event,       \* level of the event the latest step logged, if any
    failedSince  \* targets that were FAILED since the cycle began

connectVars == <<actual, events, sent, failedSince>>
healingVars == <<vars, connectVars, answer, event>>

Answers == {"none", "accepted", "conflict", "failed"}

HealingTypeOK ==
    /\ TypeOK
    /\ actual \in Responses
    /\ events \in 0..MaxEvents
    /\ sent \subseteq Targets
    /\ answer \in Answers
    /\ event \in {"none", "DEBUG", "INFO", "WARN", "ERROR"}
    /\ failedSince \subseteq Targets

FailedIn(snapshot) == {t \in Targets : snapshot[t] = "FAILED"}

HealingInit ==
    /\ Init
    /\ actual \in {s \in Responses : FailedIn(s) = {}}
    /\ events = 0
    /\ sent = {}
    /\ answer = "none"
    /\ event = "none"
    /\ failedSince = {}
-----------------------------------------------------------------------------
(* Kafka Connect.                                                          *)
Becomes(snapshot) ==
    /\ actual' = snapshot
    /\ failedSince' = failedSince \cup FailedIn(snapshot)
    /\ event' = "none"
    /\ UNCHANGED <<vars, answer>>

ConnectChanges ==
    /\ events < MaxEvents
    /\ events' = events + 1
    /\ \E s \in Responses \ {actual} : Becomes(s)
    /\ UNCHANGED sent

PerformRestart(t) ==
    /\ t \in sent
    /\ sent' = sent \ {t}
    /\ Becomes(Restarted(actual, t))
    /\ UNCHANGED events

LoseRestart(t) ==
    /\ t \in sent
    /\ sent' = sent \ {t}
    /\ Becomes(actual)
    /\ UNCHANGED events

(* An answer may still come for a restart performed or lost long ago.      *)
AnswerRestart ==
    /\ pc = "posting"
    /\ answer = "none"
    /\ \/ answer' = "accepted" /\ sent' = sent
       \/ answer' \in {"conflict", "failed"} /\ sent' = sent \ {request}
    /\ event' = "none"
    /\ UNCHANGED <<vars, actual, events, failedSince>>
-----------------------------------------------------------------------------
(* The poller.                                                             *)
Quietly == event' = "none" /\ UNCHANGED <<connectVars, answer>>

CycleBegins ==
    /\ SelectTick
    /\ failedSince' = FailedIn(actual)
    /\ event' = "none"
    /\ UNCHANGED <<actual, events, sent, answer>>

StatusesArrive ==
    /\ StatusesReceived
    /\ connectorStatuses' = actual
    /\ Quietly

(* A failed fetch is an error, but not when it failed by the context.      *)
StatusesDoNotArrive ==
    /\ StatusesFailed
    /\ event' = IF canceled THEN "none" ELSE "ERROR"
    /\ UNCHANGED <<connectVars, answer>>

SendRestart ==
    /\ TakeAction
    /\ sent' = sent \cup {request'}
    /\ answer' = "none"
    /\ event' = "none"
    /\ UNCHANGED <<actual, events, failedSince>>

(* Mutant: a conflict is looked for first.                                 *)
LevelByStatus ==
    CASE answer = "accepted" -> "INFO"
      [] answer = "conflict" -> "WARN"
      [] canceled /\ answer # "conflict" /\ answer # "accepted" -> "DEBUG"
      [] OTHER -> "ERROR"

(* "none" is a client timeout, a broken connection or a canceled request.  *)
OutcomeLevel ==
    CASE answer = "accepted" -> "INFO"
      [] canceled /\ answer # "accepted" -> "DEBUG"
      [] ~canceled /\ answer = "conflict" -> "WARN"
      [] OTHER -> "ERROR"

RestartReturns ==
    /\ ActionReturned
    /\ event' = OutcomeLevel
    /\ answer' = "none"
    /\ UNCHANGED connectVars

PollStep ==
    \/ CycleBegins
    \/ StatusesArrive
    \/ StatusesDoNotArrive
    \/ SendRestart
    \/ RestartReturns
    \/ (SelectDone \/ SelectUpdate \/ UseStatuses \/ CycleDone \/ CycleCanceled)
          /\ Quietly

HealingNext ==
    \/ ConnectChanges
    \/ \E t \in Targets : PerformRestart(t) \/ LoseRestart(t)
    \/ AnswerRestart
    \/ PollStep
    \/ (UpdateConfiguration \/ Cancel \/ Tick \/ Stopped) /\ Quietly

HealingSpec == HealingInit /\ [][HealingNext]_healingVars

(* The poller's own fairness, and a Connect that is not out of reach for   *)
(* ever: asked again and again it answers, and performs each restart, some *)
(* time.                                                                   *)
FairHealingSpec ==
    /\ HealingSpec
    /\ WF_healingVars(PollStep)
    /\ WF_healingVars(Tick /\ Quietly)
    /\ SF_healingVars(SelectUpdate /\ Quietly)
    /\ SF_healingVars(StatusesArrive)
    /\ \A t \in Targets : SF_healingVars(PerformRestart(t))
-----------------------------------------------------------------------------
(* README.md:7: it "restarts failed connectors" and "failed tasks whose    *)
(* connector is running".  Snapshots come late and restarts are sent one   *)
(* after the other, but what is restarted had failed since the cycle's     *)
(* tick: no earlier snapshot or failure history is acted on.               *)
RestartsHaveACause ==
    /\ pc = "acting" => actions \subseteq failedSince
    /\ pc = "posting" => request \in failedSince

(* What it rests on: each step of the cycle carries the failures seen.     *)
CauseInv ==
    /\ pc = "fetching" => FailedIn(actual) \subseteq failedSince
    /\ pc = "fetched" => FailedIn(connectorStatuses) \subseteq failedSince
    /\ pc \in {"acting", "posting"} => actions \subseteq failedSince
    /\ RestartsHaveACause

(* README.md:51: "Normal shutdown cancellation does not generate polling   *)
(* failure logs", whatever was answered while the context was canceled.    *)
ShutdownIsQuiet == event \in {"WARN", "ERROR"} => ~canceled

(* What the program is for: when others stop breaking things, everything   *)
(* it is asked to restart runs in the end, though restarts and answers get *)
(* lost and backoff holds restarts back, unless polling is stopped.        *)
NeedsRestart(t) ==
    /\ actual[t] = "FAILED"
    /\ t.kind = "restart_task" =>
          /\ configuration.restartFailedTasks
          /\ actual[ConnectorTarget(t.connector)] = "RUNNING"

FailuresAreHealed ==
    <>[](\A t \in Targets : ~NeedsRestart(t)) \/ <>canceled
=============================================================================
