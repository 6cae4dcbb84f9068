------------------------------- MODULE Poller -------------------------------
(***************************************************************************)
(* One ConnectClusterPoller goroutine (internal/poll/poll.go) with what    *)
(* acts on it: the configuration manager that notifies it, the context     *)
(* that cancels it, the ticker, and a Kafka Connect cluster that answers   *)
(* its requests late, badly or not at all.                                 *)
(*                                                                         *)
(* The goroutine's mutable state is its own (poll.go:20-21), so its steps  *)
(* are cut only where another party can act: at the select, while a GET or *)
(* a POST is out, and between a response and its use.                      *)
(***************************************************************************)
EXTENDS Backoff, FiniteSets

CONSTANTS
    Connectors,      \* connector names
    TaskIDs,         \* task numbers
    Keys,            \* keys of the backoff map
    TaskKey,         \* the key TaskKeyFormat gives a connector and a task
    Configurations,  \* ApplicationConfigurations that pass validation
    Responses,       \* the complete snapshots Kafka Connect may answer with
    MaxPatches       \* bound: configuration updates in a behaviour

States == {"absent", "RUNNING", "FAILED", "OTHER"}

ConnectorTarget(c) ==
    [kind |-> "restart_connector", connector |-> c, task |-> 0]

TaskTarget(c, id) == [kind |-> "restart_task", connector |-> c, task |-> id]

(* actions.RemediationAction: what is observed, remembered and restarted.  *)
Targets == {ConnectorTarget(c) : c \in Connectors}
             \cup {TaskTarget(c, id) : c \in Connectors, id \in TaskIDs}

(* A decoded snapshot: tasks are listed under a connector.                 *)
Snapshots ==
    {s \in [Targets -> States] : \A t \in Targets :
        s[t] # "absent" => s[ConnectorTarget(t.connector)] # "absent"}

Configuration ==
    [interval : Nat \ {0}, requestTimeout : 1..AgeCap,
     restartFailedTasks : BOOLEAN,
     backoff : [enabled : BOOLEAN, baseDelay : 1..AgeCap,
                maxDelay : 1..AgeCap, exponential : BOOLEAN]]

ASSUME ConfigurationsAssumption ==
    /\ Configurations \subseteq Configuration
    /\ \A c \in Configurations : ValidBackoff(c.backoff)

(* The caps are large enough to be invisible: a saturated age is past      *)
(* every window, and a saturated attempt count has the longest delay.      *)
ASSUME CapsAreInvisible ==
    \A c \in Configurations :
        c.backoff.exponential =>
            determineNextActionTime(c.backoff, AttemptCap) = c.backoff.maxDelay

(* The format puts the number last and in digits, so it tells tasks apart. *)
ASSUME KeysAssumption ==
    /\ Connectors # {}
    /\ Connectors \subseteq Keys
    /\ TaskKey \in [Connectors \X TaskIDs -> Keys]
    /\ \A x, y \in Connectors \X TaskIDs : TaskKey[x] = TaskKey[y] => x = y

ASSUME ResponsesAssumption == Responses \subseteq Snapshots

ASSUME MaxPatchesAssumption == MaxPatches \in Nat

getKey(t) == IF t.kind = "restart_connector" THEN t.connector
             ELSE TaskKey[<<t.connector, t.task>>]

VARIABLES
    pc,                \* where the goroutine is
    canceled,          \* ctx is done
    configuration,     \* the configuration the manager holds
    patches,           \* how many updates it has made
    local,             \* the poller's copy of the configuration
    notified,          \* the update channel the poller holds is closed
    clientTimeout,     \* connectClient.HTTPClient.Timeout
    BackoffConfig,     \* backoffFilter.BackoffConfig
    BackoffStatuses,   \* backoffFilter.BackoffStatuses
    ticker,            \* its period, the time to its next tick, tick waiting
    failedTargets,     \* observed FAILED and not RUNNING or missing since
    recovered,         \* recovery events of the latest cycle
    connectorStatuses, \* the snapshot in hand
    actions,           \* restarts still to be requested in this cycle
    request,           \* the restart being requested
    elapsed            \* time since the request in flight was sent

managerVars == <<configuration, patches>>
settingsVars == <<local, clientTimeout, BackoffConfig>>
cycleVars == <<connectorStatuses, actions, request, elapsed>>
vars == <<pc, canceled, managerVars, settingsVars, notified, BackoffStatuses,
          ticker, failedTargets, recovered, cycleVars>>

NoSnapshot == [t \in Targets |-> "absent"]

TypeOK ==
    /\ pc \in {"select", "fetching", "fetched", "acting", "posting", "stopped"}
    /\ canceled \in BOOLEAN
    /\ configuration \in Configurations
    /\ patches \in 0..MaxPatches
    /\ local \in Configurations
    /\ notified \in BOOLEAN
    /\ clientTimeout \in 1..AgeCap
    /\ BackoffConfig \in {c.backoff : c \in Configurations}
    /\ BackoffStatuses \in [Keys -> Status]
    /\ ticker \in [interval : Nat \ {0}, left : Nat, pending : BOOLEAN]
    /\ failedTargets \subseteq Targets
    /\ recovered \subseteq Targets
    /\ connectorStatuses \in Snapshots
    /\ actions \subseteq Targets
    /\ request \in Targets
    /\ elapsed \in 0..AgeCap
-----------------------------------------------------------------------------
NewTicker(interval) ==
    [interval |-> interval, left |-> interval, pending |-> FALSE]

(* Lines 34-46 of Poll: nothing else acts on the poller until its select.  *)
Init ==
    /\ pc = "select"
    /\ canceled = FALSE
    /\ configuration \in Configurations
    /\ patches = 0
    /\ local = configuration
    /\ notified = FALSE
    /\ clientTimeout = configuration.requestTimeout
    /\ BackoffConfig = configuration.backoff
    /\ BackoffStatuses = [k \in Keys |-> NoStatus]
    /\ ticker = NewTicker(configuration.interval)
    /\ failedTargets = {}
    /\ recovered = {}
    /\ connectorStatuses = NoSnapshot
    /\ actions = {}
    /\ request = CHOOSE t \in Targets : TRUE
    /\ elapsed = 0

(* Mutant: only a change of polling behavior notifies the watchers.        *)
UpdateConfigurationQuietly ==
    /\ patches < MaxPatches
    /\ \E next \in Configurations \ {configuration} :
          /\ configuration' = next
          /\ notified' = (notified \/ next.interval # configuration.interval)
    /\ patches' = patches + 1
    /\ UNCHANGED <<pc, canceled, settingsVars, BackoffStatuses, ticker,
                   failedTargets, recovered, cycleVars>>

(* The environment: a PATCH that changes the configuration, cancellation.  *)
UpdateConfiguration ==
    /\ patches < MaxPatches
    /\ \E next \in Configurations \ {configuration} :
          configuration' = next
    /\ patches' = patches + 1
    /\ notified' = TRUE
    /\ UNCHANGED <<pc, canceled, settingsVars, BackoffStatuses, ticker,
                   failedTargets, recovered, cycleVars>>

Cancel ==
    /\ ~canceled
    /\ canceled' = TRUE
    /\ UNCHANGED <<pc, managerVars, settingsVars, notified, BackoffStatuses,
                   ticker, failedTargets, recovered, cycleVars>>

(* Mutant: the ticker fires once and is not armed again.                   *)
TickerFiresOnce == [ticker EXCEPT !.left = @ - 1, !.pending = @ \/ ticker.left = 1]

(* A ticker delivers at most one tick that nobody has taken yet.           *)
TickerAfterOneTick ==
    IF ticker.left > 1 THEN [ticker EXCEPT !.left = @ - 1]
    ELSE [ticker EXCEPT !.left = ticker.interval, !.pending = TRUE]

(* Do returns when the client's Timeout expires, at the latest.            *)
Tick ==
    /\ pc # "stopped"
    /\ pc \in {"fetching", "posting"} => elapsed < clientTimeout
    /\ ticker' = TickerAfterOneTick
    /\ BackoffStatuses' = [k \in Keys |-> Aged(BackoffStatuses[k])]
    /\ elapsed' = IF pc \in {"fetching", "posting"}
                  THEN Capped(elapsed + 1, AgeCap) ELSE elapsed
    /\ UNCHANGED <<pc, canceled, managerVars, settingsVars, notified,
                   failedTargets, recovered, connectorStatuses, actions, request>>
-----------------------------------------------------------------------------
SelectDone ==
    /\ pc = "select"
    /\ canceled
    /\ pc' = "stopped"
    /\ UNCHANGED <<canceled, managerVars, settingsVars, notified,
                   BackoffStatuses, ticker, failedTargets, recovered, cycleVars>>

(* Each copy is refreshed if its own part of the configuration changed.    *)
TimeoutAfterUpdate ==
    IF configuration.requestTimeout # local.requestTimeout
    THEN configuration.requestTimeout ELSE clientTimeout

(* Mutant: the delays are taken over only when backoff is switched.        *)
BackoffConfigAfterSwitch ==
    IF configuration.backoff.enabled # local.backoff.enabled
    THEN configuration.backoff ELSE BackoffConfig

BackoffConfigAfterUpdate ==
    IF configuration.backoff # local.backoff
    THEN configuration.backoff ELSE BackoffConfig

TickerAfterUpdate ==
    IF configuration.interval # local.interval
    THEN NewTicker(configuration.interval) ELSE ticker

(* The snapshot also replaces the closed channel by the manager's open one.*)
SelectUpdate ==
    /\ pc = "select"
    /\ notified
    /\ notified' = FALSE
    /\ clientTimeout' = TimeoutAfterUpdate
    /\ BackoffConfig' = BackoffConfigAfterUpdate
    /\ ticker' = TickerAfterUpdate
    /\ local' = configuration
    /\ UNCHANGED <<pc, canceled, managerVars, BackoffStatuses, failedTargets,
                   recovered, cycleVars>>

(* Mutant: the GET is not bound to the context.                            *)
SelectTickUnbound ==
    /\ pc = "select"
    /\ ticker.pending
    /\ ticker' = [ticker EXCEPT !.pending = FALSE]
    /\ pc' = "fetching"
    /\ recovered' = {}
    /\ UNCHANGED <<canceled, managerVars, settingsVars, notified,
                   BackoffStatuses, failedTargets, cycleVars>>

(* A GET on a canceled context fails before it is sent, and Poll returns.  *)
SelectTick ==
    /\ pc = "select"
    /\ ticker.pending
    /\ ticker' = [ticker EXCEPT !.pending = FALSE]
    /\ pc' = IF canceled THEN "stopped" ELSE "fetching"
    /\ recovered' = {}
    /\ UNCHANGED <<canceled, managerVars, settingsVars, notified,
                   BackoffStatuses, failedTargets, cycleVars>>

(* A complete, well-formed body.  It may have been read just before the    *)
(* context was canceled: only the loop over the actions looks at it again. *)
StatusesReceived ==
    /\ pc = "fetching"
    /\ connectorStatuses' \in Responses
    /\ pc' = "fetched"
    /\ elapsed' = 0
    /\ UNCHANGED <<canceled, managerVars, settingsVars, notified, ticker,
                   BackoffStatuses, failedTargets, recovered, actions, request>>

(* No response, a timeout, an unexpected HTTP status, or a body one of     *)
(* whose entries mapConnectorStatusResponse rejects.                       *)
StatusesFailed ==
    /\ pc = "fetching"
    /\ pc' = IF canceled THEN "stopped" ELSE "select"
    /\ elapsed' = 0
    /\ UNCHANGED <<canceled, managerVars, settingsVars, notified, ticker,
                   BackoffStatuses, failedTargets, recovered,
                   connectorStatuses, actions, request>>
-----------------------------------------------------------------------------
Observed(state) == {t \in Targets : connectorStatuses[t] = state}

Listed == Targets \ Observed("absent")

(* Mutant: a failure is forgotten as soon as the state is not FAILED.      *)
FailuresNow == Observed("FAILED")

(* logRecoveries                                                           *)
FailuresAfter == {t \in Listed \ Observed("RUNNING") :
                    t \in failedTargets \/ t \in Observed("FAILED")}

(* pruneBackoffsForMissingStatuses                                         *)
Pruned(statuses) ==
    [k \in Keys |-> IF \E t \in Listed : getKey(t) = k
                    THEN statuses[k] ELSE NoStatus]

(* Mutant: a RUNNING connector clears the entries of its tasks too.        *)
ResetWithConnector(statuses) ==
    [k \in Keys |-> IF \E t \in Targets :
                         /\ getKey(t) = k
                         /\ ConnectorTarget(t.connector) \in Observed("RUNNING")
                    THEN NoStatus ELSE statuses[k]]

(* resetBackoffsForHealthyStatuses                                         *)
ResetHealthy(statuses) ==
    [k \in Keys |-> IF \E t \in Observed("RUNNING") : getKey(t) = k
                    THEN NoStatus ELSE statuses[k]]

(* Mutant: tasks are restarted whatever the state of their connector.      *)
GenerateActionsForAllTasks ==
    {t \in Observed("FAILED") :
        t.kind = "restart_task" => local.restartFailedTasks}

(* Mutant: what failed once is restarted until it is seen RUNNING.         *)
GenerateActionsFromHistory ==
    {t \in FailuresAfter :
        t.kind = "restart_task" =>
          /\ local.restartFailedTasks
          /\ ConnectorTarget(t.connector) \in Observed("RUNNING")}

(* DetermineActionsForConnector for every connector of the snapshot        *)
GenerateActionsFromStatuses ==
    {t \in Observed("FAILED") :
        t.kind = "restart_task" =>
          /\ local.restartFailedTasks
          /\ ConnectorTarget(t.connector) \in Observed("RUNNING")}

(* Mutant: any recorded attempt holds the target back.                     *)
FilterByAttempts(statuses, candidates) ==
    {t \in candidates : statuses[getKey(t)] = NoStatus}

FilterByBackoffs(statuses, candidates) ==
    {t \in candidates : ~IsInBackoffWindow(statuses[getKey(t)], BackoffConfig)}

UseStatuses ==
    /\ pc = "fetched"
    /\ failedTargets' = FailuresAfter
    /\ recovered' = failedTargets \cap Observed("RUNNING")
    /\ BackoffStatuses' = ResetHealthy(Pruned(BackoffStatuses))
    /\ actions' = IF BackoffConfig.enabled
                  THEN FilterByBackoffs(BackoffStatuses',
                                        GenerateActionsFromStatuses)
                  ELSE GenerateActionsFromStatuses
    /\ connectorStatuses' = NoSnapshot
    /\ pc' = "acting"
    /\ UNCHANGED <<canceled, managerVars, settingsVars, notified, ticker,
                   request, elapsed>>

(* The loop over the actions.  Go visits the connectors in any order.      *)
CycleDone ==
    /\ pc = "acting"
    /\ actions = {}
    /\ pc' = "select"
    /\ UNCHANGED <<canceled, managerVars, settingsVars, notified, ticker,
                   BackoffStatuses, failedTargets, recovered, cycleVars>>

CycleCanceled ==
    /\ pc = "acting"
    /\ actions # {}
    /\ canceled
    /\ pc' = "stopped"
    /\ UNCHANGED <<canceled, managerVars, settingsVars, notified, ticker,
                   BackoffStatuses, failedTargets, recovered, cycleVars>>

(* NewRequest cannot fail on a validated endpoint and an escaped path, so  *)
(* every action that passes the context check is attempted.                *)
TakeAction ==
    /\ pc = "acting"
    /\ ~canceled
    /\ \E t \in actions :
          /\ request' = t
          /\ actions' = actions \ {t}
    /\ elapsed' = 0
    /\ pc' = "posting"
    /\ UNCHANGED <<canceled, managerVars, settingsVars, notified, ticker,
                   BackoffStatuses, failedTargets, recovered, connectorStatuses>>

(* Accepted, rejected, timed out or canceled: the attempt is counted.      *)
ActionReturned ==
    /\ pc = "posting"
    /\ BackoffStatuses' = [BackoffStatuses EXCEPT ![getKey(request)] =
                             UpdateBackoffStatus(@, elapsed)]
    /\ elapsed' = 0
    /\ pc' = "acting"
    /\ UNCHANGED <<canceled, managerVars, settingsVars, notified, ticker,
                   failedTargets, recovered, connectorStatuses, actions, request>>
-----------------------------------------------------------------------------
Poll == \/ SelectDone \/ SelectUpdate \/ SelectTick
        \/ StatusesReceived \/ StatusesFailed \/ UseStatuses
        \/ CycleDone \/ CycleCanceled \/ TakeAction \/ ActionReturned

Stopped == pc = "stopped" /\ UNCHANGED vars

Next == UpdateConfiguration \/ Cancel \/ Tick \/ Poll \/ Stopped

Spec == Init /\ [][Next]_vars

(* The goroutine runs, time passes, and Go's select, which picks one of    *)
(* the ready cases at random, does not neglect the update case for ever.   *)
FairSpec == Spec /\ WF_vars(Poll) /\ WF_vars(Tick) /\ SF_vars(SelectUpdate)
-----------------------------------------------------------------------------
(* Poll copies three settings out of its configuration (client timeout,    *)
(* filter configuration, ticker period) and refreshes each one only when   *)
(* its own part changed (poll.go:55-64): no sequence of updates leaves one *)
(* of them behind the configuration the poller says it has.                *)
SettingsInSync ==
    /\ clientTimeout = local.requestTimeout
    /\ BackoffConfig = local.backoff
    /\ ticker.interval = local.interval

(* A poller whose channel is open has the manager's configuration: the     *)
(* snapshot takes configuration and channel together (poll.go:34 and 54),  *)
(* so that an update between two selects is never missed.                  *)
CurrentOrNotified == notified \/ local = configuration

(* Two structures remember failures, pruned by different functions: the    *)
(* recovery history and the backoff map.  Whatever was restarted and has   *)
(* not been seen healthy or gone is still in the recovery history, or its  *)
(* recovery would go unreported (poll.go:84-86).                           *)
RemediatedAreTracked ==
    \A t \in Targets :
        BackoffStatuses[getKey(t)].attempts > 0 => t \in failedTargets

(* README.md:64: when a restarted target is RUNNING again, the step that   *)
(* clears its backoff reports it recovered, once: it leaves the history.   *)
RecoveryReported ==
    [][\A t \in Targets :
         /\ BackoffStatuses[getKey(t)].attempts > 0
         /\ BackoffStatuses'[getKey(t)].attempts = 0
         /\ connectorStatuses[t] = "RUNNING"
         => t \in recovered' /\ t \notin failedTargets']_vars

(* README.md:236: "Backoff is tracked separately for each cluster,         *)
(* connector restart, and task restart."  The history of a target changes  *)
(* when that target is restarted, or seen RUNNING or missing.              *)
BackoffTrackedSeparately ==
    [][\A t \in Targets :
         BackoffStatuses'[getKey(t)].attempts # BackoffStatuses[getKey(t)].attempts
         => \/ pc = "posting" /\ request = t
            \/ pc = "fetched" /\ connectorStatuses[t] \in {"RUNNING", "absent"}]_vars

(* A cycle is over before the next select: what is left of its actions is  *)
(* never carried over, and the action being requested is not requested     *)
(* again.  With the settings in sync, this is what the refinement of the   *)
(* restart policy rests on.                                                *)
CycleInv ==
    /\ SettingsInSync
    /\ pc \in {"select", "fetching", "fetched"} => actions = {}
    /\ pc = "posting" => request \notin actions

(* What README.md:236-238 promises, by refinement.  An attempt is counted  *)
(* there when it is sent; the poller counts it when its result is in.      *)
PolicyHistory(t) ==
    IF pc = "posting" /\ request = t
    THEN UpdateBackoffStatus(BackoffStatuses[getKey(t)], elapsed)
    ELSE BackoffStatuses[getKey(t)]

SettingsInUse == [backoff |-> BackoffConfig,
                  restartFailedTasks |-> local.restartFailedTasks]

SettingsOffered == {[backoff |-> c.backoff,
                     restartFailedTasks |-> c.restartFailedTasks] :
                       c \in Configurations}

Histories == [t \in Targets |-> PolicyHistory(t)]

SnapshotInHand == IF pc = "fetched" THEN {connectorStatuses} ELSE {}

Policy == INSTANCE RestartPolicy WITH
    Settings <- SettingsOffered, settings <- SettingsInUse,
    history <- Histories, seen <- SnapshotInHand, due <- actions

ImplementsRestartPolicy == Policy!Spec

(* Every accepted update reaches the poller, unless it is stopped first.   *)
UpdatesAreAdopted == <>[](pc = "stopped" \/ local = configuration)

(* README.md:50: canceling the context ends the poller, whatever it is     *)
(* doing: PutCluster, DeleteCluster and Close wait for it.                 *)
CancelStops == canceled ~> pc = "stopped"

(* Backoff delays restarts and never ends them: a target that every        *)
(* snapshot shows to be in need of a restart is restarted again and again, *)
(* as long as snapshots keep coming (README.md:236).                       *)
FailingTargetsAreRestarted ==
    \A t \in Targets :
        /\ []<>(pc = "fetched")
        /\ <>[](pc = "fetched" => t \in GenerateActionsFromStatuses)
        => []<>(pc = "posting" /\ request = t) \/ <>canceled
=============================================================================
