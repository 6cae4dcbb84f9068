----------------------------- MODULE PollerProofs -----------------------------
(***************************************************************************)
(* Theorems about Poller, for any connectors, tasks, keys, configurations  *)
(* and answers, any number of updates and any bounds.                      *)
(***************************************************************************)
EXTENDS Poller, BackoffProofs

LEMMA ConfigurationFacts ==
    \A c \in Configurations : /\ c.interval \in Nat \ {0}
                              /\ c.requestTimeout \in 1..AgeCap
  BY ConfigurationsAssumption DEF Configuration

LEMMA KeyOfTarget == \A t \in Targets : getKey(t) \in Keys
  BY KeysAssumption DEF Targets, getKey, ConnectorTarget, TaskTarget

(* What the operators of Backoff make of an entry is an entry.             *)
LEMMA StatusesStayStatuses ==
    /\ NoStatus \in Status
    /\ \A s \in Status : Aged(s) \in Status
    /\ \A s \in Status, e \in 0..AgeCap : UpdateBackoffStatus(s, e) \in Status
  BY CapAssumption DEF Status, NoStatus, Aged, UpdateBackoffStatus, Capped

LEMMA InitTypeOK == Init => TypeOK
  <1> SUFFICES ASSUME Init PROVE TypeOK
    OBVIOUS
  <1>1. request \in Targets
    <2>1. \E t \in Targets : TRUE
      BY KeysAssumption DEF Targets
    <2> QED
      BY <2>1 DEF Init
  <1>2. NoSnapshot \in Snapshots
    BY DEF NoSnapshot, Snapshots, States
  <1>3. BackoffStatuses \in [Keys -> Status]
    BY StatusesStayStatuses DEF Init
  <1>4. ticker \in [interval : Nat \ {0}, left : Nat, pending : BOOLEAN]
    BY ConfigurationFacts DEF Init, NewTicker
  <1>5. elapsed \in 0..AgeCap /\ patches \in 0..MaxPatches
    BY CapAssumption, MaxPatchesAssumption DEF Init
  <1> QED
    BY <1>1, <1>2, <1>3, <1>4, <1>5, ConfigurationFacts DEF Init, TypeOK

(* Every step preserves the types of the variables.                        *)
LEMMA NextTypeOK == TypeOK /\ [Next]_vars => TypeOK'
  <1> SUFFICES ASSUME TypeOK, [Next]_vars PROVE TypeOK'
    OBVIOUS
  <1> USE ConfigurationFacts, StatusesStayStatuses
      DEF TypeOK, managerVars, settingsVars, cycleVars
  <1>1. CASE UpdateConfiguration
    BY <1>1, MaxPatchesAssumption DEF UpdateConfiguration
  <1>2. CASE Cancel
    BY <1>2 DEF Cancel
  <1>3. CASE Tick
    <2>1. ticker' \in [interval : Nat \ {0}, left : Nat, pending : BOOLEAN]
      <3>1. /\ ticker.interval \in Nat \ {0} /\ ticker.left \in Nat
            /\ ticker.pending \in BOOLEAN
        OBVIOUS
      <3>2. ticker.left > 1 => ticker.left - 1 \in Nat
        BY <3>1
      <3>3. CASE ticker.left > 1
        BY <1>3, <3>2, <3>3 DEF Tick, TickerAfterOneTick
      <3>4. CASE ~(ticker.left > 1)
        BY <1>3, <3>1, <3>4 DEF Tick, TickerAfterOneTick
      <3> QED
        BY <3>3, <3>4
    <2>2. elapsed' \in 0..AgeCap
      BY <1>3, CapAssumption DEF Tick, Capped
    <2>3. BackoffStatuses' \in [Keys -> Status]
      BY <1>3 DEF Tick
    <2> QED
      BY <1>3, <2>1, <2>2, <2>3 DEF Tick
  <1>4. CASE SelectDone
    BY <1>4 DEF SelectDone
  <1>5. CASE SelectUpdate
    <2>1. ticker' \in [interval : Nat \ {0}, left : Nat, pending : BOOLEAN]
      BY <1>5 DEF SelectUpdate, NewTicker, TimeoutAfterUpdate,
         BackoffConfigAfterUpdate, TickerAfterUpdate
    <2> QED
      BY <1>5, <2>1 DEF SelectUpdate, TimeoutAfterUpdate, BackoffConfigAfterUpdate
  <1>6. CASE SelectTick
    BY <1>6 DEF SelectTick
  <1>7. CASE StatusesReceived
    BY <1>7, ResponsesAssumption, CapAssumption DEF StatusesReceived
  <1>8. CASE StatusesFailed
    BY <1>8, CapAssumption DEF StatusesFailed
  <1>9. CASE UseStatuses
    <2>1. Pruned(BackoffStatuses) \in [Keys -> Status]
      BY DEF Pruned
    <2>2. BackoffStatuses' \in [Keys -> Status]
      BY <1>9, <2>1 DEF UseStatuses, ResetHealthy
    <2>3. actions' \subseteq Targets
      BY <1>9 DEF UseStatuses, FilterByBackoffs, GenerateActionsFromStatuses, Observed
    <2>4. connectorStatuses' \in Snapshots
      BY <1>9 DEF UseStatuses, NoSnapshot, Snapshots, States
    <2>5. failedTargets' \subseteq Targets /\ recovered' \subseteq Targets
      BY <1>9 DEF UseStatuses, FailuresAfter, Listed
    <2> QED
      BY <1>9, <2>2, <2>3, <2>4, <2>5 DEF UseStatuses
  <1>10. CASE CycleDone
    BY <1>10 DEF CycleDone
  <1>11. CASE CycleCanceled
    BY <1>11 DEF CycleCanceled
  <1>12. CASE TakeAction
    BY <1>12, CapAssumption DEF TakeAction
  <1>13. CASE ActionReturned
    <2>1. BackoffStatuses' \in [Keys -> Status]
      BY <1>13, KeyOfTarget DEF ActionReturned
    <2> QED
      BY <1>13, <2>1, CapAssumption DEF ActionReturned
  <1>14. CASE UNCHANGED vars
    BY <1>14 DEF vars
  <1> QED
    BY <1>1, <1>2, <1>3, <1>4, <1>5, <1>6, <1>7, <1>8, <1>9, <1>10, <1>11, <1>12,
       <1>13, <1>14 DEF Next, Poll, Stopped

(* The state of Poll is well typed in every reachable state.               *)
THEOREM TypeCorrect == Spec => []TypeOK
  BY InitTypeOK, NextTypeOK, PTL DEF Spec
-----------------------------------------------------------------------------
(* poll.go:52-70: updating only what changed keeps every copy in step.     *)
THEOREM SettingsStayInSync == Spec => []SettingsInSync
  <1>1. Init => SettingsInSync
    BY DEF Init, SettingsInSync, NewTicker
  <1>2. TypeOK /\ SettingsInSync /\ [Next]_vars => SettingsInSync'
    <2> SUFFICES ASSUME TypeOK, SettingsInSync, [Next]_vars PROVE SettingsInSync'
      OBVIOUS
    <2> USE DEF SettingsInSync, settingsVars
    <2>1. CASE SelectUpdate
      BY <2>1 DEF SelectUpdate, NewTicker, TimeoutAfterUpdate,
         BackoffConfigAfterUpdate, TickerAfterUpdate
    <2>2. CASE Tick
      BY <2>2 DEF Tick, TickerAfterOneTick, TypeOK
    <2>3. CASE SelectTick
      BY <2>3 DEF SelectTick, TypeOK
    <2> QED
      BY <2>1, <2>2, <2>3
      DEF Next, Poll, Stopped, UpdateConfiguration, Cancel, SelectDone,
          StatusesReceived, StatusesFailed, UseStatuses, CycleDone, CycleCanceled,
          TakeAction, ActionReturned, vars
  <1> QED
    BY <1>1, <1>2, TypeCorrect, PTL DEF Spec

(* poll.go:34 and 54: configuration and channel are taken together.        *)
THEOREM NoUpdateIsMissed == Spec => []CurrentOrNotified
  <1>1. Init => CurrentOrNotified
    BY DEF Init, CurrentOrNotified
  <1>2. CurrentOrNotified /\ [Next]_vars => CurrentOrNotified'
    BY DEF CurrentOrNotified, Next, Poll, Stopped, UpdateConfiguration, Cancel, Tick,
           SelectDone, SelectUpdate, SelectTick, StatusesReceived, StatusesFailed,
           UseStatuses, CycleDone, CycleCanceled, TakeAction, ActionReturned, vars,
           managerVars, settingsVars, cycleVars
  <1> QED
    BY <1>1, <1>2, PTL DEF Spec
-----------------------------------------------------------------------------
(* What the code needs and does not check: no connector has the name that  *)
(* is the key of a task.  MCPollerCollision.cfg shows what happens if one  *)
(* does.                                                                   *)
KeysAreSeparate == \A x \in Connectors \X TaskIDs : TaskKey[x] \notin Connectors

LEMMA DistinctKeys ==
    ASSUME KeysAreSeparate
    PROVE  \A t, u \in Targets : getKey(t) = getKey(u) => t = u
  <1> SUFFICES ASSUME NEW t \in Targets, NEW u \in Targets, getKey(t) = getKey(u)
               PROVE  t = u
    OBVIOUS
  <1>1. CASE t.kind = "restart_connector" /\ u.kind = "restart_connector"
    BY <1>1 DEF Targets, getKey, ConnectorTarget, TaskTarget
  <1>2. CASE t.kind = "restart_task" /\ u.kind = "restart_task"
    <2>1. PICK c \in Connectors, i \in TaskIDs : t = TaskTarget(c, i)
      BY <1>2 DEF Targets, ConnectorTarget
    <2>2. PICK d \in Connectors, j \in TaskIDs : u = TaskTarget(d, j)
      BY <1>2 DEF Targets, ConnectorTarget
    <2>3. TaskKey[<<c, i>>] = TaskKey[<<d, j>>]
      BY <2>1, <2>2 DEF getKey, TaskTarget
    <2>4. <<c, i>> = <<d, j>>
      BY <2>3, KeysAssumption
    <2> QED
      BY <2>1, <2>2, <2>4
  <1>3. CASE t.kind # u.kind
    BY <1>3 DEF KeysAreSeparate, Targets, getKey, ConnectorTarget, TaskTarget
  <1> QED
    BY <1>1, <1>2, <1>3 DEF Targets, ConnectorTarget, TaskTarget

(* Whatever is or will be restarted is in the recovery history.            *)
HistoryInv ==
    /\ RemediatedAreTracked
    /\ actions \subseteq failedTargets
    /\ pc = "posting" => request \in failedTargets

LEMMA InitHistory == Init => HistoryInv
  BY KeyOfTarget DEF Init, HistoryInv, RemediatedAreTracked, NoStatus

(* A target's entry, after the snapshot in hand has been used.             *)
LEMMA EntryAfterSnapshot ==
    ASSUME KeysAreSeparate, TypeOK, UseStatuses, NEW t \in Targets
    PROVE  BackoffStatuses'[getKey(t)] =
             IF t \in Observed("absent") \cup Observed("RUNNING") THEN NoStatus
             ELSE BackoffStatuses[getKey(t)]
  <1>1. getKey(t) \in Keys
    BY KeyOfTarget
  <1>2. Pruned(BackoffStatuses)[getKey(t)] =
          IF t \in Observed("absent") THEN NoStatus ELSE BackoffStatuses[getKey(t)]
    BY <1>1, DistinctKeys DEF Pruned, Listed
  <1>3. ResetHealthy(Pruned(BackoffStatuses))[getKey(t)] =
          IF t \in Observed("RUNNING") THEN NoStatus
          ELSE Pruned(BackoffStatuses)[getKey(t)]
    <2>1. Observed("RUNNING") \subseteq Targets
      BY DEF Observed
    <2> QED
      BY <1>1, <2>1, DistinctKeys DEF ResetHealthy
  <1> QED
    BY <1>2, <1>3 DEF UseStatuses

(* A target's entry, after a restart request has returned.                 *)
LEMMA EntryAfterAction ==
    ASSUME KeysAreSeparate, TypeOK, ActionReturned, NEW t \in Targets
    PROVE  /\ t # request => BackoffStatuses'[getKey(t)] = BackoffStatuses[getKey(t)]
           /\ BackoffStatuses'[getKey(request)].attempts > 0
  <1>1. request \in Targets /\ getKey(request) \in Keys /\ getKey(t) \in Keys
    BY KeyOfTarget DEF TypeOK
  <1>2. BackoffStatuses'[getKey(request)] =
          UpdateBackoffStatus(BackoffStatuses[getKey(request)], elapsed)
    BY <1>1 DEF ActionReturned, TypeOK
  <1>3. BackoffStatuses[getKey(request)].attempts \in Nat
    BY <1>1 DEF TypeOK, Status
  <1>4. BackoffStatuses'[getKey(request)].attempts > 0
    BY <1>2, <1>3, CapAssumption DEF UpdateBackoffStatus, Capped
  <1>5. t # request => getKey(t) # getKey(request)
    BY <1>1, DistinctKeys
  <1> QED
    BY <1>1, <1>4, <1>5 DEF ActionReturned, TypeOK

(* No other step counts or forgets an attempt.                             *)
LEMMA AttemptsOtherwiseKept ==
    ASSUME TypeOK, [Next]_vars, ~UseStatuses, ~ActionReturned, NEW t \in Targets
    PROVE  BackoffStatuses'[getKey(t)].attempts = BackoffStatuses[getKey(t)].attempts
  <1>1. CASE Tick
    <2>1. BackoffStatuses'[getKey(t)] = Aged(BackoffStatuses[getKey(t)])
      BY <1>1, KeyOfTarget DEF Tick
    <2>2. BackoffStatuses[getKey(t)] \in Status
      BY KeyOfTarget DEF TypeOK
    <2> QED
      BY <2>1, <2>2 DEF Aged, Status
  <1>2. CASE ~Tick
    BY <1>2 DEF Next, Poll, Stopped, UpdateConfiguration, Cancel, SelectDone,
       SelectUpdate, SelectTick, StatusesReceived, StatusesFailed, CycleDone,
       CycleCanceled, TakeAction, vars
  <1> QED
    BY <1>1, <1>2

LEMMA NextHistory ==
    ASSUME KeysAreSeparate, TypeOK, HistoryInv, [Next]_vars PROVE HistoryInv'
  <1>1. CASE UseStatuses
    <2>1. RemediatedAreTracked'
      <3> SUFFICES ASSUME NEW t \in Targets, BackoffStatuses'[getKey(t)].attempts > 0
                   PROVE  t \in failedTargets'
        BY DEF RemediatedAreTracked
      <3>1. t \notin Observed("absent") \cup Observed("RUNNING")
        BY <1>1, EntryAfterSnapshot DEF NoStatus
      <3>2. t \in failedTargets
        BY <1>1, <3>1, EntryAfterSnapshot DEF HistoryInv, RemediatedAreTracked
      <3> QED
        BY <1>1, <3>1, <3>2 DEF UseStatuses, FailuresAfter, Listed
    <2>2. actions' \subseteq failedTargets'
      BY <1>1 DEF UseStatuses, FilterByBackoffs, GenerateActionsFromStatuses,
                  FailuresAfter, Listed, Observed
    <2> QED
      BY <1>1, <2>1, <2>2 DEF HistoryInv, UseStatuses
  <1>2. CASE ActionReturned
    <2>1. RemediatedAreTracked'
      BY <1>2, EntryAfterAction DEF HistoryInv, RemediatedAreTracked, ActionReturned
    <2> QED
      BY <1>2, <2>1 DEF HistoryInv, ActionReturned
  <1>3. CASE ~UseStatuses /\ ~ActionReturned
    <2>1. failedTargets' = failedTargets
      BY <1>3 DEF Next, Poll, Stopped, UpdateConfiguration, Cancel, Tick, SelectDone,
         SelectUpdate, SelectTick, StatusesReceived, StatusesFailed, CycleDone,
         CycleCanceled, TakeAction, vars
    <2>2. RemediatedAreTracked'
      BY <1>3, <2>1, AttemptsOtherwiseKept DEF HistoryInv, RemediatedAreTracked
    <2>3. /\ actions' \subseteq failedTargets
          /\ pc' = "posting" => request' \in failedTargets
      BY <1>3 DEF HistoryInv, Next, Poll, Stopped, UpdateConfiguration, Cancel, Tick,
         SelectDone, SelectUpdate, SelectTick, StatusesReceived, StatusesFailed,
         CycleDone, CycleCanceled, TakeAction, vars, cycleVars
    <2> QED
      BY <2>1, <2>2, <2>3 DEF HistoryInv
  <1> QED
    BY <1>1, <1>2, <1>3

THEOREM HistoryIsKept ==
    ASSUME KeysAreSeparate PROVE Spec => [](TypeOK /\ HistoryInv)
  <1>1. Init => TypeOK /\ HistoryInv
    BY InitTypeOK, InitHistory
  <1>2. TypeOK /\ HistoryInv /\ [Next]_vars => (TypeOK /\ HistoryInv)'
    BY NextTypeOK, NextHistory
  <1> QED
    BY <1>1, <1>2, PTL DEF Spec

(* poll.go:84-86: a restarted target stays in the recovery history until a *)
(* snapshot shows it RUNNING or no longer lists it.                        *)
THEOREM RemediationIsRemembered ==
    ASSUME KeysAreSeparate PROVE Spec => []RemediatedAreTracked
  <1>1. TypeOK /\ HistoryInv => RemediatedAreTracked
    BY DEF HistoryInv
  <1> QED
    BY <1>1, HistoryIsKept, PTL

(* README.md:236: one target's history is changed by that target only.     *)
THEOREM BackoffIsSeparate ==
    ASSUME KeysAreSeparate PROVE Spec => BackoffTrackedSeparately
  <1>1. TypeOK /\ [Next]_vars =>
          [\A t \in Targets :
             BackoffStatuses'[getKey(t)].attempts # BackoffStatuses[getKey(t)].attempts
             => \/ pc = "posting" /\ request = t
                \/ pc = "fetched" /\ connectorStatuses[t] \in {"RUNNING", "absent"}]_vars
    <2> SUFFICES ASSUME TypeOK, [Next]_vars, NEW t \in Targets,
                        BackoffStatuses'[getKey(t)].attempts
                          # BackoffStatuses[getKey(t)].attempts
                 PROVE  \/ pc = "posting" /\ request = t
                        \/ /\ pc = "fetched"
                           /\ connectorStatuses[t] \in {"RUNNING", "absent"}
      OBVIOUS
    <2>1. CASE UseStatuses
      <3>1. t \in Observed("absent") \cup Observed("RUNNING")
        BY <2>1, EntryAfterSnapshot
      <3> QED
        BY <2>1, <3>1 DEF UseStatuses, Observed
    <2>2. CASE ActionReturned
      BY <2>2, EntryAfterAction DEF ActionReturned
    <2> QED
      BY <2>1, <2>2, AttemptsOtherwiseKept
  <1> QED
    BY <1>1, TypeCorrect, PTL DEF Spec, BackoffTrackedSeparately

(* README.md:64: the step that clears a healthy target reports recovery.   *)
THEOREM RecoveryIsReported ==
    ASSUME KeysAreSeparate PROVE Spec => RecoveryReported
  <1>1. TypeOK /\ HistoryInv /\ [Next]_vars =>
          [\A t \in Targets :
             /\ BackoffStatuses[getKey(t)].attempts > 0
             /\ BackoffStatuses'[getKey(t)].attempts = 0
             /\ connectorStatuses[t] = "RUNNING"
             => t \in recovered' /\ t \notin failedTargets']_vars
    <2> SUFFICES ASSUME TypeOK, HistoryInv, [Next]_vars, NEW t \in Targets,
                        BackoffStatuses[getKey(t)].attempts > 0,
                        BackoffStatuses'[getKey(t)].attempts = 0,
                        connectorStatuses[t] = "RUNNING"
                 PROVE  t \in recovered' /\ t \notin failedTargets'
      OBVIOUS
    <2>1. t \in failedTargets /\ t \in Observed("RUNNING")
      BY DEF HistoryInv, RemediatedAreTracked, Observed
    <2>2. BackoffStatuses'[getKey(t)].attempts # BackoffStatuses[getKey(t)].attempts
      OBVIOUS
    <2>3. CASE UseStatuses
      BY <2>1, <2>3 DEF UseStatuses, FailuresAfter, Listed
    <2>4. ~ActionReturned
      BY EntryAfterAction DEF ActionReturned, TypeOK
    <2> QED
      BY <2>2, <2>3, <2>4, AttemptsOtherwiseKept
  <1> QED
    BY <1>1, HistoryIsKept, PTL DEF Spec, RecoveryReported
-----------------------------------------------------------------------------
(* Poller implements RestartPolicy.  First, that a cycle ends before the   *)
(* next one begins.                                                        *)
LEMMA InitCycle == Init => CycleInv
  BY DEF Init, CycleInv, SettingsInSync, NewTicker

LEMMA NextCycle == TypeOK /\ CycleInv /\ [Next]_vars => CycleInv'
  <1> SUFFICES ASSUME TypeOK, CycleInv, [Next]_vars PROVE CycleInv'
    OBVIOUS
  <1>1. SettingsInSync'
    <2>1. CASE SelectUpdate
      BY <2>1 DEF SelectUpdate, NewTicker, TimeoutAfterUpdate, CycleInv,
         BackoffConfigAfterUpdate, TickerAfterUpdate, SettingsInSync
    <2>2. CASE Tick
      BY <2>2 DEF Tick, TickerAfterOneTick, TypeOK, CycleInv, SettingsInSync, settingsVars
    <2>3. CASE SelectTick
      BY <2>3 DEF SelectTick, TypeOK, CycleInv, SettingsInSync, settingsVars
    <2> QED
      BY <2>1, <2>2, <2>3
      DEF CycleInv, SettingsInSync, settingsVars, Next, Poll, Stopped,
          UpdateConfiguration, Cancel, SelectDone, StatusesReceived, StatusesFailed,
          UseStatuses, CycleDone, CycleCanceled, TakeAction, ActionReturned, vars
  <1>2. /\ pc' \in {"select", "fetching", "fetched"} => actions' = {}
        /\ pc' = "posting" => request' \notin actions'
    BY DEF CycleInv, Next, Poll, Stopped, UpdateConfiguration, Cancel, Tick,
           SelectDone, SelectUpdate, SelectTick, StatusesReceived, StatusesFailed,
           UseStatuses, CycleDone, CycleCanceled, TakeAction, ActionReturned, vars,
           cycleVars
  <1> QED
    BY <1>1, <1>2 DEF CycleInv

(* The copies of the settings are those of one valid configuration.        *)
LEMMA SettingsAreOffered ==
    ASSUME TypeOK, CycleInv
    PROVE  /\ SettingsInUse \in SettingsOffered
           /\ ValidBackoff(BackoffConfig)
           /\ BackoffConfig \in [enabled : BOOLEAN, baseDelay : 1..AgeCap,
                                 maxDelay : 1..AgeCap, exponential : BOOLEAN]
           /\ local.restartFailedTasks \in BOOLEAN
  <1>1. local \in Configurations /\ BackoffConfig = local.backoff
    BY DEF TypeOK, CycleInv, SettingsInSync
  <1> QED
    BY <1>1, ConfigurationsAssumption
    DEF SettingsInUse, SettingsOffered, Configuration

(* A window is the same one in both, because the loop of Backoff computes  *)
(* the delay of the policy.                                                *)
LEMMA WindowsAgree ==
    ASSUME TypeOK, CycleInv, NEW entry \in Status
    PROVE  Policy!Waiting(entry) <=>
             BackoffConfig.enabled /\ IsInBackoffWindow(entry, BackoffConfig)
  <1>1. /\ ValidBackoff(BackoffConfig)
        /\ BackoffConfig.enabled \in BOOLEAN
        /\ BackoffConfig.exponential \in BOOLEAN
        /\ BackoffConfig.baseDelay \in Nat /\ BackoffConfig.maxDelay \in Nat
    BY SettingsAreOffered, CapAssumption
  <1>2. entry.attempts > 0 =>
          determineNextActionTime(BackoffConfig, entry.attempts) =
            Policy!Delay(BackoffConfig, entry.attempts)
    <2> SUFFICES ASSUME entry.attempts > 0
                 PROVE  determineNextActionTime(BackoffConfig, entry.attempts) =
                          Policy!Delay(BackoffConfig, entry.attempts)
      OBVIOUS
    <2>1. entry.attempts \in 1..AttemptCap
      BY CapAssumption DEF Status
    <2>2. determineNextActionTime(BackoffConfig, entry.attempts) =
            IF BackoffConfig.exponential
            THEN AtMost(BackoffConfig.baseDelay * PowerOfTwo[entry.attempts - 1],
                        BackoffConfig.maxDelay)
            ELSE BackoffConfig.baseDelay
      BY <1>1, <2>1, DelayIsDocumented
    <2>3. Policy!PowerOfTwo = PowerOfTwo
      BY Zenon DEF Policy!PowerOfTwo, PowerOfTwo
    <2> QED
      BY <2>2, <2>3 DEF Policy!Delay, Policy!SmallerOf, AtMost
  <1> QED
    BY <1>2 DEF Policy!Waiting, IsInBackoffWindow, SettingsInUse

(* The code asks whether the connector of a failed task is RUNNING; the    *)
(* policy asks for every target that is its connector, and there is one.   *)
LEMMA FailuresAgree ==
    ASSUME TypeOK
    PROVE  GenerateActionsFromStatuses = Policy!Failing(connectorStatuses)
  <1>1. ASSUME NEW t \in Targets
        PROVE  /\ ConnectorTarget(t.connector) \in Targets
               /\ ConnectorTarget(t.connector).kind = "restart_connector"
               /\ ConnectorTarget(t.connector).connector = t.connector
               /\ \A c \in Targets :
                    c.kind = "restart_connector" /\ c.connector = t.connector
                      => c = ConnectorTarget(t.connector)
    BY DEF Targets, ConnectorTarget, TaskTarget
  <1>2. ASSUME NEW t \in Targets
        PROVE  ConnectorTarget(t.connector) \in Observed("RUNNING") <=>
                 \A c \in Targets :
                   c.kind = "restart_connector" /\ c.connector = t.connector
                     => connectorStatuses[c] = "RUNNING"
    BY <1>1 DEF Observed
  <1> QED
    BY <1>2 DEF GenerateActionsFromStatuses, Policy!Failing, Observed, SettingsInUse
-----------------------------------------------------------------------------
LEMMA EntriesAreStatuses ==
    ASSUME TypeOK, NEW t \in Targets
    PROVE  /\ BackoffStatuses[getKey(t)] \in Status
           /\ Histories[t] = PolicyHistory(t)
           /\ pc # "posting" => Histories[t] = BackoffStatuses[getKey(t)]
  BY KeyOfTarget DEF TypeOK, Histories, PolicyHistory

LEMMA InitImplementsPolicy == Init => Policy!Init
  <1> SUFFICES ASSUME Init PROVE Policy!Init
    OBVIOUS
  <1>1. SettingsInUse \in SettingsOffered
    BY InitTypeOK, InitCycle, SettingsAreOffered
  <1>2. Histories = [t \in Targets |-> Policy!Never]
    <2>1. \A t \in Targets : PolicyHistory(t) = Policy!Never
      BY KeyOfTarget DEF Init, PolicyHistory, Policy!Never, NoStatus
    <2> QED
      BY <2>1 DEF Histories
  <1>3. SnapshotInHand = {} /\ actions = {}
    BY DEF Init, SnapshotInHand
  <1> QED
    BY <1>1, <1>2, <1>3 DEF Policy!Init

(* The policy does not see a step that leaves its four variables alone.    *)
LEMMA StepsUnseen ==
    ASSUME TypeOK, CycleInv,
           \/ UpdateConfiguration \/ Cancel \/ SelectDone \/ SelectTick
           \/ StatusesFailed \/ CycleDone \/ CycleCanceled \/ UNCHANGED vars
    PROVE  UNCHANGED Policy!vars
  <1>1. /\ UNCHANGED <<BackoffConfig, local, BackoffStatuses, actions, request>>
        /\ \/ pc # "posting" /\ pc' # "posting"
           \/ pc' = pc /\ elapsed' = elapsed
    BY DEF UpdateConfiguration, Cancel, SelectDone, SelectTick, StatusesFailed,
           CycleDone, CycleCanceled, vars, settingsVars, cycleVars
  <1>2. UNCHANGED SnapshotInHand
    BY DEF SnapshotInHand, UpdateConfiguration, Cancel, SelectDone, SelectTick,
           StatusesFailed, CycleDone, CycleCanceled, vars, cycleVars
  <1>3. UNCHANGED SettingsInUse
    BY <1>1 DEF SettingsInUse
  <1>4. UNCHANGED Histories
    BY <1>1 DEF Histories, PolicyHistory
  <1> QED
    BY <1>1, <1>2, <1>3, <1>4 DEF Policy!vars

(* All copies are taken from one configuration at a select, when nothing   *)
(* is in hand.                                                             *)
LEMMA SelectUpdateIsAdopt ==
    ASSUME TypeOK, CycleInv, TypeOK', CycleInv', SelectUpdate PROVE Policy!Adopt
  <1>1. SettingsInUse' \in SettingsOffered
    <2>1. local' \in Configurations /\ BackoffConfig' = local'.backoff
      BY DEF TypeOK, CycleInv, SettingsInSync
    <2> QED
      BY <2>1 DEF SettingsInUse, SettingsOffered
  <1>2. actions = {} /\ SnapshotInHand = {} /\ UNCHANGED <<actions, SnapshotInHand>>
    BY DEF CycleInv, SelectUpdate, SnapshotInHand, cycleVars
  <1>3. UNCHANGED Histories
    BY DEF Histories, PolicyHistory, SelectUpdate, cycleVars
  <1> QED
    BY <1>1, <1>2, <1>3 DEF Policy!Adopt

LEMMA StatusesReceivedIsObserve ==
    ASSUME TypeOK, CycleInv, StatusesReceived PROVE Policy!Observe
  <1>1. /\ SnapshotInHand = {} /\ SnapshotInHand' = {connectorStatuses'}
        /\ actions = {} /\ UNCHANGED <<actions, SettingsInUse>>
        /\ connectorStatuses' \in Snapshots
    BY ResponsesAssumption
    DEF StatusesReceived, CycleInv, SnapshotInHand, SettingsInUse, settingsVars
  <1>2. UNCHANGED Histories
    BY DEF Histories, PolicyHistory, StatusesReceived
  <1> QED
    BY <1>1, <1>2 DEF Policy!Observe

LEMMA UseStatusesIsDecide ==
    ASSUME KeysAreSeparate, TypeOK, CycleInv, UseStatuses PROVE Policy!Decide
  <1>1. /\ SnapshotInHand = {connectorStatuses} /\ SnapshotInHand' = {}
        /\ UNCHANGED SettingsInUse /\ pc = "fetched" /\ pc' = "acting"
    BY DEF UseStatuses, SnapshotInHand, SettingsInUse, settingsVars
  <1>2. Histories' = [t \in Targets |-> IF t \in Policy!Forgiven(connectorStatuses)
                                        THEN Policy!Never ELSE Histories[t]]
    <2> SUFFICES ASSUME NEW t \in Targets
                 PROVE  PolicyHistory(t)' =
                          IF t \in Policy!Forgiven(connectorStatuses)
                          THEN Policy!Never ELSE Histories[t]
      BY DEF Histories
    <2>1. PolicyHistory(t)' = BackoffStatuses'[getKey(t)]
      BY <1>1 DEF PolicyHistory, getKey
    <2>2. Histories[t] = BackoffStatuses[getKey(t)]
      BY <1>1, EntriesAreStatuses
    <2>3. t \in Observed("absent") \cup Observed("RUNNING")
            <=> t \in Policy!Forgiven(connectorStatuses)
      BY DEF Observed, Policy!Forgiven
    <2> QED
      BY <2>1, <2>2, <2>3, EntryAfterSnapshot DEF NoStatus, Policy!Never
  <1>3. actions' = {t \in Policy!Failing(connectorStatuses) :
                      ~Policy!Waiting(Histories[t])}
    <2> DEFINE candidates == GenerateActionsFromStatuses
    <2>1. ASSUME NEW t \in candidates
          PROVE  /\ BackoffStatuses'[getKey(t)] = Histories[t]
                 /\ Histories[t] \in Status
      <3>1. t \in Targets /\ connectorStatuses[t] = "FAILED"
        BY DEF GenerateActionsFromStatuses, Observed
      <3>2. t \notin Observed("absent") \cup Observed("RUNNING")
        BY <3>1 DEF Observed
      <3>3. Histories[t] = BackoffStatuses[getKey(t)] /\ Histories[t] \in Status
        BY <1>1, <3>1, EntriesAreStatuses
      <3> QED
        BY <3>1, <3>2, <3>3, EntryAfterSnapshot
    <2>2. \A t \in candidates :
            Policy!Waiting(Histories[t]) <=>
              /\ BackoffConfig.enabled
              /\ IsInBackoffWindow(BackoffStatuses'[getKey(t)], BackoffConfig)
      BY <2>1, WindowsAgree
    <2>3. actions' = {t \in candidates :
                        ~(/\ BackoffConfig.enabled
                          /\ IsInBackoffWindow(BackoffStatuses'[getKey(t)],
                                               BackoffConfig))}
      BY DEF UseStatuses, FilterByBackoffs
    <2>4. candidates = Policy!Failing(connectorStatuses)
      BY FailuresAgree
    <2> HIDE DEF candidates
    <2> QED
      BY <2>2, <2>3, <2>4
  <1> QED
    BY <1>1, <1>2, <1>3 DEF Policy!Decide

(* The policy counts the attempt when the request is sent, the code when   *)
(* it has returned: PolicyHistory adds what the code has still to record.  *)
LEMMA TakeActionIsAttempt ==
    ASSUME TypeOK, CycleInv, TakeAction PROVE Policy!Attempt
  <1>1. PICK t \in actions : request' = t /\ actions' = actions \ {t}
    BY DEF TakeAction
  <1>2. t \in Targets
    BY DEF TypeOK
  <1>3. /\ UNCHANGED <<SettingsInUse, SnapshotInHand, BackoffStatuses>>
        /\ pc = "acting" /\ pc' = "posting" /\ elapsed' = 0
    BY DEF TakeAction, SettingsInUse, SnapshotInHand, settingsVars
  <1>4. \A u \in Targets : Histories[u] = BackoffStatuses[getKey(u)]
    BY <1>3, EntriesAreStatuses
  <1>5. Histories' = [Histories EXCEPT ![t] =
                        [attempts |-> Policy!SmallerOf(@.attempts + 1, AttemptCap),
                         age |-> 0]]
    <2>1. ASSUME NEW u \in Targets
          PROVE  PolicyHistory(u)' =
                   IF u = t
                   THEN [attempts |-> Policy!SmallerOf(Histories[t].attempts + 1,
                                                       AttemptCap),
                         age |-> 0]
                   ELSE Histories[u]
      <3>1. CASE u = t
        <4>1. PolicyHistory(u)' = UpdateBackoffStatus(BackoffStatuses[getKey(t)], 0)
          BY <1>1, <1>3, <3>1 DEF PolicyHistory, getKey
        <4>2. BackoffStatuses[getKey(t)].attempts \in 0..AttemptCap
          BY <1>2, EntriesAreStatuses DEF Status
        <4> QED
          BY <1>2, <1>4, <3>1, <4>1, <4>2, CapAssumption
          DEF UpdateBackoffStatus, Capped, Policy!SmallerOf
      <3>2. CASE u # t
        BY <1>1, <1>3, <1>4, <3>2 DEF PolicyHistory, getKey
      <3> QED
        BY <3>1, <3>2
    <2> QED
      BY <1>2, <2>1 DEF Histories
  <1> QED
    BY <1>1, <1>3, <1>5 DEF Policy!Attempt

LEMMA ActionReturnedIsUnseen ==
    ASSUME KeysAreSeparate, TypeOK, CycleInv, ActionReturned
    PROVE  UNCHANGED Policy!vars
  <1>1. UNCHANGED <<SettingsInUse, SnapshotInHand, actions>>
    BY DEF ActionReturned, SettingsInUse, SnapshotInHand, settingsVars
  <1>2. UNCHANGED Histories
    <2> SUFFICES ASSUME NEW t \in Targets PROVE PolicyHistory(t)' = PolicyHistory(t)
      BY DEF Histories
    <2>1. PolicyHistory(t)' = BackoffStatuses'[getKey(t)]
      BY DEF ActionReturned, PolicyHistory, getKey
    <2>2. CASE t = request
      <3>1. getKey(t) \in Keys
        BY KeyOfTarget
      <3>2. BackoffStatuses'[getKey(t)] =
              UpdateBackoffStatus(BackoffStatuses[getKey(t)], elapsed)
        BY <2>2, <3>1 DEF ActionReturned, TypeOK
      <3> QED
        BY <2>1, <2>2, <3>2 DEF ActionReturned, PolicyHistory
    <2>3. CASE t # request
      BY <2>1, <2>3, EntryAfterAction DEF PolicyHistory
    <2> QED
      BY <2>2, <2>3
  <1> QED
    BY <1>1, <1>2 DEF Policy!vars

(* An attempt whose request is still out ages like a recorded one.         *)
LEMMA TickIsTimePasses ==
    ASSUME TypeOK, CycleInv, Tick PROVE Policy!TimePasses
  <1>1. UNCHANGED <<SettingsInUse, SnapshotInHand, actions, pc, request>>
    BY DEF Tick, SettingsInUse, SnapshotInHand, settingsVars
  <1>2. ASSUME NEW t \in Targets
        PROVE  PolicyHistory(t)' =
                 IF Histories[t].attempts = 0 THEN Histories[t]
                 ELSE [Histories[t] EXCEPT !.age = Policy!SmallerOf(@ + 1, AgeCap)]
    <2>1. BackoffStatuses'[getKey(t)] = Aged(BackoffStatuses[getKey(t)])
      BY KeyOfTarget DEF Tick
    <2>2. /\ BackoffStatuses[getKey(t)].attempts \in 0..AttemptCap
          /\ BackoffStatuses[getKey(t)].age \in 0..AgeCap
          /\ elapsed \in 0..AgeCap
          /\ Histories[t] = PolicyHistory(t)
      BY EntriesAreStatuses DEF Status, TypeOK
    <2> DEFINE grown(n) == Policy!SmallerOf(n + 1, AgeCap)
    <2>3. \A n \in Nat : grown(n) = Capped(n + 1, AgeCap)
      BY CapAssumption DEF Capped, Policy!SmallerOf
    <2> HIDE DEF grown
    <2> SUFFICES PolicyHistory(t)' =
                     IF Histories[t].attempts = 0 THEN Histories[t]
                     ELSE [Histories[t] EXCEPT !.age = grown(Histories[t].age)]
      BY DEF grown
    <2>4. CASE pc = "posting" /\ request = t
      <3>1. elapsed' = Capped(elapsed + 1, AgeCap)
        BY <2>4 DEF Tick
      <3>2. BackoffStatuses'[getKey(t)].attempts = BackoffStatuses[getKey(t)].attempts
        BY <2>1 DEF Aged
      <3>3. PolicyHistory(t) =
              [attempts |-> Capped(BackoffStatuses[getKey(t)].attempts + 1, AttemptCap),
               age |-> elapsed]
        BY <2>4 DEF PolicyHistory, UpdateBackoffStatus
      <3>4. PolicyHistory(t)' =
              [attempts |-> Capped(BackoffStatuses[getKey(t)].attempts + 1, AttemptCap),
               age |-> Capped(elapsed + 1, AgeCap)]
        BY <1>1, <2>4, <3>1, <3>2 DEF PolicyHistory, UpdateBackoffStatus, getKey
      <3>5. PolicyHistory(t).attempts # 0
        BY <2>2, <3>3, CapAssumption DEF Capped
      <3>6. grown(elapsed) = Capped(elapsed + 1, AgeCap)
        BY <2>2, <2>3, CapAssumption
      <3> QED
        BY <2>2, <3>3, <3>4, <3>5, <3>6
    <2>5. CASE ~(pc = "posting" /\ request = t)
      <3>1. PolicyHistory(t) = BackoffStatuses[getKey(t)]
        BY <2>5 DEF PolicyHistory
      <3>2. PolicyHistory(t)' = BackoffStatuses'[getKey(t)]
        BY <1>1, <2>5 DEF PolicyHistory, getKey
      <3>3. grown(BackoffStatuses[getKey(t)].age) =
              Capped(BackoffStatuses[getKey(t)].age + 1, AgeCap)
        BY <2>2, <2>3, CapAssumption
      <3> QED
        BY <2>1, <2>2, <3>1, <3>2, <3>3 DEF Aged
    <2> QED
      BY <2>4, <2>5
  <1>3. Histories' = [t \in Targets |->
                        IF Histories[t].attempts = 0 THEN Histories[t]
                        ELSE [Histories[t] EXCEPT
                                !.age = Policy!SmallerOf(@ + 1, AgeCap)]]
    BY <1>2 DEF Histories
  <1> QED
    BY <1>1, <1>3 DEF Policy!TimePasses

LEMMA NextImplementsPolicy ==
    ASSUME KeysAreSeparate, TypeOK, CycleInv, TypeOK', CycleInv', [Next]_vars
    PROVE  [Policy!Next]_(Policy!vars)
  <1>1. \/ \/ UpdateConfiguration \/ Cancel \/ SelectDone \/ SelectTick
           \/ StatusesFailed \/ CycleDone \/ CycleCanceled \/ UNCHANGED vars
        \/ SelectUpdate \/ StatusesReceived \/ UseStatuses \/ TakeAction
        \/ ActionReturned \/ Tick
    BY DEF Next, Poll, Stopped
  <1> QED
    BY <1>1, StepsUnseen, SelectUpdateIsAdopt, StatusesReceivedIsObserve,
       UseStatusesIsDecide, TakeActionIsAttempt, ActionReturnedIsUnseen,
       TickIsTimePasses DEF Policy!Next

(* README.md:236-238: the goroutine, with its ticks, its requests that     *)
(* return late or never and its string keys, restarts what the policy says *)
(* and waits as long as the policy says, if no connector has a task's key. *)
THEOREM PollerFollowsPolicy ==
    ASSUME KeysAreSeparate PROVE Spec => ImplementsRestartPolicy
  <1>1. Spec => [](TypeOK /\ CycleInv)
    <2>1. Init => TypeOK /\ CycleInv
      BY InitTypeOK, InitCycle
    <2>2. (TypeOK /\ CycleInv) /\ [Next]_vars => (TypeOK /\ CycleInv)'
      BY NextTypeOK, NextCycle
    <2> QED
      BY <2>1, <2>2, PTL DEF Spec
  <1>2. (TypeOK /\ CycleInv) /\ (TypeOK /\ CycleInv)' /\ [Next]_vars
          => [Policy!Next]_(Policy!vars)
    BY NextImplementsPolicy
  <1> QED
    BY <1>1, <1>2, InitImplementsPolicy, PTL DEF Spec, Policy!Spec, ImplementsRestartPolicy
=============================================================================
