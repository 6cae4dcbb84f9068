---------------------------- MODULE HealingProofs ----------------------------
(***************************************************************************)
(* Theorems about a poller and its Kafka Connect cluster, for any targets, *)
(* configurations and snapshots.  The composition makes steps of Poller    *)
(* only, so what PollerProofs proves holds here.                           *)
(***************************************************************************)
EXTENDS Healing, PollerProofs

LEMMA PollerBox == [HealingNext]_healingVars => [Next]_vars
  <1> SUFFICES ASSUME [HealingNext]_healingVars PROVE [Next]_vars
    OBVIOUS
  <1>1. CASE ConnectChanges \/ AnswerRestart
    BY <1>1 DEF ConnectChanges, AnswerRestart, Becomes
  <1>2. ASSUME NEW t \in Targets, PerformRestart(t) \/ LoseRestart(t)
        PROVE  UNCHANGED vars
    BY <1>2 DEF PerformRestart, LoseRestart, Becomes
  <1>3. CASE PollStep
    BY <1>3 DEF PollStep, CycleBegins, StatusesArrive, StatusesDoNotArrive,
                SendRestart, RestartReturns, Next, Poll
  <1>4. CASE UpdateConfiguration \/ Cancel \/ Tick \/ Stopped
    BY <1>4 DEF Next
  <1>5. CASE UNCHANGED healingVars
    BY <1>5 DEF healingVars
  <1> QED
    BY <1>1, <1>2, <1>3, <1>4, <1>5 DEF HealingNext

(* poll.go:48-131: whatever the cluster does, and however late, a poller   *)
(* beside it behaves as Poller says.                                       *)
THEOREM HealingIsPolling == HealingSpec => Spec
  <1>1. HealingInit => Init
    BY DEF HealingInit
  <1> QED
    BY <1>1, PollerBox, PTL DEF HealingSpec, Spec

(* README.md:236-238: beside a Kafka Connect that breaks, recovers and     *)
(* answers as it likes, a poller restarts by the policy of the README.     *)
THEOREM HealingFollowsPolicy ==
    ASSUME KeysAreSeparate PROVE HealingSpec => ImplementsRestartPolicy
  BY HealingIsPolling, PollerFollowsPolicy, PTL

LEMMA InitHealingTypeOK == HealingInit => HealingTypeOK
  BY InitTypeOK, MaxEventsAssumption DEF HealingInit, HealingTypeOK, Answers

LEMMA NextHealingTypeOK ==
    HealingTypeOK /\ [HealingNext]_healingVars => HealingTypeOK'
  <1> SUFFICES ASSUME HealingTypeOK, [HealingNext]_healingVars PROVE HealingTypeOK'
    OBVIOUS
  <1>0. TypeOK'
    BY PollerBox, NextTypeOK DEF HealingTypeOK
  <1> USE <1>0, MaxEventsAssumption DEF HealingTypeOK, Answers
  <1>1. CASE ConnectChanges
    BY <1>1 DEF ConnectChanges, Becomes, FailedIn
  <1>2. ASSUME NEW t \in Targets, PerformRestart(t) \/ LoseRestart(t)
        PROVE  HealingTypeOK'
    BY <1>2, RestartsAssumption DEF PerformRestart, LoseRestart, Becomes, FailedIn
  <1>3. CASE AnswerRestart
    BY <1>3 DEF AnswerRestart
  <1>4. CASE PollStep
    <2>1. CASE CycleBegins
      BY <2>1 DEF CycleBegins, FailedIn
    <2>2. CASE StatusesArrive
      BY <2>2 DEF StatusesArrive, Quietly, connectVars
    <2>3. CASE StatusesDoNotArrive
      BY <2>3 DEF StatusesDoNotArrive, connectVars
    <2>4. CASE SendRestart
      BY <2>4 DEF SendRestart, TypeOK
    <2>5. CASE RestartReturns
      BY <2>5 DEF RestartReturns, OutcomeLevel, connectVars
    <2>6. CASE Quietly
      BY <2>6 DEF Quietly, connectVars
    <2> QED
      BY <1>4, <2>1, <2>2, <2>3, <2>4, <2>5, <2>6 DEF PollStep
  <1>5. CASE Quietly \/ UNCHANGED healingVars
    BY <1>5 DEF Quietly, connectVars, healingVars
  <1> QED
    BY <1>1, <1>2, <1>3, <1>4, <1>5 DEF HealingNext

(* Every reachable state of the composition is well typed.                 *)
THEOREM HealingTypeCorrect == HealingSpec => []HealingTypeOK
  BY InitHealingTypeOK, NextHealingTypeOK, PTL DEF HealingSpec
-----------------------------------------------------------------------------
LEMMA InitCauseInv == HealingInit => CauseInv
  BY DEF HealingInit, Init, CauseInv, RestartsHaveACause

LEMMA NextCauseInv ==
    HealingTypeOK /\ CauseInv /\ [HealingNext]_healingVars => CauseInv'
  <1> SUFFICES ASSUME HealingTypeOK, CauseInv, [HealingNext]_healingVars
               PROVE  CauseInv'
    OBVIOUS
  <1> USE DEF CauseInv, RestartsHaveACause
  <1>1. CASE ConnectChanges \/ \E t \in Targets : PerformRestart(t) \/ LoseRestart(t)
    <2>1. UNCHANGED vars /\ failedSince' = failedSince \cup FailedIn(actual')
      BY <1>1 DEF ConnectChanges, PerformRestart, LoseRestart, Becomes
    <2> QED
      BY <2>1 DEF vars, cycleVars, FailedIn
  <1>2. CASE AnswerRestart
    BY <1>2 DEF AnswerRestart, vars, cycleVars, FailedIn
  <1>3. CASE CycleBegins
    BY <1>3 DEF CycleBegins, SelectTick, FailedIn
  <1>4. CASE StatusesArrive
    BY <1>4 DEF StatusesArrive, StatusesReceived, Quietly, connectVars, FailedIn
  <1>5. CASE StatusesDoNotArrive
    BY <1>5 DEF StatusesDoNotArrive, StatusesFailed
  <1>6. CASE SendRestart
    BY <1>6 DEF SendRestart, TakeAction
  <1>7. CASE RestartReturns
    BY <1>7 DEF RestartReturns, ActionReturned, connectVars
  <1>8. CASE UseStatuses /\ Quietly
    BY <1>8 DEF UseStatuses, Quietly, connectVars, FilterByBackoffs,
                GenerateActionsFromStatuses, Observed, FailedIn
  <1>9. CASE (SelectDone \/ SelectUpdate \/ CycleDone \/ CycleCanceled) /\ Quietly
    BY <1>9 DEF SelectDone, SelectUpdate, CycleDone, CycleCanceled
  <1>10. CASE (UpdateConfiguration \/ Cancel \/ Tick) /\ Quietly
    BY <1>10 DEF UpdateConfiguration, Cancel, Tick, Quietly, connectVars, cycleVars,
                 FailedIn
  <1>11. CASE Stopped \/ UNCHANGED healingVars
    BY <1>11 DEF Stopped, healingVars, connectVars, vars, cycleVars, FailedIn
  <1> QED
    BY <1>1, <1>2, <1>3, <1>4, <1>5, <1>6, <1>7, <1>8, <1>9, <1>10, <1>11
    DEF HealingNext, PollStep

(* poll.go:72-98: a restart is requested only for what had failed since    *)
(* the cycle's tick, however late snapshots and answers come.              *)
THEOREM OnlyFailuresAreRestarted == HealingSpec => []RestartsHaveACause
  <1>1. CauseInv => RestartsHaveACause
    BY DEF CauseInv
  <1> QED
    BY <1>1, InitCauseInv, NextCauseInv, HealingTypeCorrect, PTL DEF HealingSpec

LEMMA NextShutdownIsQuiet ==
    HealingTypeOK /\ ShutdownIsQuiet /\ [HealingNext]_healingVars => ShutdownIsQuiet'
  <1> SUFFICES ASSUME HealingTypeOK, ShutdownIsQuiet, [HealingNext]_healingVars
               PROVE  ShutdownIsQuiet'
    OBVIOUS
  <1> USE DEF ShutdownIsQuiet
  <1>1. CASE StatusesDoNotArrive
    BY <1>1 DEF StatusesDoNotArrive, StatusesFailed
  <1>2. CASE RestartReturns
    BY <1>2 DEF RestartReturns, ActionReturned, OutcomeLevel, HealingTypeOK, TypeOK
  <1>3. CASE UNCHANGED healingVars
    BY <1>3 DEF healingVars, vars
  <1>4. event' = "none" \/ StatusesDoNotArrive \/ RestartReturns \/ UNCHANGED healingVars
    BY DEF HealingNext, ConnectChanges, PerformRestart, LoseRestart, Becomes,
           AnswerRestart, PollStep, CycleBegins, StatusesArrive, Quietly, SendRestart
  <1> QED
    BY <1>1, <1>2, <1>3, <1>4

(* poll.go:76-78 and 115-126: once its context is canceled a poller logs   *)
(* no failure, whatever comes back of its last request.                    *)
THEOREM CanceledPollersAreQuiet == HealingSpec => []ShutdownIsQuiet
  <1>1. HealingInit => ShutdownIsQuiet
    BY DEF HealingInit, ShutdownIsQuiet
  <1> QED
    BY <1>1, NextShutdownIsQuiet, HealingTypeCorrect, PTL DEF HealingSpec
=============================================================================
