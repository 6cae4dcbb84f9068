------------------------- MODULE ConfigManagerProofs -------------------------
(***************************************************************************)
(* Theorems about ConfigManager, for any patchers, watchers and patches.   *)
(***************************************************************************)
EXTENDS ConfigManager, TLAPS

LEMMA EditedIsAConfiguration ==
    ASSUME TypeOK, NEW p \in Patchers, Acceptable(configuration, Edited(p))
    PROVE  Edited(p) \in Configurations
  BY ConfigurationAssumption DEF Acceptable

(* Types and safety together: each step, by the step's own precondition.   *)
LEMMA InitSafety == Init => TypeOK /\ SafetyInv
  <1> SUFFICES ASSUME Init PROVE TypeOK /\ SafetyInv
    OBVIOUS
  <1>1. TypeOK
    BY ConfigurationAssumption DEF Init, TypeOK
  <1>2. \A p \in Processes : pc[p] \in {"start", "select"}
    BY DEF Init
  <1>5. \A p \in Patchers : pc[p] = "start"
    BY ProcessAssumption DEF Init, Processes, Readers
  <1>3. LockInv
    BY <1>2, <1>5, ProcessAssumption
    DEF Init, LockInv, PatcherHolds, WatcherHolds, Processes, Readers
  <1>4. ChannelInv
    <2>1. ~Renewing
      BY <1>2 DEF Renewing, Processes, Readers
    <2>2. 0..(channel - 1) = {}
      BY DEF Init
    <2> QED
      BY <2>1, <2>2 DEF Init, ChannelInv
  <1> QED
    BY <1>1, <1>3, <1>4 DEF SafetyInv, StoredIsValid, Init

LEMMA NextTypeOK == TypeOK /\ [Next]_vars => TypeOK'
  <1> SUFFICES ASSUME TypeOK, [Next]_vars PROVE TypeOK'
    OBVIOUS
  <1> USE DEF TypeOK, Go, Processes, Readers, PatcherHolds, WatcherHolds, lockVars,
          managerVars, patcherVars, watcherVars, UnlockAndReturn
  <1>1. ASSUME NEW p \in Patchers, Arrive(p) \/ Announce(p) \/ Lock(p) PROVE TypeOK'
    <2>1. CASE Arrive(p)
      BY <2>1 DEF Arrive
    <2>2. CASE Announce(p)
      BY <2>2 DEF Announce
    <2>3. CASE Lock(p)
      BY <2>3 DEF Lock
    <2> QED
      BY <1>1, <2>1, <2>2, <2>3
  <1>2. ASSUME NEW p \in Patchers, EditRejected(p) \/ EditChangesNothing(p)
        PROVE  TypeOK'
    <2>1. CASE EditRejected(p)
      BY <2>1 DEF EditRejected
    <2>2. CASE EditChangesNothing(p)
      BY <2>2 DEF EditChangesNothing
    <2> QED
      BY <1>2, <2>1, <2>2
  <1>3. ASSUME NEW p \in Patchers, EditAccepted(p) PROVE TypeOK'
    BY <1>3, EditedIsAConfiguration DEF EditAccepted
  <1>4. ASSUME NEW p \in Patchers, Assign(p) \/ Close(p) \/ Renew(p) PROVE TypeOK'
    <2>1. CASE Assign(p)
      BY <2>1 DEF Assign
    <2>2. CASE Close(p)
      BY <2>2 DEF Close
    <2>3. CASE Renew(p)
      BY <2>3 DEF Renew
    <2> QED
      BY <1>4, <2>1, <2>2, <2>3
  <1>5. ASSUME NEW w \in Watchers, Watch(w) \/ Leave(w) PROVE TypeOK'
    <2>1. CASE Wake(w) \/ Leave(w)
      BY <2>1 DEF Wake, Leave
    <2>2. CASE RLock(w, "waiting", "readConfiguration")
      BY <2>2 DEF RLock
    <2>3. CASE ReadConfiguration(w)
      BY <2>3 DEF ReadConfiguration
    <2>4. CASE ReadChannel(w)
      BY <2>4 DEF ReadChannel
    <2> QED
      BY <1>5, <2>1, <2>2, <2>3, <2>4 DEF Watch, ConfigurationSnapshot
  <1>6. ASSUME NEW g \in Getters, GetConfiguration(g) PROVE TypeOK'
    BY <1>6 DEF GetConfiguration, GetReturns, RLock
  <1>7. CASE UNCHANGED vars
    BY <1>7 DEF vars
  <1> QED
    BY <1>1, <1>2, <1>3, <1>4, <1>5, <1>6, <1>7 DEF Next, UpdateConfiguration, Quiet

LEMMA NextSafety == TypeOK /\ SafetyInv /\ [Next]_vars => SafetyInv'
  <1> SUFFICES ASSUME TypeOK, SafetyInv, [Next]_vars PROVE SafetyInv'
    OBVIOUS
  <1> USE ProcessAssumption
      DEF TypeOK, SafetyInv, StoredIsValid, LockInv, ChannelInv, Renewing, Go, Processes,
          Readers, PatcherHolds, WatcherHolds, lockVars, managerVars, patcherVars,
          watcherVars, UnlockAndReturn, Acceptable
  <1>1. ASSUME NEW p \in Patchers, Arrive(p) PROVE SafetyInv'
    BY <1>1 DEF Arrive
  <1>2. ASSUME NEW p \in Patchers, Announce(p) \/ Lock(p) PROVE SafetyInv'
    <2>1. CASE Announce(p)
      BY <2>1 DEF Announce
    <2>2. CASE Lock(p)
      BY <2>2 DEF Lock
    <2> QED
      BY <1>2, <2>1, <2>2
  <1>3. ASSUME NEW p \in Patchers, EditRejected(p) \/ EditChangesNothing(p)
        PROVE  SafetyInv'
    <2>1. CASE EditRejected(p)
      BY <2>1 DEF EditRejected
    <2>2. CASE EditChangesNothing(p)
      BY <2>2 DEF EditChangesNothing
    <2> QED
      BY <1>3, <2>1, <2>2
  <1>4. ASSUME NEW p \in Patchers, EditAccepted(p) PROVE SafetyInv'
    BY <1>4 DEF EditAccepted
  <1>5. ASSUME NEW p \in Patchers, Assign(p) PROVE SafetyInv'
    BY <1>5 DEF Assign
  <1>6. ASSUME NEW p \in Patchers, Close(p) PROVE SafetyInv'
    BY <1>6 DEF Close
  <1>7. ASSUME NEW p \in Patchers, Renew(p) PROVE SafetyInv'
    BY <1>7 DEF Renew
  <1>8. ASSUME NEW w \in Watchers, Wake(w) \/ Leave(w) PROVE SafetyInv'
    BY <1>8 DEF Wake, Leave
  <1>9. ASSUME NEW w \in Watchers, ConfigurationSnapshot(w) PROVE SafetyInv'
    <2>1. CASE RLock(w, "waiting", "readConfiguration")
      BY <2>1 DEF RLock
    <2>2. CASE ReadConfiguration(w)
      BY <2>2 DEF ReadConfiguration
    <2>3. CASE ReadChannel(w)
      BY <2>3 DEF ReadChannel
    <2> QED
      BY <1>9, <2>1, <2>2, <2>3 DEF ConfigurationSnapshot
  <1>10. ASSUME NEW g \in Getters, GetConfiguration(g) PROVE SafetyInv'
    BY <1>10 DEF GetConfiguration, GetReturns, RLock
  <1>11. CASE UNCHANGED vars
    BY <1>11 DEF vars
  <1> QED
    BY <1>1, <1>2, <1>3, <1>4, <1>5, <1>6, <1>7, <1>8, <1>9, <1>10, <1>11
    DEF Next, UpdateConfiguration, Watch, Quiet

THEOREM Safety == Spec => [](TypeOK /\ SafetyInv)
  <1>1. TypeOK /\ SafetyInv /\ [Next]_vars => (TypeOK /\ SafetyInv)'
    BY NextTypeOK, NextSafety
  <1> QED
    BY <1>1, InitSafety, PTL DEF Spec

(* manager.go:36-59: every reachable state is well typed; the stored        *)
(* configuration, valid or not, is one of the configurations.              *)
THEOREM TypeCorrect == Spec => []TypeOK
  BY Safety, PTL

(* manager.go:42-55: no interleaving of patches stores an invalid whole.   *)
THEOREM StoredStaysValid == Spec => []StoredIsValid
  <1>1. SafetyInv => StoredIsValid
    BY DEF SafetyInv
  <1> QED
    BY <1>1, Safety, PTL

(* manager.go:56: the update never panics by closing a channel twice.      *)
THEOREM NoChannelIsClosedTwice == Spec => []ChannelClosedOnce
  <1>1. TypeOK /\ SafetyInv => ChannelClosedOnce
    <2> SUFFICES ASSUME TypeOK, SafetyInv, NEW p \in Patchers, pc[p] = "close"
                 PROVE  channel \notin closedChannels
      BY DEF ChannelClosedOnce
    <2>1. ~Renewing
      BY ProcessAssumption DEF SafetyInv, LockInv, PatcherHolds, Renewing
    <2> QED
      BY <2>1 DEF SafetyInv, ChannelInv, TypeOK
  <1> QED
    BY <1>1, Safety, PTL

(* poll.go:54, main.go:97: who waits on an open channel is up to date.     *)
THEOREM WaitersAreCurrent == Spec => []WaitingMeansCurrent
  <1>1. SafetyInv => WaitingMeansCurrent
    BY DEF SafetyInv, ChannelInv, WaitingMeansCurrent
  <1> QED
    BY <1>1, Safety, PTL

(* manager.go:46: the API's credentials are those of startup.              *)
THEOREM CredentialsAreKept == Spec => APIConfigIsStartupOnly
  <1>1. TypeOK /\ SafetyInv /\ [Next]_vars =>
          [APIConfig[configuration'] = APIConfig[configuration]]_vars
    <2> SUFFICES ASSUME SafetyInv, [Next]_vars
                 PROVE  APIConfig[configuration'] = APIConfig[configuration]
      OBVIOUS
    <2>1. ASSUME NEW p \in Patchers, Assign(p)
          PROVE  APIConfig[configuration'] = APIConfig[configuration]
      BY <2>1 DEF Assign, Go, SafetyInv, LockInv, Acceptable
    <2>2. ASSUME ~\E p \in Patchers : Assign(p)
          PROVE  configuration' = configuration
      BY <2>2 DEF Next, Arrive, UpdateConfiguration, Announce, Lock, EditRejected,
         EditChangesNothing, EditAccepted, Close, Renew, Watch, Wake,
         ConfigurationSnapshot, RLock, ReadConfiguration, ReadChannel, Leave, Quiet,
         GetConfiguration, GetReturns, vars, managerVars
    <2> QED
      BY <2>1, <2>2
  <1> QED
    BY <1>1, Safety, PTL DEF Spec, APIConfigIsStartupOnly

(* The rest of what the refinement rests on: an edit stays the edit of what *)
(* is stored until it is stored, since its patcher writes alone.           *)
LEMMA NextPatch == TypeOK /\ SafetyInv /\ PatchInv /\ [Next]_vars => PatchInv'
  <1> SUFFICES ASSUME TypeOK, SafetyInv, PatchInv, [Next]_vars PROVE PatchInv'
    OBVIOUS
  <1> USE ProcessAssumption
      DEF TypeOK, SafetyInv, LockInv, PatchInv, Edited, Go, Processes, Readers,
          PatcherHolds, WatcherHolds, lockVars, managerVars, patcherVars, watcherVars,
          UnlockAndReturn
  <1>1. ASSUME NEW p \in Patchers, Arrive(p) PROVE PatchInv'
    BY <1>1 DEF Arrive
  <1>2. ASSUME NEW p \in Patchers, UpdateConfiguration(p) PROVE PatchInv'
    <2>1. CASE Lock(p)
      BY <2>1 DEF Lock
    <2>2. CASE EditRejected(p)
      BY <2>2 DEF EditRejected
    <2>3. CASE EditChangesNothing(p)
      BY <2>3 DEF EditChangesNothing
    <2>4. CASE EditAccepted(p)
      BY <2>4 DEF EditAccepted
    <2>5. CASE Assign(p)
      BY <2>5 DEF Assign
    <2>6. CASE Close(p)
      BY <2>6 DEF Close
    <2>7. CASE Renew(p)
      BY <2>7 DEF Renew
    <2>8. CASE Announce(p)
      BY <2>8 DEF Announce
    <2> QED
      BY <1>2, <2>1, <2>2, <2>3, <2>4, <2>5, <2>6, <2>7, <2>8 DEF UpdateConfiguration
  <1>3. ASSUME NEW w \in Watchers, Watch(w) \/ Leave(w) PROVE PatchInv'
    BY <1>3 DEF Watch, Leave, Wake, ConfigurationSnapshot, RLock, ReadConfiguration,
                ReadChannel
  <1>4. ASSUME NEW g \in Getters, GetConfiguration(g) PROVE PatchInv'
    BY <1>4 DEF GetConfiguration, GetReturns, RLock
  <1>5. CASE UNCHANGED vars
    BY <1>5 DEF vars
  <1> QED
    BY <1>1, <1>2, <1>3, <1>4, <1>5 DEF Next, Quiet

(* Between the steps of a writer there is no other: nobody is about to     *)
(* close a channel while another holds the lock, for writing or reading.   *)
LEMMA WriterIsAlone ==
    ASSUME SafetyInv
    PROVE  /\ \A p, q \in Patchers :
                 pc[p] \in PatcherHolds /\ pc[q] \in PatcherHolds => p = q
           /\ \A w \in Watchers, p \in Patchers :
                 pc[w] \in WatcherHolds => pc[p] \notin PatcherHolds
  BY ProcessAssumption DEF SafetyInv, LockInv, Processes, Readers, PatcherHolds

(* Which of the cell's actions a step is: Assign, or an edit that changes  *)
(* nothing, is Patch; ReadChannel is Refresh; the others leave the cell    *)
(* alone.                                                                  *)
LEMMA NextImplementsCell ==
    TypeOK /\ SafetyInv /\ PatchInv /\ [Next]_vars => [Cell!Next]_(Cell!vars)
  <1> SUFFICES ASSUME TypeOK, SafetyInv, PatchInv, [Next]_vars
               PROVE  Cell!Next \/ UNCHANGED Cell!vars
    OBVIOUS
  <1> USE ProcessAssumption
      DEF TypeOK, Go, Processes, Readers, PatcherHolds, WatcherHolds, lockVars,
          managerVars, patcherVars, watcherVars, UnlockAndReturn
  <1> DEFINE Closer == \E p \in Patchers : pc[p] = "close"
  <1>1. ASSUME NEW p \in Patchers, Arrive(p) PROVE UNCHANGED Cell!vars
    BY <1>1 DEF Arrive, Cell!vars, Answer, Notified
  <1>2. ASSUME NEW p \in Patchers, Announce(p) \/ Lock(p) PROVE UNCHANGED Cell!vars
    <2>1. CASE Announce(p)
      BY <2>1 DEF Announce, Cell!vars, Answer, Notified
    <2>2. CASE Lock(p)
      BY <2>2 DEF Lock, Cell!vars, Answer, Notified
    <2> QED
      BY <1>2, <2>1, <2>2
  <1>3. ASSUME NEW p \in Patchers, EditRejected(p) PROVE Cell!Refuse(p)
    <2>1. Answer[p] = "pending" /\ Answer' = [Answer EXCEPT ![p] = "rejected"]
      BY <1>3 DEF EditRejected, Answer, PatchInv
    <2>2. Notified' = Notified
      BY <1>3 DEF EditRejected, Notified
    <2> QED
      BY <1>3, <2>1, <2>2
      DEF EditRejected, Cell!Refuse, Cell!Allowed, Acceptable, Edited
  <1>4. ASSUME NEW p \in Patchers, EditChangesNothing(p) PROVE Cell!Patch(p)
    <2>1. Answer[p] = "pending" /\ Answer' = [Answer EXCEPT ![p] = "accepted"]
      BY <1>4 DEF EditChangesNothing, Answer, PatchInv
    <2>2. Notified' = Notified
      BY <1>4 DEF EditChangesNothing, Notified
    <2>3. Notified' = [w \in Watchers |-> Notified[w] \/ configuration' # configuration]
      BY <1>4, <2>2 DEF EditChangesNothing, Notified
    <2> QED
      BY <1>4, <2>1, <2>3
      DEF EditChangesNothing, Cell!Patch, Cell!Allowed, Acceptable, Edited
  <1>5. ASSUME NEW p \in Patchers, EditAccepted(p) PROVE UNCHANGED Cell!vars
    BY <1>5 DEF EditAccepted, Cell!vars, Answer, Notified
  <1>6. ASSUME NEW p \in Patchers, Assign(p) PROVE Cell!Patch(p)
    <2>1. Answer[p] = "pending" /\ Answer' = [Answer EXCEPT ![p] = "accepted"]
      BY <1>6 DEF Assign, Answer, PatchInv
    <2>2. ~Renewing
      BY <1>6, WriterIsAlone DEF Assign, Renewing
    <2>3. \A w \in Watchers : held[w] \in closedChannels \/ held[w] = channel
      BY <2>2 DEF SafetyInv, ChannelInv
    <2>4. Notified' = [w \in Watchers |-> TRUE]
      BY <1>6, <2>3 DEF Assign, Notified
    <2>5. configuration' = Edited(p) /\ configuration' # configuration
      BY <1>6 DEF Assign, PatchInv
    <2>6. Cell!Allowed(Edited(p))
      <3>1. Edited(p) = next[p] /\ Acceptable(configuration, next[p])
        BY <1>6 DEF Assign, PatchInv, SafetyInv, LockInv
      <3> QED
        BY <3>1 DEF Acceptable, Cell!Allowed
    <2> QED
      BY <1>6, <2>1, <2>4, <2>5, <2>6 DEF Assign, Cell!Patch, Edited
  <1>7. ASSUME NEW p \in Patchers, Close(p) PROVE UNCHANGED Cell!vars
    <2>1. Answer' = Answer
      BY <1>7 DEF Close, Answer
    <2>2. Closer /\ ~Closer'
      BY <1>7, WriterIsAlone DEF Close
    <2>3. Notified' = Notified
      BY <1>7, <2>2 DEF Close, Notified
    <2> QED
      BY <1>7, <2>1, <2>3 DEF Close, Cell!vars
  <1>8. ASSUME NEW p \in Patchers, Renew(p) PROVE UNCHANGED Cell!vars
    <2>1. Answer' = Answer
      BY <1>8 DEF Renew, Answer
    <2>2. ~Closer /\ ~Closer'
      BY <1>8, WriterIsAlone DEF Renew
    <2>3. Notified' = Notified
      BY <1>8, <2>2 DEF Renew, Notified
    <2> QED
      BY <1>8, <2>1, <2>3 DEF Renew, Cell!vars
  <1>9. ASSUME NEW w \in Watchers,
               \/ Wake(w) \/ Leave(w) \/ ReadConfiguration(w)
               \/ RLock(w, "waiting", "readConfiguration")
        PROVE  UNCHANGED Cell!vars
    <2>1. Answer' = Answer /\ Notified' = Notified
      BY <1>9 DEF Wake, Leave, RLock, ReadConfiguration, Answer, Notified
    <2> QED
      BY <1>9, <2>1 DEF Wake, Leave, RLock, ReadConfiguration, Cell!vars
  <1>10. ASSUME NEW w \in Watchers, ReadChannel(w) PROVE Cell!Refresh(w)
    <2>1. ~Renewing /\ ~Closer /\ ~Closer'
      BY <1>10, WriterIsAlone DEF ReadChannel, Renewing
    <2>2. channel \notin closedChannels
      BY <2>1 DEF SafetyInv, ChannelInv
    <2>3. Notified' = [Notified EXCEPT ![w] = FALSE]
      BY <1>10, <2>1, <2>2 DEF ReadChannel, Notified
    <2>4. Answer' = Answer
      BY <1>10 DEF ReadChannel, Answer
    <2>5. copy' = [copy EXCEPT ![w] = configuration]
      BY <1>10 DEF ReadChannel, SafetyInv, LockInv
    <2> QED
      BY <1>10, <2>3, <2>4, <2>5 DEF ReadChannel, Cell!Refresh
  <1>11. ASSUME NEW g \in Getters, GetConfiguration(g) PROVE UNCHANGED Cell!vars
    <2>1. Answer' = Answer /\ Notified' = Notified
      BY <1>11 DEF GetConfiguration, GetReturns, RLock, Answer, Notified
    <2> QED
      BY <1>11, <2>1 DEF GetConfiguration, GetReturns, RLock, Cell!vars
  <1>12. CASE UNCHANGED vars
    BY <1>12 DEF vars, Cell!vars, Answer, Notified
  <1> QED
    BY <1>1, <1>2, <1>3, <1>4, <1>5, <1>6, <1>7, <1>8, <1>9, <1>10, <1>11, <1>12
    DEF Next, UpdateConfiguration, Watch, ConfigurationSnapshot, Quiet, Cell!Next

(* manager.go:22-59: for every number of handlers and watchers, whatever   *)
(* the patches are, the manager is an atomic cell: a PATCH is checked       *)
(* against the very configuration it replaces, and a watcher with an old   *)
(* copy has been told so.                                                  *)
THEOREM ManagerIsACell == Spec => ImplementsConfigCell
  <1>1. Init => PatchInv
    BY DEF Init, PatchInv, Processes, Readers
  <1>2. Init => Cell!Init
    <2> SUFFICES ASSUME Init PROVE Cell!Init
      OBVIOUS
    <2>1. \A p \in Patchers : pc[p] = "start"
      BY ProcessAssumption DEF Init, Processes, Readers
    <2>2. Answer = [p \in Patchers |-> "pending"]
      BY <2>1 DEF Init, Answer
    <2>3. Notified = [w \in Watchers |-> FALSE]
      BY <2>1 DEF Init, Notified
    <2> QED
      BY <2>2, <2>3 DEF Init, Cell!Init
  <1>3. Spec => []PatchInv
    BY <1>1, NextPatch, Safety, PTL DEF Spec
  <1> QED
    BY <1>2, <1>3, NextImplementsCell, Safety, PTL
    DEF Spec, ImplementsConfigCell, Cell!Spec
=============================================================================
