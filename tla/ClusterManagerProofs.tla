------------------------- MODULE ClusterManagerProofs -------------------------
(***************************************************************************)
(* Theorems about ClusterManager, for any clusters, calls and definitions. *)
(***************************************************************************)
EXTENDS ClusterManager, TLAPS

(* An operation's name is a cluster name, so a poller's name is one too.   *)
LEMMA NamesOfWorkers ==
    ASSUME TypeOK
    PROVE  /\ \A r \in Requests : /\ op[r] \in Operations
                                  /\ op[r].name \in Names
                                  /\ op[r].definition \in Definitions
           /\ \A w \in Workers : Name(w) \in Names
  <1>1. \A r \in Requests : /\ op[r] \in Operations
                            /\ op[r].name \in Names
                            /\ op[r].definition \in Definitions
    BY OperationsAssumption DEF TypeOK
  <1> QED
    BY <1>1 DEF Name, Workers

LEMMA InitTypeOK == Init => TypeOK
  <1> SUFFICES ASSUME Init PROVE TypeOK
    OBVIOUS
  <1>1. ValidDefinitions \subseteq Definitions
    BY OperationsAssumption
  <1>2. clusterWorkers \in [Names -> Workers \cup {NoWorker}]
    BY DEF Init, Workers
  <1>3. running \subseteq Workers /\ canceled \subseteq Workers
    BY DEF Init, Workers
  <1>4. listed \in [Requests -> [Names -> Definitions \cup {NoDefinition, Unread}]]
    BY DEF Init
  <1>5. /\ pc \in [Processes -> {"start", "waiting", "copying", "end"}
                       \cup PutHolds \cup DeleteHolds \cup CloseHolds]
        /\ previous \in [Requests -> Workers \cup {NoWorker}]
        /\ answer \in [Requests -> Answers]
        /\ clusters \in [Names -> Workers \cup {NoWorker}]
    BY DEF Init, Answers, NoClusters
  <1>6. definition \in [Workers -> Definitions \cup {NoDefinition}]
    BY <1>1 DEF Init
  <1> QED
    BY <1>2, <1>3, <1>4, <1>5, <1>6 DEF Init, TypeOK

(* Every step preserves the types of the variables.                        *)
LEMMA NextTypeOK == TypeOK /\ [Next]_vars => TypeOK'
  <1> SUFFICES ASSUME TypeOK, [Next]_vars PROVE TypeOK'
    OBVIOUS
  <1> USE NamesOfWorkers DEF TypeOK, Go, requestVars, workerVars, lockVars,
          managerVars, GoOnly, Processes,
          PutHolds, DeleteHolds, CloseHolds
  <1>1. ASSUME NEW p \in Processes, Arrive(p) PROVE TypeOK'
    BY <1>1 DEF Arrive
  <1>2. ASSUME NEW r \in Requests, PutRejected(r) PROVE TypeOK'
    BY <1>2 DEF PutRejected, Answers
  <1>3. ASSUME NEW r \in Requests, PutCluster(r) PROVE TypeOK'
    <2> USE DEF Answers, Return, ReturnOnly
    <2>1. CASE PutBegins(r)
      BY <2>1 DEF PutBegins, LockLifecycle, LifecycleFree
    <2>2. CASE Check(r, "putCheck", "putLookup")
      BY <2>2 DEF Check, Open
    <2>3. CASE PutUnchanged(r)
      BY <2>3 DEF PutUnchanged
    <2>4. CASE PutIsNew(r)
      BY <2>4 DEF PutIsNew
    <2>5. CASE PutReplaces(r)
      BY <2>5 DEF PutReplaces, CancelPrevious, CanceledWith, Found
    <2>6. CASE AwaitPrevious(r, "putAwait", "putRecheck")
      BY <2>6 DEF AwaitPrevious, PreviousIsDone
    <2>7. CASE PutRecheck(r)
      BY <2>7 DEF PutRecheck
    <2>8. CASE LockClusters(r, "putLock", "putStore")
      BY <2>8 DEF LockClusters, ClustersFree
    <2>9. CASE PutStore(r)
      BY <2>9 DEF PutStore, Workers
    <2>10. CASE PutReturns(r)
      BY <2>10 DEF PutReturns
    <2> QED
      BY <1>3, <2>1, <2>2, <2>3, <2>4, <2>5, <2>6, <2>7, <2>8, <2>9, <2>10
      DEF PutCluster
  <1>4. ASSUME NEW r \in Requests, DeleteCluster(r) PROVE TypeOK'
    <2> USE DEF Answers, Return, ReturnOnly
    <2>1. CASE DeleteBegins(r)
      BY <2>1 DEF DeleteBegins, LockLifecycle, LifecycleFree
    <2>2. CASE Check(r, "deleteCheck", "deleteLookup")
      BY <2>2 DEF Check, Open
    <2>3. CASE DeleteNotFound(r)
      BY <2>3 DEF DeleteNotFound
    <2>4. CASE CancelPrevious(r, "deleteLookup", "deleteAwait")
      BY <2>4 DEF CancelPrevious, CanceledWith, Found
    <2>5. CASE AwaitPrevious(r, "deleteAwait", "deleteLock")
      BY <2>5 DEF AwaitPrevious, PreviousIsDone
    <2>6. CASE LockClusters(r, "deleteLock", "deleteStore")
      BY <2>6 DEF LockClusters, ClustersFree
    <2>7. CASE DeleteStore(r)
      BY <2>7 DEF DeleteStore, EntryRemoved
    <2> QED
      BY <1>4, <2>1, <2>2, <2>3, <2>4, <2>5, <2>6, <2>7 DEF DeleteCluster
  <1>5. ASSUME NEW r \in Requests, GetClusters(r) PROVE TypeOK'
    <2>1. CASE GetBegins(r)
      BY <2>1 DEF GetBegins
    <2>2. CASE GetCopies(r)
      <3>1. PICK n \in Names :
              listed' = [listed EXCEPT ![r][n] = DefinitionOf(n)]
        BY <2>2 DEF GetCopies
      <3>2. DefinitionOf(n) \in Definitions \cup {NoDefinition}
        BY DEF DefinitionOf
      <3> QED
        BY <2>2, <3>1, <3>2 DEF GetCopies
    <2>3. CASE GetReturns(r)
      BY <2>3 DEF GetReturns, Answers
    <2> QED
      BY <1>5, <2>1, <2>2, <2>3 DEF GetClusters
  <1>6. ASSUME Close PROVE TypeOK'
    <2>1. CASE LockLifecycle(Main, "waiting", "closeCheck")
      BY <2>1 DEF LockLifecycle, LifecycleFree
    <2>2. CASE CloseMarks
      BY <2>2 DEF CloseMarks
    <2>3. CASE LockClusters(Main, "closeLock", "closeSwap")
      BY <2>3 DEF LockClusters, ClustersFree
    <2>4. CASE CloseSwaps
      BY <2>4 DEF CloseSwaps, NoClusters
    <2>5. CASE CloseCancels
      BY <2>5 DEF CloseCancels, Closing
    <2>6. CASE CloseReturns
      BY <2>6 DEF CloseReturns
    <2> QED
      BY <1>6, <2>1, <2>2, <2>3, <2>4, <2>5, <2>6 DEF Close
  <1>7. ASSUME NEW w \in Workers, WorkerExits(w) PROVE TypeOK'
    BY <1>7 DEF WorkerExits
  <1>8. CASE CancelApplication
    BY <1>8 DEF CancelApplication
  <1>9. CASE UNCHANGED vars
    BY <1>9 DEF vars
  <1> QED
    BY <1>1, <1>2, <1>3, <1>4, <1>5, <1>6, <1>7, <1>8, <1>9
    DEF Next, Request, Terminated

THEOREM TypeCorrect == Spec => []TypeOK
  BY InitTypeOK, NextTypeOK, PTL DEF Spec

(* A poller's name never changes: the request it comes from is what it is. *)
LEMMA NamesStay == op' = op => \A w \in Workers : Name(w)' = Name(w)
  BY DEF Name

LEMMA InitLocking == Init => LockingInv
  <1> SUFFICES ASSUME Init PROVE LockingInv
    OBVIOUS
  <1>1. \A p \in Processes : pc[p] = "start"
    BY DEF Init
  <1>2. MutexHeld /\ OpenWhileChanging /\ ReplacedHasStopped
    BY <1>1 DEF MutexHeld, OpenWhileChanging, ReplacedHasStopped, Processes,
                PutHolds, DeleteHolds, CloseHolds
  <1>3. CloseTakesAll
    BY <1>1 DEF Init, CloseTakesAll, Processes
  <1>4. OneOwner
    BY DEF Init, OneOwner, Name
  <1> QED
    BY <1>2, <1>3, <1>4 DEF LockingInv

(* One step for each action; the invariant's parts are what the lock gives *)
(* its holder, and the only step that starts a poller is PutStore.         *)
LEMMA NextLocking == TypeOK /\ LockingInv /\ [Next]_vars => LockingInv'
  <1> SUFFICES ASSUME TypeOK, LockingInv, [Next]_vars PROVE LockingInv'
    OBVIOUS
  <1> USE NamesOfWorkers, NamesStay, DistinctAssumption
      DEF TypeOK, LockingInv, MutexHeld, OpenWhileChanging, CloseTakesAll, OneOwner,
          ReplacedHasStopped, Closing, Go, requestVars, workerVars, lockVars,
          managerVars, GoOnly,
          Processes, PutHolds, DeleteHolds, CloseHolds
  <1>1. ASSUME NEW p \in Processes, Arrive(p) PROVE LockingInv'
    BY <1>1 DEF Arrive
  <1>2. ASSUME NEW r \in Requests, PutRejected(r) PROVE LockingInv'
    BY <1>2 DEF PutRejected
  <1>3. ASSUME NEW r \in Requests, PutCluster(r) PROVE LockingInv'
    <2> USE DEF Return, ReturnOnly
    <2>1. CASE PutBegins(r)
      BY <2>1 DEF PutBegins, LockLifecycle, LifecycleFree
    <2>2. CASE Check(r, "putCheck", "putLookup")
      <3>1. CASE Open
        BY <2>2, <3>1 DEF Check, Open
      <3>2. CASE ~Open
        BY <2>2, <3>2 DEF Check, Open
      <3> QED
        BY <3>1, <3>2
    <2>3. CASE PutUnchanged(r)
      BY <2>3 DEF PutUnchanged
    <2>4. CASE PutIsNew(r)
      BY <2>4 DEF PutIsNew, Found
    <2>5. CASE PutReplaces(r)
      BY <2>5 DEF PutReplaces, CancelPrevious, CanceledWith, Found
    <2>6. CASE AwaitPrevious(r, "putAwait", "putRecheck")
      BY <2>6 DEF AwaitPrevious, PreviousIsDone
    <2>7. CASE PutRecheck(r)
      BY <2>7 DEF PutRecheck
    <2>8. CASE LockClusters(r, "putLock", "putStore")
      BY <2>8 DEF LockClusters, ClustersFree
    <2>9. CASE PutStore(r)
      <3>1. /\ op' = op /\ clusters' = clusters /\ closed' = closed
            /\ canceled' = canceled
            /\ running' = running \cup {r}
            /\ clusterWorkers' = [clusterWorkers EXCEPT ![op[r].name] = r]
            /\ lifecycleMutex = r /\ ~closed
        BY <2>9 DEF PutStore
      <3>2. MutexHeld' /\ OpenWhileChanging' /\ CloseTakesAll'
        BY <2>9, <3>1 DEF PutStore
      <3>3. clusters = NoClusters
        BY <3>1
      <3>4. \A w \in running : Name(w) # op[r].name
        BY <2>9, <3>1, <3>3 DEF PutStore, NoClusters
      <3>5. Name(r) = op[r].name
        BY DEF Name
      <3>6. OneOwner'
        BY <3>1, <3>4, <3>5 DEF Workers
      <3>7. ReplacedHasStopped'
        BY <2>9, <3>1 DEF PutStore
      <3> QED
        BY <3>2, <3>6, <3>7
    <2>10. CASE PutReturns(r)
      BY <2>10 DEF PutReturns
    <2> QED
      BY <1>3, <2>1, <2>2, <2>3, <2>4, <2>5, <2>6, <2>7, <2>8, <2>9, <2>10 DEF PutCluster
  <1>4. ASSUME NEW r \in Requests, DeleteCluster(r) PROVE LockingInv'
    <2> USE DEF Return, ReturnOnly
    <2>1. CASE DeleteBegins(r)
      BY <2>1 DEF DeleteBegins, LockLifecycle, LifecycleFree
    <2>2. CASE Check(r, "deleteCheck", "deleteLookup")
      BY <2>2 DEF Check, Open
    <2>3. CASE DeleteNotFound(r)
      BY <2>3 DEF DeleteNotFound
    <2>4. CASE CancelPrevious(r, "deleteLookup", "deleteAwait")
      BY <2>4 DEF CancelPrevious, CanceledWith, Found
    <2>5. CASE AwaitPrevious(r, "deleteAwait", "deleteLock")
      BY <2>5 DEF AwaitPrevious, PreviousIsDone
    <2>6. CASE LockClusters(r, "deleteLock", "deleteStore")
      BY <2>6 DEF LockClusters, ClustersFree
    <2>7. CASE DeleteStore(r)
      BY <2>7 DEF DeleteStore, EntryRemoved
    <2> QED
      BY <1>4, <2>1, <2>2, <2>3, <2>4, <2>5, <2>6, <2>7 DEF DeleteCluster
  <1>5. ASSUME NEW r \in Requests, GetClusters(r) PROVE LockingInv'
    <2>1. CASE GetBegins(r)
      BY <2>1 DEF GetBegins
    <2>2. CASE GetCopies(r)
      BY <2>2 DEF GetCopies
    <2>3. CASE GetReturns(r)
      BY <2>3 DEF GetReturns
    <2> QED
      BY <1>5, <2>1, <2>2, <2>3 DEF GetClusters
  <1>6. ASSUME Close PROVE LockingInv'
    <2>1. CASE LockLifecycle(Main, "waiting", "closeCheck")
      BY <2>1 DEF LockLifecycle, LifecycleFree
    <2>2. CASE CloseMarks
      BY <2>2 DEF CloseMarks
    <2>3. CASE LockClusters(Main, "closeLock", "closeSwap")
      BY <2>3 DEF LockClusters, ClustersFree
    <2>4. CASE CloseSwaps
      BY <2>4 DEF CloseSwaps
    <2>5. CASE CloseCancels
      BY <2>5 DEF CloseCancels
    <2>6. CASE CloseReturns
      <3>1. \A w \in running : w \in Closing
        BY <2>6 DEF CloseReturns, NoClusters
      <3>2. running = {}
        BY <2>6, <3>1 DEF CloseReturns
      <3> QED
        BY <2>6, <3>2 DEF CloseReturns
    <2> QED
      BY <1>6, <2>1, <2>2, <2>3, <2>4, <2>5, <2>6 DEF Close
  <1>7. ASSUME NEW w \in Workers, WorkerExits(w) PROVE LockingInv'
    BY <1>7 DEF WorkerExits
  <1>8. CASE CancelApplication
    BY <1>8 DEF CancelApplication
  <1>9. CASE UNCHANGED vars
    BY <1>9 DEF vars
  <1> QED
    BY <1>1, <1>2, <1>3, <1>4, <1>5, <1>6, <1>7, <1>8, <1>9
    DEF Next, Request, Terminated

THEOREM Locking == Spec => [](TypeOK /\ LockingInv)
  <1>1. Init => TypeOK /\ LockingInv
    BY InitTypeOK, InitLocking
  <1>2. TypeOK /\ LockingInv /\ [Next]_vars => (TypeOK /\ LockingInv)'
    BY NextTypeOK, NextLocking
  <1> QED
    BY <1>1, <1>2, PTL DEF Spec

(* What the owner of a poller is, by the phase Close has reached.          *)
LEMMA OwnerOfPoller ==
    ASSUME TypeOK, LockingInv, NEW w \in running
    PROVE  /\ Name(w) \in Names
           /\ \/ pc[Main] \notin {"closeCancel", "closeAwait", "end"}
                 /\ clusterWorkers[Name(w)] = w
              \/ pc[Main] \in {"closeCancel", "closeAwait"}
                 /\ clusters[Name(w)] = w
  <1>1. w \in Workers /\ Name(w) \in Names /\ w # NoWorker
    BY NamesOfWorkers, DistinctAssumption DEF TypeOK
  <1>2. NoClusters[Name(w)] # w
    BY <1>1 DEF NoClusters
  <1> QED
    BY <1>1, <1>2 DEF LockingInv, OneOwner, CloseTakesAll

LEMMA LockingGivesAtMostOne == TypeOK /\ LockingInv => AtMostOnePoller
  BY OwnerOfPoller DEF AtMostOnePoller

(* cluster_manager.go:83-91: whatever calls race, a cluster never has two  *)
(* polling goroutines.                                                     *)
THEOREM OnePollerPerCluster == Spec => []AtMostOnePoller
  BY Locking, LockingGivesAtMostOne, PTL

LEMMA LockingGivesNoOrphan == TypeOK /\ LockingInv => NoOrphan
  <1> SUFFICES ASSUME TypeOK, LockingInv, NEW w \in running
               PROVE  \/ w \in Registered
                      \/ w \in canceled
                      \/ pc[Main] = "closeCancel" /\ w \in Closing
    BY DEF NoOrphan
  <1>1. CASE clusterWorkers[Name(w)] = w
    BY <1>1, OwnerOfPoller, DistinctAssumption DEF Registered, TypeOK
  <1>2. CASE clusters[Name(w)] = w
    <2>1. w \in Closing
      BY <1>2, OwnerOfPoller, DistinctAssumption DEF Closing, TypeOK
    <2> QED
      BY <2>1, <1>1, OwnerOfPoller DEF LockingInv, CloseTakesAll
  <1> QED
    BY <1>1, <1>2, OwnerOfPoller

(* Every poller can be reached by DELETE, by Close, or has been canceled.  *)
THEOREM PollersCanBeStopped == Spec => []NoOrphan
  BY Locking, LockingGivesNoOrphan, PTL

LEMMA LockingGivesClosed == TypeOK /\ LockingInv => ClosedMeansStopped
  BY DEF LockingInv, CloseTakesAll, ClosedMeansStopped, Registered, NoClusters

(* cluster_manager.go:118-136: after Close nothing polls, ever again.      *)
THEOREM NothingPollsAfterClose == Spec => []ClosedMeansStopped
  BY Locking, LockingGivesClosed, PTL

(* Only DeleteStore answers "deleted".                                     *)
LEMMA DeletedByDeleteStore ==
    ASSUME TypeOK, [Next]_vars, NEW r \in Requests,
           answer[r] = "pending", answer'[r] = "deleted"
    PROVE  DeleteStore(r)
  <1> USE DEF TypeOK, requestVars, Return, ReturnOnly, GoOnly
  <1>1. ASSUME NEW p \in Processes, Arrive(p) PROVE FALSE
    BY <1>1 DEF Arrive
  <1>2. ASSUME NEW q \in Requests, PutRejected(q) PROVE FALSE
    BY <1>2 DEF PutRejected
  <1>3. ASSUME NEW q \in Requests, PutCluster(q) PROVE FALSE
    BY <1>3 DEF PutCluster, PutBegins, LockLifecycle, Check, PutUnchanged,
                PutIsNew, PutReplaces, CancelPrevious, AwaitPrevious, PutRecheck,
                LockClusters, PutStore, PutReturns
  <1>4. ASSUME NEW q \in Requests, DeleteCluster(q) PROVE DeleteStore(q) /\ q = r
    BY <1>4 DEF DeleteCluster, DeleteBegins, LockLifecycle, Check,
                DeleteNotFound, CancelPrevious, AwaitPrevious, LockClusters, DeleteStore
  <1>5. ASSUME NEW q \in Requests, GetClusters(q) PROVE FALSE
    BY <1>5 DEF GetClusters, GetBegins, GetCopies, GetReturns
  <1>6. ASSUME Close PROVE FALSE
    BY <1>6 DEF Close, LockLifecycle, CloseMarks, LockClusters, CloseSwaps,
                CloseCancels, CloseReturns
  <1>7. ASSUME NEW w \in Workers, WorkerExits(w) PROVE FALSE
    BY <1>7 DEF WorkerExits
  <1>8. CASE CancelApplication
    BY <1>8 DEF CancelApplication
  <1>9. CASE UNCHANGED vars
    BY <1>9 DEF vars
  <1> QED
    BY <1>1, <1>2, <1>3, <1>4, <1>5, <1>6, <1>7, <1>8, <1>9
    DEF Next, Request, Terminated

(* cluster_manager.go:109-113: DELETE answers 204 when nothing polls that  *)
(* cluster, even if another request or Close is under way.                 *)
THEOREM DeleteStops == Spec => DeletedMeansStopped
  <1>1. TypeOK /\ LockingInv /\ [Next]_vars =>
          [\A r \in Requests : answer[r] = "pending" /\ answer'[r] = "deleted"
             => \A w \in running' : Name(w) # op[r].name]_vars
    <2> SUFFICES ASSUME TypeOK, LockingInv, [Next]_vars, NEW r \in Requests,
                        answer[r] = "pending", answer'[r] = "deleted",
                        NEW w \in running', Name(w) = op[r].name
                 PROVE  FALSE
      OBVIOUS
    <2>1. DeleteStore(r)
      BY DeletedByDeleteStore
    <2>2. pc[r] = "deleteStore" /\ lifecycleMutex = r /\ ~closed /\ w \in running
      BY <2>1 DEF DeleteStore, EntryRemoved, Return, Go, workerVars, LockingInv, MutexHeld,
                  OpenWhileChanging, DeleteHolds
    <2>3. clusterWorkers[op[r].name] # w
      BY <2>2 DEF LockingInv, ReplacedHasStopped
    <2> QED
      BY <2>2, <2>3, OwnerOfPoller DEF LockingInv, CloseTakesAll
  <1> QED
    BY <1>1, Locking, PTL DEF Spec, DeletedMeansStopped


LEMMA InitPolled == Init => PolledInv
  <1> SUFFICES ASSUME Init PROVE PolledInv
    OBVIOUS
  <1>1. Registered = running
    BY DistinctAssumption DEF Init, Registered, Workers
  <1>2. RegisteredArePolled
    BY <1>1 DEF Init, RegisteredArePolled
  <1>3. RegisteredUnderName
    BY DistinctAssumption DEF Init, RegisteredUnderName, Name
  <1>4. PendingHasNoPoller
    <2>1. Closing = {}
      BY DEF Init, Closing, NoClusters
    <2> QED
      BY <1>1, <2>1, DistinctAssumption DEF Init, PendingHasNoPoller, Processes
  <1>5. PreviousIsRegistered
    BY DEF Init, PreviousIsRegistered, Processes, LookedUp
  <1> QED
    BY <1>2, <1>3, <1>4, <1>5 DEF PolledInv

LEMMA NextPolled == TypeOK /\ LockingInv /\ PolledInv /\ [Next]_vars => PolledInv'
  <1> SUFFICES ASSUME TypeOK, LockingInv, PolledInv, [Next]_vars PROVE PolledInv'
    OBVIOUS
  <1> USE NamesOfWorkers, NamesStay, DistinctAssumption
      DEF TypeOK, LockingInv, MutexHeld, PolledInv, RegisteredArePolled,
          RegisteredUnderName, PendingHasNoPoller, PreviousIsRegistered, LookedUp,
          Registered, Closing, Go, requestVars, workerVars, lockVars,
          managerVars, GoOnly,
          Processes, PutHolds, DeleteHolds, CloseHolds
  <1>1. ASSUME NEW p \in Processes, Arrive(p) PROVE PolledInv'
    BY <1>1 DEF Arrive
  <1>2. ASSUME NEW r \in Requests, PutRejected(r) PROVE PolledInv'
    BY <1>2 DEF PutRejected
  <1>3. ASSUME NEW r \in Requests, PutCluster(r) PROVE PolledInv'
    <2> USE DEF Return, ReturnOnly
    <2>1. CASE PutBegins(r)
      BY <2>1 DEF PutBegins, LockLifecycle, LifecycleFree
    <2>2. CASE Check(r, "putCheck", "putLookup")
      BY <2>2 DEF Check, Open
    <2>3. CASE PutUnchanged(r)
      BY <2>3 DEF PutUnchanged
    <2>4. CASE PutIsNew(r)
      BY <2>4 DEF PutIsNew, Found
    <2>5. CASE PutReplaces(r)
      BY <2>5 DEF PutReplaces, CancelPrevious, CanceledWith, Found
    <2>6. CASE AwaitPrevious(r, "putAwait", "putRecheck")
      BY <2>6 DEF AwaitPrevious, PreviousIsDone
    <2>7. CASE PutRecheck(r)
      BY <2>7 DEF PutRecheck
    <2>8. CASE LockClusters(r, "putLock", "putStore")
      BY <2>8 DEF LockClusters, ClustersFree
    <2>9. CASE PutStore(r)
      <3> DEFINE old == clusterWorkers[op[r].name]
      <3>1. /\ op' = op /\ previous' = previous /\ canceled' = canceled
            /\ clusters' = clusters /\ applicationCanceled' = applicationCanceled
            /\ lifecycleMutex' = lifecycleMutex
            /\ running' = running \cup {r}
            /\ clusterWorkers' = [clusterWorkers EXCEPT ![op[r].name] = r]
            /\ pc[r] = "putStore" /\ pc' = [pc EXCEPT ![r] = "putWarn"]
        BY <2>9 DEF PutStore
      <3>2. /\ answer[r] = "pending"
            /\ \E a \in {"created", "replaced"} : answer' = [answer EXCEPT ![r] = a]
        BY <2>9, <3>1 DEF PutStore
      <3>3. lifecycleMutex = r /\ previous[r] = old
        BY <3>1
      <3>4. Name(r) = op[r].name /\ r # NoWorker
        BY DEF Name, Workers
      <3>5. Registered' \subseteq Registered \cup {r}
        BY <3>1
      <3>6. r \in running' /\ r \notin canceled'
        BY <3>1, <3>2
      <3>7. RegisteredArePolled'
        <4> SUFFICES ASSUME NEW w \in Registered', w # r, ~applicationCanceled
                     PROVE  w \in running' /\ w \notin canceled'
          BY <3>1, <3>6
        <4>1. PICK n \in Names : n # op[r].name /\ clusterWorkers[n] = w
          BY <3>1
        <4>2. w # old /\ w \in Registered
          BY <4>1, <3>1
        <4> QED
          BY <3>1, <3>3, <4>2
      <3>8. RegisteredUnderName'
        <4> SUFFICES ASSUME NEW n \in Names, (clusterWorkers[n] # NoWorker)'
                     PROVE  (Name(clusterWorkers[n]) = n)'
          OBVIOUS
        <4>1. CASE n = op[r].name
          BY <3>1, <3>4, <4>1 DEF Name
        <4>2. CASE n # op[r].name
          BY <3>1, <4>2 DEF Name
        <4> QED
          BY <4>1, <4>2
      <3>9. PendingHasNoPoller'
        BY <3>1, <3>2, <3>5 DEF Closing
      <3>10. PreviousIsRegistered'
        BY <3>1, <3>3
      <3> QED
        BY <3>7, <3>8, <3>9, <3>10
    <2>10. CASE PutReturns(r)
      BY <2>10 DEF PutReturns
    <2> QED
      BY <1>3, <2>1, <2>2, <2>3, <2>4, <2>5, <2>6, <2>7, <2>8, <2>9, <2>10 DEF PutCluster
  <1>4. ASSUME NEW r \in Requests, DeleteCluster(r) PROVE PolledInv'
    <2> USE DEF Return, ReturnOnly
    <2>1. CASE DeleteBegins(r)
      BY <2>1 DEF DeleteBegins, LockLifecycle, LifecycleFree
    <2>2. CASE Check(r, "deleteCheck", "deleteLookup")
      BY <2>2 DEF Check, Open
    <2>3. CASE DeleteNotFound(r)
      BY <2>3 DEF DeleteNotFound
    <2>4. CASE CancelPrevious(r, "deleteLookup", "deleteAwait")
      BY <2>4 DEF CancelPrevious, CanceledWith, Found
    <2>5. CASE AwaitPrevious(r, "deleteAwait", "deleteLock")
      BY <2>5 DEF AwaitPrevious, PreviousIsDone
    <2>6. CASE LockClusters(r, "deleteLock", "deleteStore")
      BY <2>6 DEF LockClusters, ClustersFree
    <2>7. CASE DeleteStore(r)
      BY <2>7 DEF DeleteStore, EntryRemoved
    <2> QED
      BY <1>4, <2>1, <2>2, <2>3, <2>4, <2>5, <2>6, <2>7 DEF DeleteCluster
  <1>5. ASSUME NEW r \in Requests, GetClusters(r) PROVE PolledInv'
    <2>1. CASE GetBegins(r)
      BY <2>1 DEF GetBegins
    <2>2. CASE GetCopies(r)
      BY <2>2 DEF GetCopies
    <2>3. CASE GetReturns(r)
      BY <2>3 DEF GetReturns
    <2> QED
      BY <1>5, <2>1, <2>2, <2>3 DEF GetClusters
  <1>6. ASSUME Close PROVE PolledInv'
    <2>1. CASE LockLifecycle(Main, "waiting", "closeCheck")
      BY <2>1 DEF LockLifecycle, LifecycleFree
    <2>2. CASE CloseMarks
      BY <2>2 DEF CloseMarks
    <2>3. CASE LockClusters(Main, "closeLock", "closeSwap")
      BY <2>3 DEF LockClusters, ClustersFree
    <2>4. CASE CloseSwaps
      BY <2>4 DEF CloseSwaps, NoClusters
    <2>5. CASE CloseCancels
      BY <2>5 DEF CloseCancels, CloseTakesAll, NoClusters
    <2>6. CASE CloseReturns
      BY <2>6 DEF CloseReturns
    <2> QED
      BY <1>6, <2>1, <2>2, <2>3, <2>4, <2>5, <2>6 DEF Close
  <1>7. ASSUME NEW w \in Workers, WorkerExits(w) PROVE PolledInv'
    BY <1>7 DEF WorkerExits
  <1>8. CASE CancelApplication
    BY <1>8 DEF CancelApplication
  <1>9. CASE UNCHANGED vars
    BY <1>9 DEF vars
  <1> QED
    BY <1>1, <1>2, <1>3, <1>4, <1>5, <1>6, <1>7, <1>8, <1>9
    DEF Next, Request, Terminated

THEOREM Safety == Spec => [](TypeOK /\ SafetyInv)
  <1>1. Init => TypeOK /\ SafetyInv
    BY InitTypeOK, InitLocking, InitPolled DEF SafetyInv
  <1>2. TypeOK /\ SafetyInv /\ [Next]_vars => (TypeOK /\ SafetyInv)'
    BY NextTypeOK, NextLocking, NextPolled DEF SafetyInv
  <1> QED
    BY <1>1, <1>2, PTL DEF Spec

(* cluster_manager.go:83-91: no half-done change leaves a dead entry.      *)
THEOREM RegisteredStayPolled == Spec => []RegisteredArePolled
  <1>1. SafetyInv => RegisteredArePolled
    BY DEF SafetyInv, PolledInv
  <1> QED
    BY <1>1, Safety, PTL

(* What a PUT has compared stays as it was: only its own store, which no   *)
(* other request can come near, defines a poller.                          *)
LEMMA NextReplacement ==
    TypeOK /\ LockingInv /\ PolledInv /\ ReplacementDiffers /\ [Next]_vars
      => ReplacementDiffers'
  <1> SUFFICES ASSUME TypeOK, LockingInv, PolledInv, ReplacementDiffers, [Next]_vars
               PROVE  ReplacementDiffers'
    OBVIOUS
  <1> USE NamesOfWorkers, DistinctAssumption
      DEF TypeOK, ReplacementDiffers, Go, requestVars, workerVars, lockVars,
          managerVars, GoOnly, Processes, Return, ReturnOnly
  <1>1. ASSUME NEW p \in Processes, Arrive(p) PROVE ReplacementDiffers'
    BY <1>1 DEF Arrive
  <1>2. ASSUME NEW r \in Requests, PutRejected(r) PROVE ReplacementDiffers'
    BY <1>2 DEF PutRejected
  <1>3. ASSUME NEW r \in Requests, PutCluster(r) PROVE ReplacementDiffers'
    <2>1. CASE PutBegins(r)
      BY <2>1 DEF PutBegins, LockLifecycle
    <2>2. CASE Check(r, "putCheck", "putLookup")
      BY <2>2 DEF Check
    <2>3. CASE PutUnchanged(r)
      BY <2>3 DEF PutUnchanged
    <2>4. CASE PutIsNew(r)
      <3>1. previous[r] = NoWorker
        BY <2>4 DEF PutIsNew, PolledInv, PreviousIsRegistered, LookedUp
      <3> QED
        BY <2>4, <3>1 DEF PutIsNew
    <2>5. CASE PutReplaces(r)
      BY <2>5 DEF PutReplaces, CancelPrevious, Found
    <2>6. CASE AwaitPrevious(r, "putAwait", "putRecheck")
      BY <2>6 DEF AwaitPrevious
    <2>7. CASE PutRecheck(r)
      BY <2>7 DEF PutRecheck
    <2>8. CASE LockClusters(r, "putLock", "putStore")
      BY <2>8 DEF LockClusters
    <2>9. CASE PutStore(r)
      <3> SUFFICES ASSUME NEW q \in Requests,
                          (pc[q] \in {"putAwait", "putRecheck", "putLock", "putStore"})'
                   PROVE  FALSE
        OBVIOUS
      <3>1. q # r /\ pc[q] \in {"putAwait", "putRecheck", "putLock", "putStore"}
        BY <2>9 DEF PutStore
      <3>2. lifecycleMutex = r /\ lifecycleMutex = q
        BY <2>9, <3>1 DEF PutStore, LockingInv, MutexHeld, PutHolds
      <3> QED
        BY <3>1, <3>2
    <2>10. CASE PutReturns(r)
      BY <2>10 DEF PutReturns
    <2> QED
      BY <1>3, <2>1, <2>2, <2>3, <2>4, <2>5, <2>6, <2>7, <2>8, <2>9, <2>10 DEF PutCluster
  <1>4. ASSUME NEW r \in Requests, DeleteCluster(r) PROVE ReplacementDiffers'
    BY <1>4 DEF DeleteCluster, DeleteBegins, LockLifecycle, Check, DeleteNotFound,
                CancelPrevious, AwaitPrevious, LockClusters, DeleteStore
  <1>5. ASSUME NEW r \in Requests, GetClusters(r) PROVE ReplacementDiffers'
    BY <1>5 DEF GetClusters, GetBegins, GetCopies, GetReturns
  <1>6. ASSUME Close PROVE ReplacementDiffers'
    BY <1>6 DEF Close, LockLifecycle, CloseMarks, LockClusters, CloseSwaps,
                CloseCancels, CloseReturns
  <1>7. ASSUME NEW w \in Workers, WorkerExits(w) PROVE ReplacementDiffers'
    BY <1>7 DEF WorkerExits
  <1>8. CASE CancelApplication
    BY <1>8 DEF CancelApplication
  <1>9. CASE UNCHANGED vars
    BY <1>9 DEF vars
  <1> QED
    BY <1>1, <1>2, <1>3, <1>4, <1>5, <1>6, <1>7, <1>8, <1>9
    DEF Next, Request, Terminated

(* Only PutStore puts a poller into the registry.                          *)
LEMMA StoredByPutStore ==
    ASSUME TypeOK, [Next]_vars, NEW n \in Names,
           clusterWorkers'[n] \notin {NoWorker, clusterWorkers[n]}
    PROVE  \E r \in Requests : PutStore(r)
  <1> USE NamesOfWorkers DEF TypeOK, requestVars, managerVars, Return, ReturnOnly, GoOnly
  <1>1. ASSUME NEW p \in Processes, Arrive(p) PROVE FALSE
    BY <1>1 DEF Arrive
  <1>2. ASSUME NEW q \in Requests, PutRejected(q) PROVE FALSE
    BY <1>2 DEF PutRejected
  <1>3. ASSUME NEW q \in Requests, PutCluster(q) PROVE PutStore(q)
    BY <1>3 DEF PutCluster, PutBegins, LockLifecycle, Check, PutUnchanged,
                PutIsNew, PutReplaces, CancelPrevious, AwaitPrevious, PutRecheck,
                LockClusters, PutReturns
  <1>4. ASSUME NEW q \in Requests, DeleteCluster(q) PROVE FALSE
    BY <1>4 DEF DeleteCluster, DeleteBegins, LockLifecycle, Check, DeleteNotFound,
                CancelPrevious, AwaitPrevious, LockClusters, DeleteStore, EntryRemoved
  <1>5. ASSUME NEW q \in Requests, GetClusters(q) PROVE FALSE
    BY <1>5 DEF GetClusters, GetBegins, GetCopies, GetReturns
  <1>6. ASSUME Close PROVE FALSE
    BY <1>6 DEF Close, LockLifecycle, CloseMarks, LockClusters, CloseSwaps,
                CloseCancels, CloseReturns, NoClusters
  <1>7. ASSUME NEW w \in Workers, WorkerExits(w) PROVE FALSE
    BY <1>7 DEF WorkerExits
  <1>8. CASE CancelApplication
    BY <1>8 DEF CancelApplication
  <1>9. CASE UNCHANGED vars
    BY <1>9 DEF vars, managerVars
  <1> QED
    BY <1>1, <1>2, <1>3, <1>4, <1>5, <1>6, <1>7, <1>8, <1>9
    DEF Next, Request, Terminated

(* cluster_manager.go:79-84: repeating a PUT, at once or after any other   *)
(* requests, never costs a cluster its poller and its backoff history.     *)
THEOREM IdenticalKeeps == Spec => IdenticalKeepsPoller
  <1>1. Init => ReplacementDiffers
    BY DEF Init, ReplacementDiffers, Processes
  <1>2. TypeOK /\ SafetyInv /\ ReplacementDiffers /\ [Next]_vars =>
          [\A n \in Names :
             clusterWorkers[n] # NoWorker /\ clusterWorkers'[n] \notin {NoWorker, clusterWorkers[n]}
               => definition'[clusterWorkers'[n]] # definition[clusterWorkers[n]]]_vars
    <2> SUFFICES ASSUME TypeOK, SafetyInv, ReplacementDiffers, [Next]_vars,
                        NEW n \in Names, clusterWorkers[n] # NoWorker,
                        clusterWorkers'[n] \notin {NoWorker, clusterWorkers[n]}
                 PROVE  definition'[clusterWorkers'[n]] # definition[clusterWorkers[n]]
      OBVIOUS
    <2>1. PICK r \in Requests : PutStore(r)
      BY StoredByPutStore
    <2>2. n = op[r].name /\ clusterWorkers'[n] = r
      BY <2>1, NamesOfWorkers DEF PutStore, TypeOK
    <2>3. definition'[r] = op[r].definition
      BY <2>1 DEF PutStore, TypeOK, Workers
    <2>4. previous[r] = clusterWorkers[n]
      BY <2>1, <2>2 DEF PutStore, Go, SafetyInv, PolledInv, PreviousIsRegistered, LookedUp
    <2> QED
      BY <2>1, <2>2, <2>3, <2>4 DEF PutStore, Go, ReplacementDiffers
  <1>3. TypeOK /\ SafetyInv /\ ReplacementDiffers /\ [Next]_vars => ReplacementDiffers'
    BY NextReplacement DEF SafetyInv
  <1> QED
    BY <1>1, <1>2, <1>3, Safety, PTL DEF Spec, IdenticalKeepsPoller
-----------------------------------------------------------------------------
(* ClusterManager implements ClusterRegistry: the answers of its calls are *)
(* those of an atomic map.                                                 *)

(* Clusters.Lock is held by one process and by nobody who reads.           *)
LEMMA InitAtomic == Init => AtomicInv
  <1> SUFFICES ASSUME Init PROVE AtomicInv
    OBVIOUS
  <1>1. \A p \in Processes : pc[p] = "start"
    BY DEF Init
  <1>2. ClustersHeld /\ CallsMatch /\ OnlyCloseCloses
    BY <1>1 DEF Init, ClustersHeld, CallsMatch, OnlyCloseCloses, Processes, PutHolds,
                DeleteHolds
  <1>3. RegisteredAreDefined
    BY OperationsAssumption, DistinctAssumption DEF Init, RegisteredAreDefined, Workers
  <1>4. CopyIsCurrent
    BY <1>1 DEF Init, CopyIsCurrent, Processes
  <1> QED
    BY <1>2, <1>3, <1>4 DEF AtomicInv

(* The steps that touch neither the map, its lock, a definition nor a copy *)
(* only have to follow their call's path.                                  *)
LEMMA NextAtomic == TypeOK /\ SafetyInv /\ AtomicInv /\ [Next]_vars => AtomicInv'
  <1> SUFFICES ASSUME TypeOK, SafetyInv, AtomicInv, [Next]_vars PROVE AtomicInv'
    OBVIOUS
  <1> USE NamesOfWorkers, DistinctAssumption
      DEF TypeOK, AtomicInv, ClustersHeld, CallsMatch, Invalid, RegisteredAreDefined,
          CopyIsCurrent, OnlyCloseCloses, DefinitionOf, Go, requestVars, workerVars, lockVars,
          managerVars, GoOnly, Processes, PutHolds, DeleteHolds, CloseHolds
  <1>1. ASSUME NEW p \in Processes, Arrive(p) PROVE AtomicInv'
    BY <1>1 DEF Arrive
  <1>2. ASSUME NEW r \in Requests, PutRejected(r) PROVE AtomicInv'
    BY <1>2 DEF PutRejected
  <1>3. ASSUME NEW r \in Requests, PutCluster(r) PROVE AtomicInv'
    <2> USE DEF Return, ReturnOnly
    <2>1. CASE PutBegins(r)
      BY <2>1 DEF PutBegins, LockLifecycle, LifecycleFree
    <2>2. CASE Check(r, "putCheck", "putLookup")
      <3>1. CASE Open
        BY <2>2, <3>1 DEF Check, Open
      <3>2. CASE ~Open
        BY <2>2, <3>2 DEF Check, Open
      <3> QED
        BY <3>1, <3>2
    <2>3. CASE PutUnchanged(r)
      BY <2>3 DEF PutUnchanged
    <2>4. CASE PutIsNew(r)
      BY <2>4 DEF PutIsNew
    <2>5. CASE PutReplaces(r)
      BY <2>5 DEF PutReplaces, CancelPrevious
    <2>6. CASE AwaitPrevious(r, "putAwait", "putRecheck")
      BY <2>6 DEF AwaitPrevious
    <2>7. CASE PutRecheck(r)
      <3>1. CASE applicationCanceled
        <4>1. CallsMatch' /\ CopyIsCurrent'
          BY <2>7, <3>1 DEF PutRecheck
        <4> QED
          BY <2>7, <3>1, <4>1 DEF PutRecheck
      <3>2. CASE ~applicationCanceled
        BY <2>7, <3>2 DEF PutRecheck
      <3> QED
        BY <3>1, <3>2
    <2>8. CASE LockClusters(r, "putLock", "putStore")
      BY <2>8 DEF LockClusters, ClustersFree
    <2>9. CASE PutStore(r)
      <3>1. clustersReaders = {} /\ \A q \in Requests : pc[q] # "copying"
        BY <2>9 DEF PutStore
      <3>2. ClustersHeld' /\ CallsMatch' /\ OnlyCloseCloses'
        BY <2>9, <3>1 DEF PutStore
      <3>3. CopyIsCurrent'
        BY <2>9, <3>1 DEF PutStore
      <3>4. RegisteredAreDefined'
        BY <2>9 DEF PutStore, Workers
      <3> QED
        BY <3>2, <3>3, <3>4
    <2>10. CASE PutReturns(r)
      BY <2>10 DEF PutReturns
    <2> QED
      BY <1>3, <2>1, <2>2, <2>3, <2>4, <2>5, <2>6, <2>7, <2>8, <2>9, <2>10
      DEF PutCluster
  <1>4. ASSUME NEW r \in Requests, DeleteCluster(r) PROVE AtomicInv'
    <2> USE DEF Return, ReturnOnly
    <2>1. CASE DeleteBegins(r)
      BY <2>1 DEF DeleteBegins, LockLifecycle, LifecycleFree
    <2>2. CASE Check(r, "deleteCheck", "deleteLookup")
      <3>1. CASE Open
        BY <2>2, <3>1 DEF Check, Open
      <3>2. CASE ~Open
        BY <2>2, <3>2 DEF Check, Open
      <3> QED
        BY <3>1, <3>2
    <2>3. CASE DeleteNotFound(r)
      <3>1. CallsMatch' /\ CopyIsCurrent'
        BY <2>3 DEF DeleteNotFound
      <3> QED
        BY <2>3, <3>1 DEF DeleteNotFound
    <2>4. CASE CancelPrevious(r, "deleteLookup", "deleteAwait")
      <3>1. CallsMatch' /\ CopyIsCurrent'
        BY <2>4 DEF CancelPrevious
      <3> QED
        BY <2>4, <3>1 DEF CancelPrevious
    <2>5. CASE AwaitPrevious(r, "deleteAwait", "deleteLock")
      BY <2>5 DEF AwaitPrevious
    <2>6. CASE LockClusters(r, "deleteLock", "deleteStore")
      BY <2>6 DEF LockClusters, ClustersFree
    <2>7. CASE DeleteStore(r)
      <3>1. clustersReaders = {} /\ \A q \in Requests : pc[q] # "copying"
        BY <2>7 DEF DeleteStore
      <3> QED
        BY <2>7, <3>1 DEF DeleteStore, EntryRemoved
    <2> QED
      BY <1>4, <2>1, <2>2, <2>3, <2>4, <2>5, <2>6, <2>7 DEF DeleteCluster
  <1>5. ASSUME NEW r \in Requests, GetClusters(r) PROVE AtomicInv'
    <2>1. CASE GetBegins(r)
      BY <2>1 DEF GetBegins
    <2>2. CASE GetCopies(r)
      BY <2>2 DEF GetCopies
    <2>3. CASE GetReturns(r)
      BY <2>3 DEF GetReturns
    <2> QED
      BY <1>5, <2>1, <2>2, <2>3 DEF GetClusters
  <1>6. ASSUME Close PROVE AtomicInv'
    <2>1. CASE LockLifecycle(Main, "waiting", "closeCheck")
      BY <2>1 DEF LockLifecycle, LifecycleFree
    <2>2. CASE CloseMarks
      BY <2>2 DEF CloseMarks
    <2>3. CASE LockClusters(Main, "closeLock", "closeSwap")
      BY <2>3 DEF LockClusters, ClustersFree
    <2>4. CASE CloseSwaps
      <3>1. clustersReaders = {} /\ \A q \in Requests : pc[q] # "copying"
        BY <2>4 DEF CloseSwaps
      <3> QED
        BY <2>4, <3>1 DEF CloseSwaps, NoClusters
    <2>5. CASE CloseCancels
      BY <2>5 DEF CloseCancels
    <2>6. CASE CloseReturns
      BY <2>6 DEF CloseReturns
    <2> QED
      BY <1>6, <2>1, <2>2, <2>3, <2>4, <2>5, <2>6 DEF Close
  <1>7. ASSUME NEW w \in Workers, WorkerExits(w) PROVE AtomicInv'
    BY <1>7 DEF WorkerExits
  <1>8. CASE CancelApplication
    BY <1>8 DEF CancelApplication
  <1>9. CASE UNCHANGED vars
    BY <1>9 DEF vars
  <1> QED
    BY <1>1, <1>2, <1>3, <1>4, <1>5, <1>6, <1>7, <1>8, <1>9
    DEF Next, Request, Terminated

THEOREM Atomicity == Spec => [](TypeOK /\ SafetyInv /\ ReplacementDiffers /\ AtomicInv)
  <1>1. Init => ReplacementDiffers /\ AtomicInv
    BY InitAtomic DEF Init, ReplacementDiffers, Processes
  <1>2. TypeOK /\ SafetyInv /\ ReplacementDiffers /\ [Next]_vars => ReplacementDiffers'
    BY NextReplacement DEF SafetyInv
  <1>3. TypeOK /\ SafetyInv /\ AtomicInv /\ [Next]_vars => AtomicInv'
    BY NextAtomic
  <1> QED
    BY <1>1, <1>2, <1>3, Safety, PTL DEF Spec

(* What a request sees of the registry is what the map shows, and Close    *)
(* has taken effect or not when nobody is between its mark and its swap.   *)
LEMMA HolderSeesClosed ==
    ASSUME SafetyInv, NEW r \in Requests, lifecycleMutex = r
    PROVE  ClosedNow <=> closed
  BY DistinctAssumption
  DEF SafetyInv, LockingInv, MutexHeld, CloseHolds, ClosedNow

(* A request that goes on, or a poller that exits, is not seen.            *)
LEMMA MovesUnseen ==
    ASSUME UNCHANGED <<op, answer, listed, clusterWorkers, definition,
                       applicationCanceled, closed>>,
           pc'[Main] = pc[Main]
    PROVE  UNCHANGED Registry!vars
  BY DEF Registry!vars, RegistryNow, DefinitionOf, ClosedNow, ListedNow

(* A request that returns without a change of the map only answers.        *)
LEMMA ReturnIsAnswered ==
    ASSUME TypeOK, SafetyInv, NEW r \in Requests, NEW from, NEW a,
           ReturnOnly(r, from, a),
           from \notin {"putWarn", "end"}, a # "listed"
    PROVE  /\ Registry!Answered(r, a)
           /\ RegistryNow' = RegistryNow
           /\ ListedNow' = ListedNow
  <1> USE DistinctAssumption DEF ReturnOnly, Return, Go, TypeOK, Processes
  <1>1. answer[r] = "pending"
    BY DEF SafetyInv, PolledInv, PendingHasNoPoller
  <1>2. pc'[Main] = pc[Main]
    OBVIOUS
  <1>3. ClosedNow' = ClosedNow
    BY <1>2 DEF ClosedNow
  <1>4. RegistryNow' = RegistryNow
    BY DEF RegistryNow, DefinitionOf, workerVars
  <1>5. ListedNow' = ListedNow
    BY <1>1 DEF ListedNow
  <1> QED
    BY <1>1, <1>3, <1>4, <1>5 DEF Registry!Answered

(* startCluster and the store, at one instant: the definition asked for     *)
(* takes the place of what the lookup found, if that is another one.       *)
LEMMA StoreIsPut ==
    ASSUME TypeOK, SafetyInv, ReplacementDiffers, AtomicInv, NEW r \in Requests,
           PutStore(r)
    PROVE  Registry!Put(r)
  <1> DEFINE n == op[r].name
             old == RegistryNow[n]
  <1> USE DEF TypeOK, PutStore, Go
  <1>1. /\ n \in Names
        /\ op[r].definition \in Definitions
        /\ r \in Workers /\ r # NoWorker
    BY NamesOfWorkers, DistinctAssumption DEF Workers
  <1>2. answer[r] = "pending" /\ r \notin Registered
    BY DEF SafetyInv, PolledInv, PendingHasNoPoller
  <1>3. op[r].kind = "put" /\ ~Registry!Invalid(r) /\ lifecycleMutex = r /\ ~closed
    BY DEF AtomicInv, CallsMatch, Invalid, Registry!Invalid, SafetyInv, LockingInv,
           MutexHeld, OpenWhileChanging, PutHolds
  <1>4. ClosedNow' = ClosedNow /\ ~ClosedNow
    BY <1>3, DistinctAssumption DEF ClosedNow, Processes
  <1>5. RegistryNow' = [RegistryNow EXCEPT ![n] = op[r].definition]
    <2>1. \A m \in Names : DefinitionOf(m)' = IF m = n THEN op[r].definition
                                              ELSE DefinitionOf(m)
      <3> SUFFICES ASSUME NEW m \in Names
                   PROVE  DefinitionOf(m)' = IF m = n THEN op[r].definition
                                             ELSE DefinitionOf(m)
        OBVIOUS
      <3>1. CASE m = n
        BY <1>1, <3>1 DEF DefinitionOf
      <3>2. CASE m # n
        <4>1. clusterWorkers'[m] = clusterWorkers[m]
          BY <3>2
        <4>2. clusterWorkers[m] # NoWorker => clusterWorkers[m] # r
          BY <1>2 DEF Registered
        <4>3. clusterWorkers[m] # NoWorker =>
                definition'[clusterWorkers[m]] = definition[clusterWorkers[m]]
          BY <4>2
        <4> QED
          BY <3>2, <4>1, <4>3 DEF DefinitionOf
      <3> QED
        BY <3>1, <3>2
    <2> QED
      BY <2>1 DEF RegistryNow
  <1>6. previous[r] = clusterWorkers[n]
    BY DEF SafetyInv, PolledInv, PreviousIsRegistered, LookedUp
  <1>7. old = DefinitionOf(n)
    BY <1>1 DEF RegistryNow
  <1>8. CASE previous[r] = NoWorker
    <2>1. old = NoDefinition
      BY <1>6, <1>7, <1>8 DEF DefinitionOf
    <2>2. answer' = [answer EXCEPT ![r] = "created"]
      BY <1>8
    <2>3. ListedNow' = ListedNow
      BY <1>2, <2>2 DEF ListedNow
    <2> QED
      BY <1>2, <1>3, <1>4, <1>5, <2>1, <2>2, <2>3 DEF Registry!Put, Registry!Answered
  <1>9. CASE previous[r] # NoWorker
    <2>1. old \in Definitions /\ old # op[r].definition
      BY <1>1, <1>6, <1>7, <1>9
      DEF DefinitionOf, AtomicInv, RegisteredAreDefined, ReplacementDiffers
    <2>2. old # NoDefinition
      BY <2>1, DistinctAssumption
    <2>3. answer' = [answer EXCEPT ![r] = "replaced"]
      BY <1>9
    <2>4. ListedNow' = ListedNow
      BY <1>2, <2>3 DEF ListedNow
    <2> QED
      BY <1>2, <1>3, <1>4, <1>5, <2>1, <2>2, <2>3, <2>4
      DEF Registry!Put, Registry!Answered
  <1> QED
    BY <1>8, <1>9

(* The refusals after a lock was taken: the manager is closed, and nobody  *)
(* can be in the middle of closing it, or the application is stopping.     *)
LEMMA UnavailableIsRefused ==
    ASSUME TypeOK, SafetyInv, AtomicInv, NEW r \in Requests,
           NEW from \in {"putCheck", "putRecheck", "deleteCheck"},
           ReturnOnly(r, from, "unavailable"), ~Open
    PROVE  Registry!Refuse(r)
  <1>1. lifecycleMutex = r /\ op[r].kind # "get" /\ ~Registry!Invalid(r)
    BY DEF ReturnOnly, Return, Go, SafetyInv, LockingInv, MutexHeld, AtomicInv,
           CallsMatch, Invalid, Registry!Invalid, PutHolds, DeleteHolds
  <1>2. ClosedNow \/ applicationCanceled
    BY <1>1, HolderSeesClosed DEF Open
  <1>3. /\ Registry!Answered(r, "unavailable")
        /\ RegistryNow' = RegistryNow
        /\ ListedNow' = ListedNow
    BY ReturnIsAnswered
  <1> QED
    BY <1>1, <1>2, <1>3 DEF Registry!Refuse

(* A PUT or a DELETE that changes nothing still happens at one instant.    *)
LEMMA UnchangedIsPut ==
    ASSUME TypeOK, SafetyInv, AtomicInv, NEW r \in Requests, PutUnchanged(r)
    PROVE  Registry!Put(r)
  <1>1. /\ op[r].name \in Names
        /\ op[r].definition \in Definitions
    BY NamesOfWorkers
  <1>2. lifecycleMutex = r /\ ~closed /\ op[r].kind = "put" /\ ~Registry!Invalid(r)
    BY DEF PutUnchanged, ReturnOnly, Return, Go, SafetyInv, LockingInv, MutexHeld,
           OpenWhileChanging, AtomicInv, CallsMatch, Invalid, Registry!Invalid, PutHolds
  <1>3. RegistryNow[op[r].name] = op[r].definition
    BY <1>1 DEF PutUnchanged, Found, RegistryNow, DefinitionOf
  <1>4. op[r].definition # NoDefinition
    BY <1>1, DistinctAssumption
  <1>5. /\ Registry!Answered(r, "unchanged")
        /\ RegistryNow' = RegistryNow
        /\ ListedNow' = ListedNow
    BY ReturnIsAnswered DEF PutUnchanged
  <1>6. RegistryNow' = [RegistryNow EXCEPT ![op[r].name] = op[r].definition]
    BY <1>3, <1>5 DEF RegistryNow
  <1>7. ~ClosedNow
    BY <1>2 DEF ClosedNow
  <1> QED
    BY <1>2, <1>3, <1>4, <1>5, <1>6, <1>7 DEF Registry!Put

LEMMA NotFoundIsDelete ==
    ASSUME TypeOK, SafetyInv, AtomicInv, NEW r \in Requests, DeleteNotFound(r)
    PROVE  Registry!Delete(r)
  <1>1. op[r].name \in Names
    BY NamesOfWorkers
  <1>2. lifecycleMutex = r /\ ~closed /\ op[r].kind = "delete"
    BY DEF DeleteNotFound, ReturnOnly, Return, Go, SafetyInv, LockingInv, MutexHeld,
           OpenWhileChanging, AtomicInv, CallsMatch, DeleteHolds
  <1>3. RegistryNow[op[r].name] = NoDefinition
    BY <1>1 DEF DeleteNotFound, Found, RegistryNow, DefinitionOf
  <1>4. /\ Registry!Answered(r, "notFound")
        /\ RegistryNow' = RegistryNow
        /\ ListedNow' = ListedNow
    BY ReturnIsAnswered DEF DeleteNotFound
  <1>5. RegistryNow' = [RegistryNow EXCEPT ![op[r].name] = NoDefinition]
    BY <1>3, <1>4 DEF RegistryNow
  <1>6. ~ClosedNow
    BY <1>2 DEF ClosedNow
  <1> QED
    BY <1>2, <1>3, <1>4, <1>5, <1>6 DEF Registry!Delete

LEMMA DeleteStoreIsDelete ==
    ASSUME TypeOK, SafetyInv, AtomicInv, NEW r \in Requests, DeleteStore(r)
    PROVE  Registry!Delete(r)
  <1> DEFINE n == op[r].name
  <1> USE DEF DeleteStore, Return, Go, TypeOK
  <1>1. n \in Names
    BY NamesOfWorkers
  <1>2. lifecycleMutex = r /\ ~closed /\ op[r].kind = "delete"
    BY DEF SafetyInv, LockingInv, MutexHeld, OpenWhileChanging, AtomicInv, CallsMatch,
           DeleteHolds
  <1>3. answer[r] = "pending"
    BY DEF SafetyInv, PolledInv, PendingHasNoPoller
  <1>4. clusterWorkers[n] # NoWorker
    BY DEF SafetyInv, PolledInv, PreviousIsRegistered, LookedUp, AtomicInv, CallsMatch
  <1>5. RegistryNow[n] \in Definitions
    BY <1>1, <1>4 DEF RegistryNow, DefinitionOf, AtomicInv, RegisteredAreDefined
  <1>6. RegistryNow' = [RegistryNow EXCEPT ![n] = NoDefinition]
    BY <1>1 DEF RegistryNow, DefinitionOf, EntryRemoved, workerVars
  <1>7. ListedNow' = ListedNow
    BY <1>3 DEF ListedNow
  <1>8. ClosedNow' = ClosedNow /\ ~ClosedNow
    BY <1>2, DistinctAssumption DEF ClosedNow, Processes
  <1> QED
    BY <1>2, <1>3, <1>5, <1>6, <1>7, <1>8, DistinctAssumption
    DEF Registry!Delete, Registry!Answered

(* The copy a GET returns is the map of the instant at which it returns.   *)
LEMMA ReturnIsGet ==
    ASSUME TypeOK, SafetyInv, AtomicInv, NEW r \in Requests, GetReturns(r)
    PROVE  Registry!Get(r)
  <1> USE DEF GetReturns, Go, TypeOK
  <1>1. op[r].kind = "get" /\ answer[r] = "pending"
    BY DEF AtomicInv, CallsMatch, SafetyInv, PolledInv, PendingHasNoPoller
  <1>2. listed[r] = RegistryNow
    <2>1. \A n \in Names : listed[r][n] = DefinitionOf(n)
      BY DEF AtomicInv, CopyIsCurrent
    <2> QED
      BY <2>1 DEF RegistryNow
  <1>3. RegistryNow' = RegistryNow
    BY DEF RegistryNow, DefinitionOf, managerVars, workerVars
  <1>4. ListedNow' = [ListedNow EXCEPT ![r] = RegistryNow]
    BY <1>2 DEF ListedNow
  <1>5. ClosedNow' = ClosedNow
    BY DistinctAssumption DEF ClosedNow, Processes, managerVars
  <1> QED
    BY <1>1, <1>3, <1>4, <1>5 DEF Registry!Get, Registry!Answered, managerVars

LEMMA SwapIsClose ==
    ASSUME TypeOK, SafetyInv, CloseSwaps
    PROVE  Registry!Close
  <1> USE DEF CloseSwaps, Go, TypeOK, Processes
  <1>1. closed /\ ClosedNow'
    BY DEF SafetyInv, LockingInv, CloseTakesAll, ClosedNow
  <1>2. RegistryNow' = [n \in Names |-> NoDefinition]
    BY DEF RegistryNow, DefinitionOf, NoClusters
  <1> QED
    BY <1>1, <1>2 DEF Registry!Close, requestVars, ListedNow

(* Which action of the registry a step is.  Every other step of a call,    *)
(* locking, waiting for an old poller, copying, is unseen.                 *)
LEMMA NextImplementsRegistry ==
    TypeOK /\ SafetyInv /\ ReplacementDiffers /\ AtomicInv /\ [Next]_vars
      => [Registry!Next]_(Registry!vars)
  <1> SUFFICES ASSUME TypeOK, SafetyInv, ReplacementDiffers, AtomicInv, [Next]_vars
               PROVE  Registry!Next \/ UNCHANGED Registry!vars
    OBVIOUS
  <1> USE DistinctAssumption, MovesUnseen
      DEF TypeOK, Go, GoOnly, requestVars, workerVars, lockVars, managerVars, Processes
  <1>1. ASSUME NEW p \in Processes, Arrive(p) PROVE UNCHANGED Registry!vars
    <2>1. CASE p = Main
      <3>1. ~closed
        BY <1>1, <2>1 DEF Arrive, AtomicInv, OnlyCloseCloses
      <3> QED
        BY <1>1, <3>1
        DEF Arrive, Registry!vars, RegistryNow, DefinitionOf, ClosedNow, ListedNow
    <2>2. CASE p # Main
      BY <1>1, <2>2 DEF Arrive
    <2> QED
      BY <2>1, <2>2
  <1>2. ASSUME NEW r \in Requests, PutRejected(r) PROVE Registry!Refuse(r)
    <2>1. op[r].kind # "get" /\ answer[r] = "pending"
      BY <1>2 DEF PutRejected, Invalid, SafetyInv, PolledInv, PendingHasNoPoller
    <2>2. Registry!Invalid(r)
      BY <1>2 DEF PutRejected, Invalid, Registry!Invalid
    <2>3. RegistryNow' = RegistryNow /\ ListedNow' = ListedNow /\ ClosedNow' = ClosedNow
      BY <1>2, <2>1 DEF PutRejected, RegistryNow, DefinitionOf, ListedNow, ClosedNow
    <2> QED
      BY <1>2, <2>1, <2>2, <2>3 DEF PutRejected, Registry!Refuse, Registry!Answered
  <1>3. ASSUME NEW r \in Requests, PutCluster(r)
        PROVE  Registry!Put(r) \/ Registry!Refuse(r) \/ UNCHANGED Registry!vars
    <2>1. CASE PutBegins(r)
      BY <2>1 DEF PutBegins, LockLifecycle
    <2>2. CASE Check(r, "putCheck", "putLookup")
      BY <2>2, UnavailableIsRefused DEF Check
    <2>3. CASE PutUnchanged(r)
      BY <2>3, UnchangedIsPut
    <2>4. CASE PutIsNew(r)
      BY <2>4 DEF PutIsNew
    <2>5. CASE PutReplaces(r)
      BY <2>5 DEF PutReplaces, CancelPrevious
    <2>6. CASE AwaitPrevious(r, "putAwait", "putRecheck")
      BY <2>6 DEF AwaitPrevious
    <2>7. CASE PutRecheck(r)
      BY <2>7, UnavailableIsRefused DEF PutRecheck, Open
    <2>8. CASE LockClusters(r, "putLock", "putStore")
      BY <2>8 DEF LockClusters
    <2>9. CASE PutStore(r)
      BY <2>9, StoreIsPut
    <2>10. CASE PutReturns(r)
      BY <2>10 DEF PutReturns, ReturnOnly, Return
    <2> QED
      BY <1>3, <2>1, <2>2, <2>3, <2>4, <2>5, <2>6, <2>7, <2>8, <2>9, <2>10
      DEF PutCluster
  <1>4. ASSUME NEW r \in Requests, DeleteCluster(r)
        PROVE  Registry!Delete(r) \/ Registry!Refuse(r) \/ UNCHANGED Registry!vars
    <2>1. CASE DeleteBegins(r)
      BY <2>1 DEF DeleteBegins, LockLifecycle
    <2>2. CASE Check(r, "deleteCheck", "deleteLookup")
      BY <2>2, UnavailableIsRefused DEF Check
    <2>3. CASE DeleteNotFound(r)
      BY <2>3, NotFoundIsDelete
    <2>4. CASE CancelPrevious(r, "deleteLookup", "deleteAwait")
      BY <2>4 DEF CancelPrevious
    <2>5. CASE AwaitPrevious(r, "deleteAwait", "deleteLock")
      BY <2>5 DEF AwaitPrevious
    <2>6. CASE LockClusters(r, "deleteLock", "deleteStore")
      BY <2>6 DEF LockClusters
    <2>7. CASE DeleteStore(r)
      BY <2>7, DeleteStoreIsDelete
    <2> QED
      BY <1>4, <2>1, <2>2, <2>3, <2>4, <2>5, <2>6, <2>7 DEF DeleteCluster
  <1>5. ASSUME NEW r \in Requests, GetClusters(r)
        PROVE  Registry!Get(r) \/ UNCHANGED Registry!vars
    <2>1. CASE GetBegins(r)
      BY <2>1 DEF GetBegins
    <2>2. CASE GetCopies(r)
      <3>1. answer[r] = "pending"
        BY <2>2 DEF GetCopies, SafetyInv, PolledInv, PendingHasNoPoller
      <3>2. ListedNow' = ListedNow
        BY <2>2, <3>1 DEF GetCopies, ListedNow
      <3> QED
        BY <2>2, <3>2
        DEF GetCopies, Registry!vars, RegistryNow, DefinitionOf, ClosedNow
    <2>3. CASE GetReturns(r)
      BY <2>3, ReturnIsGet
    <2> QED
      BY <1>5, <2>1, <2>2, <2>3 DEF GetClusters
  <1>6. ASSUME Close PROVE Registry!Close \/ UNCHANGED Registry!vars
    <2> USE DEF Registry!vars, RegistryNow, DefinitionOf, ClosedNow, ListedNow
    <2>1. CASE LockLifecycle(Main, "waiting", "closeCheck")
      BY <2>1 DEF LockLifecycle
    <2>2. CASE CloseMarks
      BY <2>2 DEF CloseMarks, AtomicInv, OnlyCloseCloses
    <2>3. CASE LockClusters(Main, "closeLock", "closeSwap")
      BY <2>3 DEF LockClusters
    <2>4. CASE CloseSwaps
      BY <2>4, SwapIsClose
    <2>5. CASE CloseCancels
      BY <2>5 DEF CloseCancels
    <2>6. CASE CloseReturns
      BY <2>6 DEF CloseReturns
    <2> QED
      BY <1>6, <2>1, <2>2, <2>3, <2>4, <2>5, <2>6 DEF Close
  <1>7. ASSUME NEW w \in Workers, WorkerExits(w) PROVE UNCHANGED Registry!vars
    BY <1>7 DEF WorkerExits
  <1>8. ASSUME CancelApplication PROVE Registry!ShutDown
    BY <1>8
    DEF CancelApplication, Registry!ShutDown, RegistryNow, DefinitionOf, ClosedNow, ListedNow
  <1>9. CASE UNCHANGED vars
    BY <1>9 DEF vars
  <1> QED
    BY <1>1, <1>2, <1>3, <1>4, <1>5, <1>6, <1>7, <1>8, <1>9
    DEF Next, Request, Terminated, Registry!Next

(* cluster_manager.go:50-156: a PUT that cancels and awaits a poller, a     *)
(* DELETE, a GET that copies entry by entry and Close have each the effect  *)
(* and the answer of one instant, whatever overlaps them.                  *)
THEOREM CallsAreAtomic == Spec => ImplementsRegistry
  <1>1. Init => Registry!Init
    <2> SUFFICES ASSUME Init PROVE Registry!Init
      OBVIOUS
    <2>1. RegistryNow \in [Names -> Definitions \cup {NoDefinition}]
      BY OperationsAssumption DEF Init, RegistryNow, DefinitionOf, Workers
    <2>2. ListedNow = [r \in Requests |-> [n \in Names |-> Unread]]
      BY DEF Init, ListedNow
    <2>3. ClosedNow = FALSE
      BY DEF Init, ClosedNow
    <2> QED
      BY <2>1, <2>2, <2>3 DEF Init, Registry!Init
  <1> QED
    BY <1>1, NextImplementsRegistry, Atomicity, PTL
    DEF Spec, ImplementsRegistry, Registry!Spec
=============================================================================
