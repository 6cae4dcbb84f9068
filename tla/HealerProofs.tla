----------------------------- MODULE HealerProofs -----------------------------
(***************************************************************************)
(* Theorems about the whole process, for any clusters, requests and        *)
(* definitions.  It makes steps of ClusterManager only, so what            *)
(* ClusterManagerProofs proves of the manager holds in the process.        *)
(***************************************************************************)
EXTENDS Healer, ClusterManagerProofs

LEMMA InitHealerTypeOK == HealerInit => HealerTypeOK
  <1> SUFFICES ASSUME HealerInit PROVE HealerTypeOK
    OBVIOUS
  <1>1. TypeOK
    BY InitTypeOK DEF HealerInit
  <1>2. /\ conn \in [Requests -> Connections]
        /\ reply \in [Requests -> Replies]
    BY DEF HealerInit, Connections, Replies
  <1> QED
    BY <1>1, <1>2 DEF HealerInit, HealerTypeOK, Sharing

(* Each step of the process is a step of the cluster manager or none.      *)
LEMMA ManagerStep == HealerNext => [Next]_vars
  <1> SUFFICES ASSUME HealerNext PROVE [Next]_vars
    OBVIOUS
  <1>1. CASE MainStep
    <2>1. CASE MainCloses
      BY <2>1 DEF MainCloses, Next, Processes
    <2>2. CASE ~MainCloses
      BY <1>1, <2>2 DEF MainStep, ShutdownBegins, ShutdownCompletes, ShutdownFails,
                        ConnectionsClosed, ProcessEnds, Advance
    <2> QED
      BY <2>1, <2>2
  <1>2. CASE GraceExpires \/ LoggingStops
    BY <1>2 DEF GraceExpires, LoggingStops
  <1>3. CASE ServerStep
    BY <1>3 DEF ServerStep, ServerStarts, ServerStops, ServerFails, Listens,
                CanceledByServer, vars, managerVars
  <1>4. CASE Signal
    <2>1. CASE applicationCanceled
      BY <1>4, <2>1 DEF Signal, vars, managerVars, TypeOK
    <2>2. CASE ~applicationCanceled
      BY <1>4, <2>2 DEF Signal, Next, CancelApplication
    <2> QED
      BY <2>1, <2>2
  <1>5. ASSUME NEW w \in Workers, PollerExits(w) PROVE Next
    BY <1>5 DEF PollerExits, Next
  <1>6. ASSUME NEW r \in Requests,
               ClientConnects(r) \/ ConnectionLost(r) \/ RequestBegins(r)
                 \/ Refuse(r) \/ Reply(r)
        PROVE  UNCHANGED vars
    BY <1>6 DEF ClientConnects, ConnectionLost, RequestBegins, Connected,
                Refuse, Reply, HandlerReturns
  <1>7. ASSUME NEW r \in Requests, Handle(r) PROVE Next
    BY <1>7 DEF Handle, Next, Processes
  <1>8. CASE Ended
    BY <1>8 DEF Ended, healerVars
  <1> QED
    BY <1>1, <1>2, <1>3, <1>4, <1>5, <1>6, <1>7, <1>8 DEF HealerNext, Serve

LEMMA ManagerBox == [HealerNext]_healerVars => [Next]_vars
  BY ManagerStep DEF healerVars

(* main.go:56-125 uses the cluster manager as cluster_manager.go expects:  *)
(* all it does to it, in any order with its server, is a behaviour of      *)
(* ClusterManager.                                                         *)
THEOREM ProcessIsClusterManager == HealerSpec => Spec
  <1>1. HealerInit => Init
    BY DEF HealerInit
  <1> QED
    BY <1>1, ManagerBox, PTL DEF HealerSpec, Spec

(* What holds of the manager holds of the process.                         *)
THEOREM ManagerIsSafe ==
    HealerSpec => [](TypeOK /\ SafetyInv /\ ClosedMeansStopped /\ RegisteredArePolled)
  BY ProcessIsClusterManager, Safety, NothingPollsAfterClose, RegisteredStayPolled, PTL

(* internal/api/clusters: to the handlers, however many are under way and  *)
(* whatever main does meanwhile, each call of the manager is one step.     *)
THEOREM RequestsAreAtomic == HealerSpec => ImplementsRegistry
  BY ProcessIsClusterManager, CallsAreAtomic, PTL

LEMMA NextHealerTypeOK ==
    TypeOK /\ HealerTypeOK /\ [HealerNext]_healerVars => HealerTypeOK'
  <1> SUFFICES ASSUME TypeOK, HealerTypeOK, [HealerNext]_healerVars PROVE HealerTypeOK'
    OBVIOUS
  <1>0. TypeOK'
    BY ManagerBox, NextTypeOK
  <1> USE <1>0 DEF HealerTypeOK, Connections, Replies
  <1>1. CASE MainStep
    BY <1>1 DEF MainStep, MainCloses, ShutdownBegins, ShutdownCompletes, ShutdownFails,
                ConnectionsClosed, ProcessEnds, Advance, IdleClosed, Gone, serverVars
  <1>2. CASE GraceExpires \/ LoggingStops \/ Signal
    BY <1>2 DEF GraceExpires, LoggingStops, Signal, serverVars
  <1>3. CASE ServerStep
    BY <1>3 DEF ServerStep, ServerStarts, ServerStops, ServerFails, Listens,
                processVars
  <1>4. ASSUME NEW w \in Workers, PollerExits(w) PROVE HealerTypeOK'
    BY <1>4 DEF PollerExits, processVars, serverVars
  <1>5. ASSUME NEW r \in Requests, ClientConnects(r) \/ ConnectionLost(r) \/ RequestBegins(r)
        PROVE  HealerTypeOK'
    BY <1>5 DEF ClientConnects, ConnectionLost, RequestBegins, Connected, Gone, processVars
  <1>6. ASSUME NEW r \in Requests, Handle(r) PROVE HealerTypeOK'
    BY <1>6 DEF Handle, Sharing, serverVars
  <1>7. ASSUME NEW r \in Requests, Refuse(r) \/ Reply(r) PROVE HealerTypeOK'
    <2>1. StatusOf(answer[r]) \in Replies
      BY DEF StatusOf
    <2> QED
      BY <1>7, <2>1 DEF Refuse, Reply, HandlerReturns, Connected, processVars
  <1>8. CASE UNCHANGED healerVars
    BY <1>8 DEF healerVars, processVars, serverVars
  <1> QED
    BY <1>1, <1>2, <1>3, <1>4, <1>5, <1>6, <1>7, <1>8 DEF HealerNext, Serve, Ended

(* main.go:56-125: every reachable state of the process is well typed.     *)
THEOREM HealerTypeCorrect == HealerSpec => []HealerTypeOK
  BY InitHealerTypeOK, NextHealerTypeOK, ProcessIsClusterManager, TypeCorrect, PTL
  DEF HealerSpec
-----------------------------------------------------------------------------
(* A handler's step touches its own request only.                          *)
LEMMA HandlerFrame ==
    ASSUME TypeOK, NEW r \in Requests, Arrive(r) \/ PutRejected(r) \/ Request(r)
    PROVE  /\ op' = op /\ applicationCanceled' = applicationCanceled
           /\ pc[r] # "end"
           /\ \A p \in Processes \ {r} : pc'[p] = pc[p]
           /\ \A q \in Requests \ {r} : answer'[q] = answer[q]
  <1> USE DEF TypeOK, Go, GoOnly, Return, ReturnOnly, requestVars, managerVars, Processes
  <1>1. CASE Arrive(r)
    BY <1>1 DEF Arrive
  <1>2. CASE PutRejected(r)
    BY <1>2 DEF PutRejected
  <1>3. CASE PutCluster(r)
    BY <1>3 DEF PutCluster, PutBegins, LockLifecycle, Check, PutUnchanged,
                PutIsNew, PutReplaces, CancelPrevious, AwaitPrevious, PutRecheck,
                LockClusters, PutStore, PutReturns
  <1>4. CASE DeleteCluster(r)
    BY <1>4 DEF DeleteCluster, DeleteBegins, LockLifecycle, Check, DeleteNotFound,
                CancelPrevious, AwaitPrevious, LockClusters, DeleteStore
  <1>5. CASE GetClusters(r)
    BY <1>5 DEF GetClusters, GetBegins, GetCopies, GetReturns
  <1> QED
    BY <1>1, <1>2, <1>3, <1>4, <1>5 DEF Request

(* A change that has not passed its check by the time the context is done  *)
(* never passes it.                                                        *)
LEMMA LateHandlerIsRefused ==
    ASSUME TypeOK, NEW r \in Requests, Arrive(r) \/ PutRejected(r) \/ Request(r),
           applicationCanceled, op[r].kind \in {"put", "delete"},
           pc[r] \in {"start", "waiting", "putCheck", "deleteCheck", "end"},
           answer[r] \in {"pending", "invalid", "unavailable"}
    PROVE  /\ pc'[r] \in {"start", "waiting", "putCheck", "deleteCheck", "end"}
           /\ answer'[r] \in {"pending", "invalid", "unavailable"}
  <1> USE DEF TypeOK, Go, GoOnly, Return, ReturnOnly, requestVars, Processes
  <1>1. CASE Arrive(r)
    BY <1>1 DEF Arrive
  <1>2. CASE PutRejected(r)
    BY <1>2 DEF PutRejected
  <1>3. CASE PutCluster(r)
    BY <1>3 DEF PutCluster, PutBegins, LockLifecycle, Check, Open, PutUnchanged,
                PutIsNew, PutReplaces, CancelPrevious, AwaitPrevious, PutRecheck,
                LockClusters, PutStore, PutReturns
  <1>4. CASE DeleteCluster(r)
    BY <1>4 DEF DeleteCluster, DeleteBegins, LockLifecycle, Check, Open, DeleteNotFound,
                CancelPrevious, AwaitPrevious, LockClusters, DeleteStore
  <1>5. CASE GetClusters(r)
    BY <1>5 DEF GetClusters, GetBegins, GetCopies, GetReturns
  <1> QED
    BY <1>1, <1>2, <1>3, <1>4, <1>5 DEF Request

(* main's step in the manager leaves the requests alone, and Close cannot  *)
(* be called twice.                                                        *)
LEMMA MainFrame ==
    ASSUME TypeOK, MutexHeld, MainCloses
    PROVE  /\ op' = op /\ answer' = answer /\ applicationCanceled' = applicationCanceled
           /\ definition' = definition
           /\ pc[Main] # "end"
           /\ \A q \in Requests : pc'[q] = pc[q]
           /\ \A n \in Names : clusterWorkers'[n] \in {NoWorker, clusterWorkers[n]}
  <1> USE DistinctAssumption
      DEF TypeOK, Go, GoOnly, requestVars, managerVars, workerVars, Processes
  <1>1. CASE Arrive(Main)
    BY <1>1 DEF Arrive
  <1>2. CASE Close
    BY <1>2 DEF Close, LockLifecycle, CloseMarks, LockClusters, CloseSwaps,
                CloseCancels, CloseReturns, NoClusters
  <1> QED
    BY <1>1, <1>2 DEF MainCloses

LEMMA NextHealerInv ==
    TypeOK /\ HealerTypeOK /\ SafetyInv /\ HealerInv /\ [HealerNext]_healerVars
      => HealerInv'
  <1> SUFFICES ASSUME TypeOK, HealerTypeOK, SafetyInv, HealerInv, [HealerNext]_healerVars
               PROVE  HealerInv'
    OBVIOUS
  <1> USE DEF HealerInv, ShutdownInv, RequestInv, LateRequestsAreRefused,
              ListenersClosed, ListenerReturned
  <1>0. /\ conn \in [Requests -> Connections] /\ reply \in [Requests -> Replies]
        /\ late \subseteq Requests
        /\ op \in [Requests -> Operations] /\ answer \in [Requests -> Answers]
    BY DEF HealerTypeOK, TypeOK
  <1>1. CASE MainCloses
    <2>1. MutexHeld
      BY DEF SafetyInv, LockingInv
    <2>2. stage = "managing" /\ UNCHANGED <<stage, signaled, expired, logging, serverVars>>
      BY <1>1, <2>1, MainFrame DEF MainCloses
    <2> QED
      BY <1>0, <1>1, <2>1, <2>2, MainFrame DEF serverVars
  <1>2. ASSUME NEW from, NEW to, Advance(from, to)
        PROVE  /\ op' = op /\ answer' = answer /\ applicationCanceled' = applicationCanceled
               /\ pc' = pc /\ reply' = reply /\ late' = late /\ signaled' = signaled
               /\ stage = from /\ stage' = to /\ expired' = expired /\ logging' = logging
               /\ listener' = listener
    BY <1>2 DEF Advance, vars, requestVars, managerVars
  <1>3. CASE ShutdownBegins
    BY <1>0, <1>2, <1>3 DEF ShutdownBegins
  <1>4. CASE ShutdownCompletes
    BY <1>0, <1>2, <1>4 DEF ShutdownCompletes, IdleClosed
  <1>5. CASE ShutdownFails
    <2>1. /\ conn' = IdleClosed /\ inShutdown' = inShutdown /\ expired
          /\ Advance("shutdown", "forcing") /\ ListenersClosed
      BY <1>5 DEF ShutdownFails, ShutdownContextDone
    <2>2. \A r \in Requests : /\ conn'[r] \in {conn[r], "closed"}
                              /\ conn'[r] # "idle"
      BY <1>0, <2>1 DEF IdleClosed
    <2>3. expired' /\ stage = "shutdown" /\ stage' = "forcing"
      BY <1>2, <2>1
    <2> QED
      BY <1>0, <1>2, <2>1, <2>2, <2>3
  <1>6. CASE ConnectionsClosed
    <2>1. \A r \in Requests : /\ conn'[r] \in {"none", "cut", "closed"}
                              /\ conn'[r] = "none" => conn[r] = "none"
      BY <1>0, <1>6 DEF ConnectionsClosed, Gone, Connections
    <2> QED
      BY <1>0, <1>2, <1>6, <2>1 DEF ConnectionsClosed
  <1>7. CASE ProcessEnds
    BY <1>0, <1>2, <1>7 DEF ProcessEnds, WorkersReturned
  <1>8. CASE GraceExpires
    BY <1>0, <1>8 DEF GraceExpires, vars, requestVars, managerVars, serverVars
  <1>9. CASE ServerStep
    BY <1>0, <1>9 DEF ServerStep, ServerStarts, ServerStops, ServerFails, Listens,
                CanceledByServer, vars, requestVars, managerVars, processVars
  <1>10. CASE LoggingStops
    BY <1>0, <1>10 DEF LoggingStops, vars, requestVars, managerVars, serverVars
  <1>11. CASE Signal
    BY <1>0, <1>11 DEF Signal, requestVars, serverVars
  <1>12. ASSUME NEW w \in Workers, PollerExits(w) PROVE HealerInv'
    BY <1>0, <1>12 DEF PollerExits, WorkerExits, requestVars, managerVars,
                 processVars, serverVars
  <1>13. ASSUME NEW r \in Requests, NEW c, Connected(r, c)
         PROVE  /\ op' = op /\ answer' = answer /\ applicationCanceled' = applicationCanceled
                /\ pc' = pc /\ late' = late /\ signaled' = signaled
                /\ stage' = stage /\ expired' = expired /\ logging' = logging
                /\ listener' = listener /\ inShutdown' = inShutdown
                /\ conn' = [conn EXCEPT ![r] = c]
    BY <1>13 DEF Connected, vars, requestVars, managerVars, processVars
  <1>14. ASSUME NEW r \in Requests, ClientConnects(r) PROVE HealerInv'
    <2>1. PICK c \in {"new", "idle"} : Connected(r, c)
      BY <1>14 DEF ClientConnects
    <2>2. conn[r] = "none" /\ listener = "serving" /\ reply' = reply
      BY <1>14 DEF ClientConnects
    <2> QED
      BY <1>0, <2>1, <2>2, <1>13
  <1>15. ASSUME NEW r \in Requests, ConnectionLost(r) PROVE HealerInv'
    <2>1. /\ Connected(r, Gone(conn[r])) /\ reply' = reply
          /\ conn[r] \in {"new", "idle", "active"} /\ Gone(conn[r]) \in {"closed", "cut"}
      BY <1>15 DEF ConnectionLost, Gone
    <2> QED
      BY <1>0, <2>1, <1>13
  <1>16. ASSUME NEW r \in Requests, RequestBegins(r) PROVE HealerInv'
    <2>1. /\ pc' = pc /\ op' = op /\ answer' = answer
          /\ applicationCanceled' = applicationCanceled
          /\ UNCHANGED <<processVars, listener, inShutdown, reply>>
          /\ pc[r] = "start" /\ reply[r] = "none" /\ conn[r] \in {"new", "idle"}
          /\ conn' = [conn EXCEPT ![r] = "active"]
          /\ late' = IF signaled THEN late \cup {r} ELSE late
      BY <1>0, <1>16 DEF RequestBegins, vars, requestVars, managerVars
    <2>2. answer[r] = "pending"
      BY <2>1 DEF SafetyInv, PolledInv, PendingHasNoPoller
    <2> QED
      BY <1>0, <2>1, <2>2 DEF processVars
  <1>17. ASSUME NEW r \in Requests, Handle(r) PROVE HealerInv'
    <2>1. /\ UNCHANGED <<stage, signaled, expired, logging, serverVars>>
          /\ conn[r] \in {"active", "cut"}
          /\ Arrive(r) \/ PutRejected(r) \/ Request(r)
      BY <1>17 DEF Handle, InHandler
    <2>2. /\ op' = op /\ applicationCanceled' = applicationCanceled
          /\ \A q \in Requests \ {r} : pc'[q] = pc[q] /\ answer'[q] = answer[q]
          /\ pc'[Main] = pc[Main]
      BY <2>1, HandlerFrame, DistinctAssumption DEF Processes
    <2>3. r \in late /\ op[r].kind \in {"put", "delete"} =>
            /\ pc'[r] \in {"start", "waiting", "putCheck", "deleteCheck", "end"}
            /\ answer'[r] \in {"pending", "invalid", "unavailable"}
      BY <2>1, LateHandlerIsRefused
    <2> QED
      BY <1>0, <2>1, <2>2, <2>3 DEF serverVars
  <1>18. ASSUME NEW r \in Requests, Refuse(r) \/ Reply(r) PROVE HealerInv'
    <2>1. PICK s \in {"refused", StatusOf(answer[r])} :
              /\ HandlerReturns(r, s)
              /\ s = "refused" \/ s = StatusOf(answer[r])
      BY <1>18 DEF Refuse, Reply
    <2>2. r \in late /\ op[r].kind \in {"put", "delete"} => s \notin {"201", "204", "404"}
      BY <2>1 DEF StatusOf
    <2>3. PICK c \in {"closed", "idle"} :
            /\ Connected(r, c)
            /\ c = "idle" => ~inShutdown
      BY <2>1 DEF HandlerReturns
    <2>4. PICK t \in {s, "lost"} : reply' = [reply EXCEPT ![r] = t] /\ t # "none"
      BY <2>1 DEF HandlerReturns, StatusOf
    <2> QED
      BY <1>0, <2>2, <2>3, <2>4, <1>13
  <1>19. CASE UNCHANGED healerVars
    BY <1>0, <1>19 DEF healerVars, vars, requestVars, managerVars, processVars, serverVars
  <1> QED
    BY <1>1, <1>3, <1>4, <1>5, <1>6, <1>7, <1>8, <1>9, <1>10, <1>11, <1>12,
       <1>14, <1>15, <1>16, <1>17, <1>18, <1>19
    DEF HealerNext, MainStep, Serve, Ended

THEOREM HealerIsSafe == HealerSpec => []HealerInv
  <1>1. HealerInit => HealerInv
    BY DEF HealerInit, Init, HealerInv, ShutdownInv, RequestInv, LateRequestsAreRefused,
           Processes
  <1> QED
    BY <1>1, NextHealerInv, HealerTypeCorrect, ManagerIsSafe, PTL DEF HealerSpec

(* README.md:293: after the signal no PUT or DELETE is told it changed     *)
(* anything, however its steps fall between the signal and Close.          *)
THEOREM LateChangesAreRefused == HealerSpec => []LateRequestsAreRefused
  <1>1. HealerInv => LateRequestsAreRefused
    BY DEF HealerInv
  <1> QED
    BY <1>1, HealerIsSafe, PTL

(* main.go:105-125: pollers, then connections and workers, then the end.   *)
THEOREM ShutdownIsOrdered == HealerSpec => []StopsInOrder
  <1>1. HealerInv /\ ClosedMeansStopped => StopsInOrder
    BY DEF HealerInv, ShutdownInv, ClosedMeansStopped, StopsInOrder
  <1> QED
    BY <1>1, HealerIsSafe, ManagerIsSafe, PTL

(* README.md:50: no handler is left behind before the five seconds.        *)
THEOREM GraceIsGiven == HealerSpec => []ActiveRequestsFinish
  <1>1. HealerInv => ActiveRequestsFinish
    BY DEF HealerInv, ShutdownInv, ActiveRequestsFinish, InHandler
  <1> QED
    BY <1>1, HealerIsSafe, PTL

(* README.md:50, main.go:82-103: only a signal stops the polling; whatever  *)
(* happens to the server, a registered cluster keeps its poller.           *)
THEOREM PollingOutlives == HealerSpec => []PollingOutlivesServer
  <1>1. HealerInv /\ RegisteredArePolled => PollingOutlivesServer
    BY DEF HealerInv, RequestInv, RegisteredArePolled, PollingOutlivesServer
  <1> QED
    BY <1>1, HealerIsSafe, ManagerIsSafe, PTL
-----------------------------------------------------------------------------
(* Fewer clusters, with the definitions they had, share no more endpoints. *)
LEMMA SharingShrinks ==
    ASSUME definition' = definition,
           \A n \in Names : clusterWorkers'[n] \in {NoWorker, clusterWorkers[n]}
    PROVE  Sharing' \subseteq Sharing
  <1>1. ASSUME NEW n \in Names, clusterWorkers'[n] # NoWorker
        PROVE  clusterWorkers[n] = clusterWorkers'[n] /\ EndpointOf(n)' = EndpointOf(n)
    BY <1>1 DEF EndpointOf, DefinitionOf
  <1> QED
    BY <1>1 DEF Sharing

LEMMA SharingStays ==
    definition' = definition /\ clusterWorkers' = clusterWorkers => Sharing' = Sharing
  BY DEF Sharing, EndpointOf, DefinitionOf

(* A handler that is not at PutStore defines and adds nothing, and one     *)
(* that is past it has nothing left to change.                             *)
LEMMA OnlyStoreDefines ==
    ASSUME TypeOK, NEW r \in Requests, Arrive(r) \/ PutRejected(r) \/ Request(r)
    PROVE  \/ pc'[r] = "putWarn"
           \/ /\ definition' = definition
              /\ \A n \in Names : clusterWorkers'[n] \in {NoWorker, clusterWorkers[n]}
              /\ pc[r] = "putWarn" => clusterWorkers' = clusterWorkers
  <1> USE NamesOfWorkers
      DEF TypeOK, Go, GoOnly, Return, ReturnOnly, workerVars, managerVars, Processes
  <1>1. CASE Arrive(r)
    BY <1>1 DEF Arrive
  <1>2. CASE PutRejected(r)
    BY <1>2 DEF PutRejected
  <1>3. CASE PutCluster(r)
    BY <1>3 DEF PutCluster, PutBegins, LockLifecycle, Check, PutUnchanged,
                PutIsNew, PutReplaces, CancelPrevious, AwaitPrevious, PutRecheck,
                LockClusters, PutStore, PutReturns
  <1>4. CASE DeleteCluster(r)
    BY <1>4 DEF DeleteCluster, DeleteBegins, LockLifecycle, Check, DeleteNotFound,
                CancelPrevious, AwaitPrevious, LockClusters, DeleteStore, EntryRemoved
  <1>5. CASE GetClusters(r)
    BY <1>5 DEF GetClusters, GetBegins, GetCopies, GetReturns
  <1> QED
    BY <1>1, <1>2, <1>3, <1>4, <1>5 DEF Request

(* files.go:47-67, cluster_manager.go:92: no order of PUTs, DELETEs and    *)
(* Close leaves two clusters on one endpoint without a warning.            *)
THEOREM SharingIsWarned == HealerSpec => []SharedEndpointsAreWarned
  <1>1. HealerInit => SharedEndpointsAreWarned
    BY DEF HealerInit, SharedEndpointsAreWarned
  <1>2. TypeOK /\ SafetyInv /\ SharedEndpointsAreWarned /\ [HealerNext]_healerVars
          => SharedEndpointsAreWarned'
    <2> SUFFICES ASSUME TypeOK, SafetyInv, SharedEndpointsAreWarned,
                        [HealerNext]_healerVars
                 PROVE  SharedEndpointsAreWarned'
      OBVIOUS
    <2>1. CASE MainCloses
      <3>1. /\ Sharing' \subseteq Sharing
            /\ \A q \in Requests : pc'[q] = pc[q]
        BY <2>1, MainFrame, SharingShrinks DEF SafetyInv, LockingInv
      <3>2. warned' = warned \cap Sharing'
        BY <2>1 DEF MainCloses
      <3> QED
        BY <3>1, <3>2 DEF SharedEndpointsAreWarned
    <2>2. ASSUME NEW r \in Requests, Handle(r) PROVE SharedEndpointsAreWarned'
      <3>1. /\ Arrive(r) \/ PutRejected(r) \/ Request(r)
            /\ warned' = (IF pc[r] = "putWarn" THEN Sharing ELSE warned) \cap Sharing'
        BY <2>2 DEF Handle, WarnDuplicateEndpoints
      <3>2. \A q \in Requests \ {r} : pc'[q] = pc[q]
        BY <3>1, HandlerFrame, DistinctAssumption DEF Processes
      <3>3. CASE pc'[r] = "putWarn"
        BY <3>3 DEF SharedEndpointsAreWarned
      <3>4. CASE pc'[r] # "putWarn"
        <4>1. /\ Sharing' \subseteq Sharing
              /\ definition' = definition
              /\ pc[r] = "putWarn" => clusterWorkers' = clusterWorkers
          BY <3>1, <3>4, OnlyStoreDefines, SharingShrinks
        <4> QED
          BY <3>1, <3>2, <4>1 DEF SharedEndpointsAreWarned
      <3> QED
        BY <3>3, <3>4
    <2>3. ASSUME UNCHANGED <<pc, definition, clusterWorkers, warned>>
          PROVE  SharedEndpointsAreWarned'
      BY <2>3, SharingStays DEF SharedEndpointsAreWarned
    <2>4. ASSUME MainStep \/ GraceExpires \/ LoggingStops \/ ServerStep \/ Signal
                   \/ Ended \/ UNCHANGED healerVars,
                 ~MainCloses
          PROVE  UNCHANGED <<pc, definition, clusterWorkers, warned>>
      BY <2>4 DEF MainStep, ShutdownBegins, ShutdownCompletes, ShutdownFails,
          ConnectionsClosed, ProcessEnds, Advance, GraceExpires, LoggingStops,
          ServerStep, ServerStarts, ServerStops, ServerFails, Listens, Signal, Ended,
          healerVars, processVars, vars, workerVars, managerVars
    <2>5. ASSUME NEW w \in Workers, PollerExits(w)
          PROVE  UNCHANGED <<pc, definition, clusterWorkers, warned>>
      BY <2>5 DEF PollerExits, WorkerExits, processVars, managerVars
    <2>6. ASSUME NEW r \in Requests,
                 ClientConnects(r) \/ ConnectionLost(r) \/ RequestBegins(r)
                   \/ Refuse(r) \/ Reply(r)
          PROVE  UNCHANGED <<pc, definition, clusterWorkers, warned>>
      BY <2>6 DEF ClientConnects, ConnectionLost, RequestBegins, Connected, Refuse,
          Reply, HandlerReturns, processVars, vars, workerVars, managerVars
    <2> QED
      BY <2>1, <2>2, <2>3, <2>4, <2>5, <2>6 DEF HealerNext, Serve
  <1> QED
    BY <1>1, <1>2, ManagerIsSafe, PTL DEF HealerSpec
=============================================================================
