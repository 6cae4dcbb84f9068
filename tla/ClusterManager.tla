---------------------------- MODULE ClusterManager ----------------------------
(***************************************************************************)
(* poll.ClusterManager (internal/poll/cluster_manager.go): HTTP handlers   *)
(* that call PutCluster, DeleteCluster and GetClusters, main calling       *)
(* Close, and the polling goroutines they start, cancel and wait for.      *)
(*                                                                         *)
(* A request is one call.  A poller is named after what started it: the    *)
(* cluster name for those of NewClusterManager, the request for those of   *)
(* PutCluster, which starts at most one.                                   *)
(***************************************************************************)
EXTENDS FiniteSets

CONSTANTS
    Names, Requests,
    Definitions,        \* connectcluster.Configuration values
    ValidDefinitions,   \* those ValidateConfiguration accepts
    Operations,         \* records [kind, name, definition]
    Main,               \* the goroutine that calls Close
    Nobody,             \* holds a free mutex
    NoWorker, NoDefinition, Unread

Workers == Names \cup Requests
Processes == Requests \cup {Main}

ASSUME OperationsAssumption ==
    /\ Operations \subseteq [kind : {"put", "delete", "get"},
                             name : Names, definition : Definitions]
    /\ ValidDefinitions \subseteq Definitions

ASSUME DistinctAssumption ==
    /\ Names \cap Requests = {}
    /\ Main \notin Requests
    /\ Nobody \notin Processes
    /\ NoWorker \notin Workers
    /\ {NoDefinition, Unread} \cap Definitions = {}
    /\ NoDefinition # Unread

VARIABLES
    op,                   \* what each request asks for
    pc,                   \* where each process is
    lifecycleMutex,       \* its holder
    clustersWriter,       \* the holder of clustersMutex.Lock
    clustersReaders,      \* the holders of clustersMutex.RLock
    clusterWorkers,       \* name -> registered poller
    closed,
    applicationCanceled,  \* applicationContext is done
    definition,           \* per poller, NoDefinition before it is started
    running,              \* pollers whose goroutine has not closed done
    canceled,             \* pollers whose own context was canceled
    previous,             \* per request, the poller its lookup found
    answer,               \* per request, its result
    listed,               \* per request, the copy GetClusters makes
    clusters              \* the map Close took out of the manager

workerVars == <<definition, running, canceled>>
lockVars == <<lifecycleMutex, clustersWriter, clustersReaders>>
managerVars == <<clusterWorkers, closed, applicationCanceled, clusters>>
requestVars == <<op, previous, answer, listed>>
vars == <<pc, lockVars, managerVars, workerVars, requestVars>>

Name(w) == IF w \in Names THEN w ELSE op[w].name

NoClusters == [n \in Names |-> NoWorker]

(* The program points at which PutCluster, DeleteCluster and Close hold    *)
(* lifecycleMutex.                                                         *)
PutHolds == {"putCheck", "putLookup", "putAwait", "putRecheck", "putLock",
             "putStore", "putWarn"}
DeleteHolds == {"deleteCheck", "deleteLookup", "deleteAwait", "deleteLock",
                "deleteStore"}
CloseHolds == {"closeCheck", "closeLock", "closeSwap", "closeCancel", "closeAwait"}

Answers == {"pending", "invalid", "unavailable", "unchanged", "created",
            "replaced", "notFound", "deleted", "listed"}

TypeOK ==
    /\ op \in [Requests -> Operations]
    /\ pc \in [Processes -> {"start", "waiting", "copying", "end"}
                 \cup PutHolds \cup DeleteHolds \cup CloseHolds]
    /\ lifecycleMutex \in Processes \cup {Nobody}
    /\ clustersWriter \in Processes \cup {Nobody}
    /\ clustersReaders \subseteq Requests
    /\ clusterWorkers \in [Names -> Workers \cup {NoWorker}]
    /\ closed \in BOOLEAN
    /\ applicationCanceled \in BOOLEAN
    /\ definition \in [Workers -> Definitions \cup {NoDefinition}]
    /\ running \subseteq Workers
    /\ canceled \subseteq Workers
    /\ previous \in [Requests -> Workers \cup {NoWorker}]
    /\ answer \in [Requests -> Answers]
    /\ listed \in [Requests -> [Names -> Definitions \cup {NoDefinition, Unread}]]
    /\ clusters \in [Names -> Workers \cup {NoWorker}]
-----------------------------------------------------------------------------
(* NewClusterManager has started a poller for every initial definition.    *)
Init ==
    /\ op \in [Requests -> Operations]
    /\ pc = [p \in Processes |-> "start"]
    /\ lifecycleMutex = Nobody
    /\ clustersWriter = Nobody
    /\ clustersReaders = {}
    /\ closed = FALSE
    /\ applicationCanceled = FALSE
    /\ running \in SUBSET Names
    /\ definition \in [Workers -> ValidDefinitions \cup {NoDefinition}]
    /\ \A w \in Workers : definition[w] = NoDefinition <=> w \notin running
    /\ clusterWorkers = [n \in Names |-> IF n \in running THEN n ELSE NoWorker]
    /\ canceled = {}
    /\ previous = [r \in Requests |-> NoWorker]
    /\ answer = [r \in Requests |-> "pending"]
    /\ listed = [r \in Requests |-> [n \in Names |-> Unread]]
    /\ clusters = NoClusters

Go(p, from, to) ==
    /\ pc[p] = from
    /\ pc' = [pc EXCEPT ![p] = to]

GoOnly(p, from, to) ==
    /\ Go(p, from, to)
    /\ UNCHANGED <<lockVars, managerVars, workerVars, requestVars>>

(* The deferred Unlock and the return.                                     *)
Return(r, from, a) ==
    /\ Go(r, from, "end")
    /\ lifecycleMutex' = Nobody
    /\ answer' = [answer EXCEPT ![r] = a]
    /\ UNCHANGED <<clustersReaders, closed, applicationCanceled, clusters,
                   workerVars, op, previous, listed>>

ReturnOnly(r, from, a) ==
    /\ Return(r, from, a)
    /\ UNCHANGED <<clustersWriter, clusterWorkers>>

(* Mutant: nobody is kept out.                                             *)
LifecycleOpen == TRUE

LifecycleFree == lifecycleMutex = Nobody

LockLifecycle(p, from, to) ==
    /\ Go(p, from, to)
    /\ LifecycleFree
    /\ lifecycleMutex' = p
    /\ UNCHANGED <<clustersWriter, clustersReaders, managerVars, workerVars,
                   requestVars>>

(* Mutant: a writer does not wait for readers.                             *)
ClustersUnwritten == clustersWriter = Nobody

ClustersFree == clustersWriter = Nobody /\ clustersReaders = {}

LockClusters(p, from, to) ==
    /\ Go(p, from, to)
    /\ ClustersFree
    /\ clustersWriter' = p
    /\ UNCHANGED <<lifecycleMutex, clustersReaders, managerVars, workerVars,
                   requestVars>>

(* A poller's Poll returned because a context above it is done; its defers *)
(* cancel its context and close done.                                      *)
WorkerExits(w) ==
    /\ w \in running
    /\ w \in canceled \/ applicationCanceled
    /\ running' = running \ {w}
    /\ canceled' = canceled \cup {w}
    /\ UNCHANGED <<pc, lockVars, managerVars, definition, requestVars>>

CancelApplication ==
    /\ ~applicationCanceled
    /\ applicationCanceled' = TRUE
    /\ UNCHANGED <<pc, lockVars, clusterWorkers, closed, clusters, workerVars,
                   requestVars>>
-----------------------------------------------------------------------------
(* A call begins.  PutCluster validates before it waits for anything.      *)
Invalid(r) ==
    op[r].kind = "put" /\ op[r].definition \notin ValidDefinitions

Arrive(p) ==
    /\ p \in Requests => ~Invalid(p)
    /\ GoOnly(p, "start", "waiting")

PutRejected(r) ==
    /\ Go(r, "start", "end")
    /\ Invalid(r)
    /\ answer' = [answer EXCEPT ![r] = "invalid"]
    /\ UNCHANGED <<lockVars, managerVars, workerVars, op, previous, listed>>

(* PutCluster and DeleteCluster: both check, look up, cancel and await.    *)
PutBegins(r) ==
    /\ op[r].kind = "put"
    /\ LockLifecycle(r, "waiting", "putCheck")

DeleteBegins(r) ==
    /\ op[r].kind = "delete"
    /\ LockLifecycle(r, "waiting", "deleteCheck")

(* Mutant: the closed flag is not looked at.                               *)
ContextOpen == ~applicationCanceled

(* Mutant: the application's context is not looked at.                     *)
FlagOpen == ~closed

Open == ~closed /\ ~applicationCanceled

Check(r, from, to) ==
    \/ ~Open /\ ReturnOnly(r, from, "unavailable")
    \/ Open /\ GoOnly(r, from, to)

(* The read lock is taken and released around one map read.                *)
Found(r) == clusterWorkers[op[r].name]

PutUnchanged(r) ==
    /\ clustersWriter = Nobody
    /\ Found(r) # NoWorker
    /\ definition[Found(r)] = op[r].definition
    /\ ReturnOnly(r, "putLookup", "unchanged")

PutIsNew(r) ==
    /\ clustersWriter = Nobody
    /\ Found(r) = NoWorker
    /\ GoOnly(r, "putLookup", "putRecheck")

DeleteNotFound(r) ==
    /\ clustersWriter = Nobody
    /\ Found(r) = NoWorker
    /\ ReturnOnly(r, "deleteLookup", "notFound")

(* Mutant: the old poller is awaited but not canceled.                     *)
CanceledNot(r) == canceled

CanceledWith(r) == canceled \cup {Found(r)}

CancelPrevious(r, from, to) ==
    /\ clustersWriter = Nobody
    /\ Found(r) # NoWorker
    /\ Go(r, from, to)
    /\ previous' = [previous EXCEPT ![r] = Found(r)]
    /\ canceled' = CanceledWith(r)
    /\ UNCHANGED <<lockVars, managerVars, definition, running, op, answer, listed>>

PutReplaces(r) ==
    /\ Found(r) # NoWorker => definition[Found(r)] # op[r].definition
    /\ CancelPrevious(r, "putLookup", "putAwait")

(* Mutant: the old poller is canceled but not awaited.                     *)
PreviousMayRun(r) == TRUE

PreviousIsDone(r) == previous[r] \notin running

AwaitPrevious(r, from, to) ==
    /\ PreviousIsDone(r)
    /\ GoOnly(r, from, to)

(* Mutant: it gives up when the client does, not when the application ends. *)
PutRecheckRequest(r) ==
    \/ ReturnOnly(r, "putRecheck", "unavailable")
    \/ GoOnly(r, "putRecheck", "putLock")

PutRecheck(r) ==
    \/ applicationCanceled /\ ReturnOnly(r, "putRecheck", "unavailable")
    \/ ~applicationCanceled /\ GoOnly(r, "putRecheck", "putLock")

(* startCluster and the store, under clustersMutex; answer is the value    *)
(* PutCluster returns once WarnDuplicateEndpoints has read the map.        *)
PutStore(r) ==
    /\ Go(r, "putStore", "putWarn")
    /\ running' = running \cup {r}
    /\ definition' = [definition EXCEPT ![r] = op[r].definition]
    /\ clusterWorkers' = [clusterWorkers EXCEPT ![op[r].name] = r]
    /\ clustersWriter' = Nobody
    /\ answer' = [answer EXCEPT ![r] = IF previous[r] = NoWorker
                                       THEN "created" ELSE "replaced"]
    /\ UNCHANGED <<lifecycleMutex, clustersReaders, closed, applicationCanceled,
                   clusters, canceled, op, previous, listed>>

PutReturns(r) ==
    /\ clustersWriter = Nobody
    /\ ReturnOnly(r, "putWarn", answer[r])

(* Mutant: the definition is cleared and the entry left in the map.        *)
EntryCleared(r) == [clusterWorkers EXCEPT ![op[r].name] = NoDefinition]

EntryRemoved(r) == [clusterWorkers EXCEPT ![op[r].name] = NoWorker]

DeleteStore(r) ==
    /\ Return(r, "deleteStore", "deleted")
    /\ clusterWorkers' = EntryRemoved(r)
    /\ clustersWriter' = Nobody

PutCluster(r) ==
    \/ PutBegins(r)
    \/ Check(r, "putCheck", "putLookup")
    \/ PutUnchanged(r)
    \/ PutIsNew(r)
    \/ PutReplaces(r)
    \/ AwaitPrevious(r, "putAwait", "putRecheck")
    \/ PutRecheck(r)
    \/ LockClusters(r, "putLock", "putStore")
    \/ PutStore(r)
    \/ PutReturns(r)

DeleteCluster(r) ==
    \/ DeleteBegins(r)
    \/ Check(r, "deleteCheck", "deleteLookup")
    \/ DeleteNotFound(r)
    \/ CancelPrevious(r, "deleteLookup", "deleteAwait")
    \/ AwaitPrevious(r, "deleteAwait", "deleteLock")
    \/ LockClusters(r, "deleteLock", "deleteStore")
    \/ DeleteStore(r)
-----------------------------------------------------------------------------
(* GetClusters copies the map entry by entry under the read lock.          *)
GetBegins(r) ==
    /\ op[r].kind = "get"
    /\ Go(r, "waiting", "copying")
    /\ clustersWriter = Nobody
    /\ clustersReaders' = clustersReaders \cup {r}
    /\ UNCHANGED <<lifecycleMutex, clustersWriter, managerVars, workerVars,
                   requestVars>>

DefinitionOf(n) == IF clusterWorkers[n] = NoWorker THEN NoDefinition
                   ELSE definition[clusterWorkers[n]]

GetCopies(r) ==
    /\ pc[r] = "copying"
    /\ \E n \in Names :
          /\ listed[r][n] = Unread
          /\ listed' = [listed EXCEPT ![r][n] = DefinitionOf(n)]
    /\ UNCHANGED <<pc, lockVars, managerVars, workerVars, op, previous, answer>>

GetReturns(r) ==
    /\ Go(r, "copying", "end")
    /\ \A n \in Names : listed[r][n] # Unread
    /\ clustersReaders' = clustersReaders \ {r}
    /\ answer' = [answer EXCEPT ![r] = "listed"]
    /\ UNCHANGED <<lifecycleMutex, clustersWriter, managerVars, workerVars,
                   op, previous, listed>>

GetClusters(r) == GetBegins(r) \/ GetCopies(r) \/ GetReturns(r)
-----------------------------------------------------------------------------
CloseMarks ==
    /\ Go(Main, "closeCheck", "closeLock")
    /\ closed' = TRUE
    /\ UNCHANGED <<lockVars, clusterWorkers, applicationCanceled, clusters,
                   workerVars, requestVars>>

CloseSwaps ==
    /\ Go(Main, "closeSwap", "closeCancel")
    /\ clusters' = clusterWorkers
    /\ clusterWorkers' = NoClusters
    /\ clustersWriter' = Nobody
    /\ UNCHANGED <<lifecycleMutex, clustersReaders, closed, applicationCanceled,
                   workerVars, requestVars>>

Closing == {clusters[n] : n \in Names} \ {NoWorker}

CloseCancels ==
    /\ Go(Main, "closeCancel", "closeAwait")
    /\ canceled' = canceled \cup Closing
    /\ UNCHANGED <<lockVars, managerVars, definition, running, requestVars>>

CloseReturns ==
    /\ Go(Main, "closeAwait", "end")
    /\ Closing \cap running = {}
    /\ lifecycleMutex' = Nobody
    /\ UNCHANGED <<clustersWriter, clustersReaders, managerVars, workerVars,
                   requestVars>>

(* main calls Close once, so it never finds the manager closed already.    *)
Close ==
    \/ LockLifecycle(Main, "waiting", "closeCheck")
    \/ CloseMarks
    \/ LockClusters(Main, "closeLock", "closeSwap")
    \/ CloseSwaps
    \/ CloseCancels
    \/ CloseReturns

Request(r) == PutCluster(r) \/ DeleteCluster(r) \/ GetClusters(r)

Terminated == (\A p \in Processes : pc[p] = "end") /\ UNCHANGED vars

Next == \/ \E p \in Processes : Arrive(p)
        \/ \E r \in Requests : PutRejected(r) \/ Request(r)
        \/ Close
        \/ \E w \in Workers : WorkerExits(w)
        \/ CancelApplication
        \/ Terminated

Spec == Init /\ [][Next]_vars

(* Calls need not come, but goroutines run.  A process that waits for a    *)
(* mutex waits for those that came before it, and they are finitely many:  *)
(* weak fairness is enough.                                                *)
(* A canceled poller stops: that is CancelStops of Poller.tla.             *)
FairSpec ==
    /\ Spec
    /\ \A r \in Requests : WF_vars(Request(r))
    /\ WF_vars(Close)
    /\ \A w \in Workers : WF_vars(WorkerExits(w))
-----------------------------------------------------------------------------
Registered == {clusterWorkers[n] : n \in Names} \ {NoWorker}

(* README.md:285: "the old poller is canceled and awaited before its       *)
(* replacement starts".  Two pollers of one cluster would restart the same *)
(* connectors with separate backoff histories.                             *)
AtMostOnePoller ==
    \A v, w \in running : Name(v) = Name(w) => v = w

(* Every poller can still be stopped: it is registered under its name, its *)
(* context is canceled, or Close has it in hand.  No request can start one *)
(* that DELETE and Close cannot reach.                                     *)
NoOrphan ==
    \A w \in running :
        \/ w \in Registered
        \/ w \in canceled
        \/ pc[Main] = "closeCancel" /\ w \in Closing

(* A registered cluster is polled, unless the application is stopping or   *)
(* the request that is replacing or deleting the cluster has stopped it.   *)
(* A PUT that has stopped the old poller may leave its entry only because  *)
(* the application ends (lines 83-91); what it then answers, and that the  *)
(* map is as it was, is part of ImplementsRegistry.                        *)
RegisteredArePolled ==
    \A w \in Registered :
        \/ applicationCanceled
        \/ w \in running /\ w \notin canceled
        \/ \E r \in Requests :
              /\ lifecycleMutex = r
              /\ previous[r] = w
              /\ answer[r] = "pending"

(* cluster_manager.go:118: Close "waits for them to exit".  When it has    *)
(* returned nothing polls, and no request that was waiting for a mutex or  *)
(* for an old poller starts a new one afterwards.                          *)
ClosedMeansStopped ==
    pc[Main] = "end" => running = {} /\ Registered = {}

(* README.md:293: when DELETE answers 204, the cluster is not polled.      *)
DeletedMeansStopped ==
    [][\A r \in Requests :
         answer[r] = "pending" /\ answer'[r] = "deleted"
           => \A w \in running' : Name(w) # op[r].name]_vars

(* README.md:285: "An identical definition returns 204 without replacing    *)
(* the poller or resetting its history".  A poller gives way only to one of *)
(* another definition, however many identical PUTs overlap or are retried. *)
IdenticalKeepsPoller ==
    [][\A n \in Names :
         clusterWorkers[n] # NoWorker /\ clusterWorkers'[n] \notin {NoWorker, clusterWorkers[n]}
           => definition'[clusterWorkers'[n]] # definition[clusterWorkers[n]]]_vars

(* Why: who holds lifecycleMutex has the registry to itself, and what it   *)
(* has learnt about the registry stays true until it lets go.  The parts   *)
(* are inductive together; ClusterManagerProofs.tla proves it.             *)
MutexHeld ==
    /\ \A r \in Requests :
          /\ pc[r] \in PutHolds \cup DeleteHolds => lifecycleMutex = r
          /\ pc[r] \notin CloseHolds
    /\ pc[Main] \in CloseHolds => lifecycleMutex = Main
    /\ pc[Main] \notin PutHolds \cup DeleteHolds

OpenWhileChanging ==
    \A r \in Requests :
        pc[r] \in (PutHolds \cup DeleteHolds) \ {"putCheck", "deleteCheck", "putWarn"}
          => ~closed

CloseTakesAll ==
    /\ pc[Main] \notin {"closeCancel", "closeAwait", "end"} => clusters = NoClusters
    /\ pc[Main] \in {"closeCancel", "closeAwait", "end"} => clusterWorkers = NoClusters
    /\ pc[Main] \in {"closeLock", "closeSwap", "closeCancel", "closeAwait", "end"}
         => closed
    /\ pc[Main] = "closeAwait" => Closing \subseteq canceled
    /\ pc[Main] = "end" => running = {}

OneOwner ==
    \A w \in running : clusterWorkers[Name(w)] = w \/ clusters[Name(w)] = w

ReplacedHasStopped ==
    \A r \in Requests :
        /\ pc[r] \in {"putAwait", "deleteAwait"}
             => previous[r] = clusterWorkers[op[r].name]
        /\ pc[r] \in {"putRecheck", "putLock", "putStore", "deleteLock", "deleteStore"}
             => clusterWorkers[op[r].name] \notin running

LockingInv == /\ MutexHeld
              /\ OpenWhileChanging
              /\ CloseTakesAll
              /\ OneOwner
              /\ ReplacedHasStopped

(* What RegisteredArePolled rests on: a poller is registered under its own *)
(* name only, a request's poller exists from the store on, and what a      *)
(* request has looked up is what the map still holds when it acts on it.   *)
RegisteredUnderName ==
    \A n \in Names : clusterWorkers[n] # NoWorker => Name(clusterWorkers[n]) = n

PendingHasNoPoller ==
    \A r \in Requests :
        /\ pc[r] \notin {"putWarn", "end"} => answer[r] = "pending"
        /\ pc[r] = "putWarn" => answer[r] # "pending"
        /\ answer[r] = "pending"
             => r \notin running \cup canceled \cup Registered \cup Closing

LookedUp == {"putAwait", "putRecheck", "putLock", "putStore",
             "deleteAwait", "deleteLock", "deleteStore"}

PreviousIsRegistered ==
    \A r \in Requests :
        /\ pc[r] \in LookedUp => previous[r] = clusterWorkers[op[r].name]
        /\ pc[r] \notin LookedUp \cup {"putWarn", "end"} => previous[r] = NoWorker

PolledInv == /\ RegisteredArePolled
             /\ RegisteredUnderName
             /\ PendingHasNoPoller
             /\ PreviousIsRegistered
SafetyInv == LockingInv /\ PolledInv

(* What IdenticalKeepsPoller rests on: the definition that a PUT compared   *)
(* before it canceled the old poller is still the one it replaces.         *)
ReplacementDiffers ==
    \A r \in Requests :
        pc[r] \in {"putAwait", "putRecheck", "putLock", "putStore"}
          => previous[r] = NoWorker \/ definition[previous[r]] # op[r].definition

(* What the refinement below rests on: a change of the map excludes the    *)
(* readers, so a copy under way never goes out of date; each call follows  *)
(* its own path; what is registered is defined; only Close closes.         *)
ClustersHeld ==
    /\ \A r \in Requests :
          /\ pc[r] \in {"putStore", "deleteStore"} => clustersWriter = r
          /\ pc[r] = "copying" => r \in clustersReaders
    /\ pc[Main] = "closeSwap" => clustersWriter = Main
    /\ clustersWriter # Nobody => clustersReaders = {}

CallsMatch ==
    \A r \in Requests :
        /\ pc[r] = "waiting" => ~Invalid(r)
        /\ pc[r] \in PutHolds => op[r].kind = "put" /\ ~Invalid(r)
        /\ pc[r] \in DeleteHolds => op[r].kind = "delete"
        /\ pc[r] = "copying" => op[r].kind = "get"
        /\ pc[r] \in {"deleteAwait", "deleteLock", "deleteStore"}
             => previous[r] # NoWorker

RegisteredAreDefined ==
    \A n \in Names :
        clusterWorkers[n] # NoWorker => definition[clusterWorkers[n]] \in Definitions

CopyIsCurrent ==
    \A r \in Requests :
        /\ pc[r] \in {"start", "waiting"} => listed[r] = [n \in Names |-> Unread]
        /\ pc[r] = "copying"
             => \A n \in Names : listed[r][n] \in {Unread, DefinitionOf(n)}

OnlyCloseCloses == pc[Main] \in {"start", "waiting", "closeCheck"} => ~closed

AtomicInv == /\ ClustersHeld
             /\ CallsMatch
             /\ RegisteredAreDefined
             /\ CopyIsCurrent
             /\ OnlyCloseCloses

(* Requests are atomic for their callers: the answers are those of a map   *)
(* that each request reads and changes at one instant.  Close takes effect *)
(* when it swaps the map, a GET when it returns its copy.                  *)
RegistryNow == [n \in Names |-> DefinitionOf(n)]

ClosedNow == closed /\ pc[Main] \notin {"closeLock", "closeSwap"}

ListedNow == [r \in Requests |-> IF answer[r] = "listed" THEN listed[r]
                                 ELSE [n \in Names |-> Unread]]

Registry == INSTANCE ClusterRegistry WITH
    registry <- RegistryNow,
    shuttingDown <- applicationCanceled,
    closed <- ClosedNow,
    listed <- ListedNow

ImplementsRegistry == Registry!Spec

(* Every call returns, main's Close included, whoever else is waiting for  *)
(* a mutex, a poller or a context.                                         *)
CallsReturn == \A p \in Processes : pc[p] = "waiting" ~> pc[p] = "end"
=============================================================================
