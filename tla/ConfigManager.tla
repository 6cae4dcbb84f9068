---------------------------- MODULE ConfigManager ----------------------------
(***************************************************************************)
(* config.Manager (internal/config/manager.go) at the grain of its lock:   *)
(* handlers that call UpdateConfiguration, handlers that call              *)
(* GetConfiguration, and the goroutines that watch the configuration,      *)
(* every poller (poll.go:34, 52-54) and the worker that sets the logging   *)
(* level (main.go:89-99).                                                  *)
(*                                                                         *)
(* The lock is a sync.RWMutex: a writer first keeps other writers and new  *)
(* readers out, then waits for the readers inside.                         *)
(*                                                                         *)
(* A PATCH is what its callback does to a configuration: a function from   *)
(* configurations to configurations or Rejected.  A channel is a number:   *)
(* the manager makes 0, 1, 2, ... and each is closed at most once.         *)
(***************************************************************************)
EXTENDS Integers

CONSTANTS
    Patchers, Watchers,
    Getters,          \* each stands for GET requests without end, in a row
    Configurations,   \* ApplicationConfigurations, valid or not
    Valid,            \* those ValidateConfiguration accepts
    APIConfig,        \* the startup-only part of each configuration
    Changes,          \* what the callbacks may do
    Rejected,         \* the callback returned an error
    Nobody            \* holds the free lock

Readers == Watchers \cup Getters
Processes == Patchers \cup Readers

ASSUME ConfigurationAssumption ==
    /\ Valid \subseteq Configurations
    /\ Rejected \notin Configurations
    /\ Changes \subseteq [Configurations -> Configurations \cup {Rejected}]

ASSUME ProcessAssumption ==
    /\ Patchers \cap Readers = {}
    /\ Watchers \cap Getters = {}
    /\ Nobody \notin Processes

VARIABLES
    change,         \* per patcher, its callback
    pc,
    writer, readers,\* configurationMutex; a waiting writer is the writer
    configuration,
    channel,        \* configurationUpdateChannel
    closedChannels,
    next,           \* per patcher, nextConfiguration
    answer,         \* per patcher
    read,           \* per watcher, the configuration half of a snapshot
    copy, held      \* per watcher, the configuration and channel it uses

lockVars == <<writer, readers>>
managerVars == <<configuration, channel, closedChannels>>
patcherVars == <<change, next, answer>>
watcherVars == <<read, copy, held>>
vars == <<pc, lockVars, managerVars, patcherVars, watcherVars>>

PatcherHolds == {"edit", "assign", "close", "renew"}
WatcherHolds == {"readConfiguration", "readChannel"}

TypeOK ==
    /\ change \in [Patchers -> Changes]
    /\ pc \in [Processes -> {"start", "waiting", "draining", "get", "select", "end"}
                              \cup PatcherHolds \cup WatcherHolds]
    /\ writer \in Patchers \cup {Nobody}
    /\ readers \subseteq Readers
    /\ configuration \in Configurations
    /\ channel \in Nat
    /\ closedChannels \subseteq Nat
    /\ next \in [Patchers -> Configurations]
    /\ answer \in [Patchers -> {"pending", "accepted", "rejected"}]
    /\ read \in [Watchers -> Configurations]
    /\ copy \in [Watchers -> Configurations]
    /\ held \in [Watchers -> Nat]

(* NewManager, and watchers that have taken their first snapshot.          *)
Init ==
    /\ change \in [Patchers -> Changes]
    /\ pc = [p \in Processes |-> IF p \in Watchers THEN "select" ELSE "start"]
    /\ writer = Nobody
    /\ readers = {}
    /\ configuration \in Valid
    /\ channel = 0
    /\ closedChannels = {}
    /\ next = [p \in Patchers |-> configuration]
    /\ answer = [p \in Patchers |-> "pending"]
    /\ read = [w \in Watchers |-> configuration]
    /\ copy = read
    /\ held = [w \in Watchers |-> 0]

Go(p, from, to) ==
    /\ pc[p] = from
    /\ pc' = [pc EXCEPT ![p] = to]
-----------------------------------------------------------------------------
(* UpdateConfiguration                                                     *)
Arrive(p) ==
    /\ Go(p, "start", "waiting")
    /\ UNCHANGED <<lockVars, managerVars, patcherVars, watcherVars>>

(* Mutant: patches do not keep each other out.                             *)
AnnounceNothing(p) ==
    /\ Go(p, "waiting", "draining")
    /\ UNCHANGED <<lockVars, managerVars, patcherVars, watcherVars>>

Announce(p) ==
    /\ Go(p, "waiting", "draining")
    /\ writer = Nobody
    /\ writer' = p
    /\ UNCHANGED <<readers, managerVars, patcherVars, watcherVars>>

Lock(p) ==
    /\ Go(p, "draining", "edit")
    /\ readers = {}
    /\ UNCHANGED <<lockVars, managerVars, patcherVars, watcherVars>>

UnlockAndReturn(p, a) ==
    /\ writer' = Nobody
    /\ answer' = [answer EXCEPT ![p] = a]

Edited(p) == change[p][configuration]

(* Mutant: the callback's error is not looked at.                          *)
AcceptableOrError(old, new) ==
    \/ new = Rejected
    \/ new \in Valid /\ APIConfig[new] = APIConfig[old]

(* The callback returned no error, validation passes, apiConfig is kept.   *)
Acceptable(old, new) ==
    /\ new \in Valid
    /\ APIConfig[new] = APIConfig[old]

(* Mutant: the way out of an error forgets to unlock.                      *)
RejectedLocked(p) ==
    /\ Go(p, "edit", "end")
    /\ ~Acceptable(configuration, Edited(p))
    /\ answer' = [answer EXCEPT ![p] = "rejected"]
    /\ UNCHANGED <<lockVars, managerVars, change, next, watcherVars>>

EditRejected(p) ==
    /\ Go(p, "edit", "end")
    /\ ~Acceptable(configuration, Edited(p))
    /\ UnlockAndReturn(p, "rejected")
    /\ UNCHANGED <<readers, managerVars, change, next, watcherVars>>

EditChangesNothing(p) ==
    /\ Go(p, "edit", "end")
    /\ Edited(p) = configuration
    /\ Acceptable(configuration, Edited(p))
    /\ UnlockAndReturn(p, "accepted")
    /\ UNCHANGED <<readers, managerVars, change, next, watcherVars>>

EditAccepted(p) ==
    /\ Go(p, "edit", "assign")
    /\ Edited(p) # configuration
    /\ Acceptable(configuration, Edited(p))
    /\ next' = [next EXCEPT ![p] = Edited(p)]
    /\ UNCHANGED <<lockVars, managerVars, change, answer, watcherVars>>

Assign(p) ==
    /\ Go(p, "assign", "close")
    /\ configuration' = next[p]
    /\ UNCHANGED <<lockVars, channel, closedChannels, patcherVars, watcherVars>>

(* Mutant: the watchers are not told.                                      *)
CloseNothing(p) ==
    /\ Go(p, "close", "renew")
    /\ UNCHANGED <<lockVars, managerVars, patcherVars, watcherVars>>

Close(p) ==
    /\ Go(p, "close", "renew")
    /\ closedChannels' = closedChannels \cup {channel}
    /\ UNCHANGED <<lockVars, configuration, channel, patcherVars, watcherVars>>

(* Mutant: the closed channel stays in place.                              *)
KeepChannel(p) ==
    /\ Go(p, "renew", "end")
    /\ UnlockAndReturn(p, "accepted")
    /\ UNCHANGED <<readers, managerVars, change, next, watcherVars>>

Renew(p) ==
    /\ Go(p, "renew", "end")
    /\ channel' = channel + 1
    /\ UnlockAndReturn(p, "accepted")
    /\ UNCHANGED <<readers, configuration, closedChannels, change, next,
                   watcherVars>>

UpdateConfiguration(p) ==
    \/ Announce(p) \/ Lock(p)
    \/ EditRejected(p) \/ EditChangesNothing(p) \/ EditAccepted(p)
    \/ Assign(p) \/ Close(p) \/ Renew(p)
-----------------------------------------------------------------------------
(* Mutant: readers do not lock.                                            *)
RLockNothing(p, from, to) ==
    /\ Go(p, from, to)
    /\ UNCHANGED <<lockVars, managerVars, patcherVars, watcherVars>>

(* No reader overtakes a writer that waits.  Once it has left, Go lets the *)
(* readers that waited in before the next writer; here either may be first. *)
RLock(p, from, to) ==
    /\ Go(p, from, to)
    /\ writer = Nobody
    /\ readers' = readers \cup {p}
    /\ UNCHANGED <<writer, managerVars, patcherVars, watcherVars>>

(* GetConfiguration: what it returns is not kept, but it makes writers wait. *)
GetReturns(g) ==
    /\ Go(g, "get", "start")
    /\ readers' = readers \ {g}
    /\ UNCHANGED <<writer, managerVars, patcherVars, watcherVars>>

GetConfiguration(g) == RLock(g, "start", "get") \/ GetReturns(g)

(* The watchers' loop: a closed channel, then ConfigurationSnapshot.       *)
Wake(w) ==
    /\ Go(w, "select", "waiting")
    /\ held[w] \in closedChannels
    /\ UNCHANGED <<lockVars, managerVars, patcherVars, watcherVars>>

ReadConfiguration(w) ==
    /\ Go(w, "readConfiguration", "readChannel")
    /\ read' = [read EXCEPT ![w] = configuration]
    /\ UNCHANGED <<lockVars, managerVars, patcherVars, copy, held>>

ReadChannel(w) ==
    /\ Go(w, "readChannel", "select")
    /\ held' = [held EXCEPT ![w] = channel]
    /\ copy' = [copy EXCEPT ![w] = read[w]]
    /\ readers' = readers \ {w}
    /\ UNCHANGED <<writer, managerVars, patcherVars, read>>

ConfigurationSnapshot(w) ==
    RLock(w, "waiting", "readConfiguration") \/ ReadConfiguration(w) \/ ReadChannel(w)

(* The watcher's context is done: a cluster is removed, or all stops.      *)
Leave(w) ==
    /\ Go(w, "select", "end")
    /\ UNCHANGED <<lockVars, managerVars, patcherVars, watcherVars>>

Watch(w) == Wake(w) \/ ConfigurationSnapshot(w)

Quiet ==
    /\ \A p \in Patchers : pc[p] = "end"
    /\ \A w \in Watchers : pc[w] \in {"select", "end"}
    /\ UNCHANGED vars

Next == \/ \E p \in Patchers : Arrive(p) \/ UpdateConfiguration(p)
        \/ \E w \in Watchers : Watch(w) \/ Leave(w)
        \/ \E g \in Getters : GetConfiguration(g)
        \/ Quiet

Spec == Init /\ [][Next]_vars

(* Requests need not come and watchers need not leave, but who holds the   *)
(* lock goes on.  Updates are finitely many; GETs need not be.             *)
FairSpec ==
    /\ Spec
    /\ \A p \in Patchers : WF_vars(UpdateConfiguration(p))
    /\ \A w \in Watchers : WF_vars(Watch(w))
    /\ \A g \in Getters : WF_vars(GetReturns(g))
-----------------------------------------------------------------------------
(* Two patches that are valid against the same old configuration need not  *)
(* be valid together (one raises baseDelay, one lowers maxDelay): what is  *)
(* stored has passed validation as a whole (manager.go:42-55).  A part of  *)
(* SafetyInv below.                                                        *)
StoredIsValid == configuration \in Valid

(* manager.go:46: no sequence of patches changes the API's credentials.    *)
(* ImplementsConfigCell says it too, with every other promise.             *)
APIConfigIsStartupOnly ==
    [][APIConfig[configuration'] = APIConfig[configuration]]_vars

(* manager.go:55-57: closing a closed channel would panic under the lock.  *)
ChannelClosedOnce ==
    \A p \in Patchers : pc[p] = "close" => channel \notin closedChannels

(* A watcher waiting on an open channel has the current configuration,     *)
(* unless the update that will close that channel is under way.            *)
WaitingMeansCurrent ==
    \A w \in Watchers :
        /\ pc[w] = "select"
        /\ held[w] \notin closedChannels
        => \/ copy[w] = configuration
           \/ \E p \in Patchers : pc[p] = "close"

(* Why: a writer inside is alone, and the channels that are closed are the *)
(* ones before the current one, but for the writer between close and make. *)
LockInv ==
    /\ \A p \in Patchers :
          /\ pc[p] \in PatcherHolds \cup {"draining"} => writer = p
          /\ pc[p] \in PatcherHolds => readers = {}
          /\ pc[p] \notin WatcherHolds \cup {"select"}
          /\ pc[p] = "assign" => Acceptable(configuration, next[p])
    /\ \A w \in Watchers :
          /\ pc[w] \in WatcherHolds => w \in readers
          /\ pc[w] \notin PatcherHolds
          /\ pc[w] = "readChannel" => read[w] = configuration

Renewing == \E p \in Patchers : pc[p] = "renew"

ChannelInv ==
    /\ closedChannels = 0..(IF Renewing THEN channel ELSE channel - 1)
    /\ \A w \in Watchers :
          /\ held[w] <= channel
          /\ held[w] \notin closedChannels
               => copy[w] = configuration \/ \E p \in Patchers : pc[p] = "close"

SafetyInv == StoredIsValid /\ LockInv /\ ChannelInv

(* What the steps of one patch know of each other: what is to be stored is  *)
(* the edit of the stored configuration, and differs from it.              *)
PatchInv ==
    \A p \in Patchers :
        /\ pc[p] = "assign" => next[p] = Edited(p) /\ next[p] # configuration
        /\ pc[p] # "end" => answer[p] = "pending"

(* For its users the manager is a cell: no PATCH is lost or half applied,  *)
(* no watcher keeps an old copy without being told.  A PATCH has happened  *)
(* once it is assigned; from then on every watcher is as good as told.     *)
Notified == [w \in Watchers |->
               \/ held[w] \in closedChannels
               \/ held[w] = channel /\ \E p \in Patchers : pc[p] = "close"]

Answer == [p \in Patchers |-> IF pc[p] \in {"close", "renew"}
                              THEN "accepted" ELSE answer[p]]

Cell == INSTANCE ConfigCell WITH notified <- Notified, answer <- Answer

ImplementsConfigCell == Cell!Spec

(* README.md:267: a successful update reaches the polling and the logging  *)
(* workers, however many updates come while one of them is busy.           *)
WatchersCatchUp ==
    \A w \in Watchers : <>[](pc[w] = "end" \/ copy[w] = configuration)

(* manager.go:38-40: a PATCH gets the lock and gives it back, whichever way *)
(* it ends, though clients GET the configuration without a pause.          *)
PatchesReturn == \A p \in Patchers : pc[p] = "waiting" ~> pc[p] = "end"
=============================================================================
