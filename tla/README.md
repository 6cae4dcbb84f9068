# Kafka Connect Healer in TLA+

Kafka Connect Healer polls the status of Kafka Connect clusters and restarts
failed connectors and tasks, with a backoff per target. Its settings and its
clusters can be changed over HTTP while it runs. This directory models its
concurrent core, its startup and its API, checks them with TLC, and proves with
TLAPS every safety property that a passing run checks: the invariants, the
action properties and the three refinements. Source paths are relative to the repository; `README.md:n` below means the
repository's own README.

## The system

| Component | State it keeps | Operations | Interacts with |
|---|---|---|---|
| Poller, one goroutine per cluster (`internal/poll/poll.go`) | copy of the configuration, HTTP client timeout, backoff map, ticker, failure history | `Poll`: a select over context, configuration update, tick; a tick runs a fetch, three passes over the snapshot and a loop of restarts | reads the configuration manager; canceled and awaited by the cluster manager; calls Kafka Connect |
| Backoff (`internal/poll/backoff`) | attempts and last attempt per key | update, reset, `IsInBackoffWindow` | used by one poller only |
| Actions, status client (`internal/poll/actions`, `status`, `requests`) | none | `GenerateActionsFromStatuses`, `TakeAction`, `FindConnectorStatuses` | HTTP to Kafka Connect |
| Cluster manager (`internal/poll/cluster_manager.go`) | name to worker, `closed`, two mutexes | `PutCluster`, `DeleteCluster`, `GetClusters`, `Close` | called by HTTP handlers and by main; starts, cancels and awaits pollers |
| Configuration manager (`internal/config/manager.go`) | configuration, update channel, a read-write lock | `UpdateConfiguration`, `ConfigurationSnapshot`, `GetConfiguration` | written by `PATCH /config`, watched by every poller and the logging worker |
| HTTP API (`internal/api`) | none | routes for `/config` and `/clusters`, authentication, strict JSON | calls both managers |
| Startup files and validation (`internal/config`, `internal/connectcluster`, `internal/yamlconfig`) | none | load, overlay, validate | once, before anything runs; validation again for PATCH and PUT |
| Logging worker and process lifetime (`cmd/kafka-connect-healer/main.go`) | logging level | follow the configuration; on a signal close the managers and the server | contexts, `Close`, `Shutdown` |

What is hard here, and what would make each part correct:

- **Poller.** An update may come while a request is out; a request may time out
  after it was accepted; three passes with different rules (missing, paused,
  RUNNING) forget failures from two structures. Correct if it follows the
  documented restart policy, loses no update, reports every recovery, stops
  when canceled and never gives a target up.
- **Backoff.** 64-bit arithmetic in the doubling loop; the very end of a
  window. Correct if the delay is the documented formula.
- **Cluster manager.** Requests overlap, wait for old pollers while they hold a
  mutex, race with Close and with the canceling of the application. Correct if
  there is at most one poller per cluster, none out of reach, none after
  Close, if requests are atomic for their callers, and if all return.
- **Configuration manager.** A notification is a closed channel that must
  belong to the configuration read with it. Correct if it behaves as one cell
  changed by one patch at a time, with watchers that catch up.
- **Files and API bodies.** Four files, two merges, three decoders with
  different rules, defaults in two places, passwords that GET hides. Correct if
  every setting has its documented source, if nothing invalid is ever in force,
  and if what GET shows can be sent back.
- **Start and shutdown.** An order of waits (pollers, handlers, workers), each
  with its own limit, and a server that may fail at any time. Correct if
  pollers end before the server, active requests have their five seconds, late
  requests are refused and a signal always ends the process.
- **Poller and Kafka Connect together.** Snapshots are old when they are acted
  upon; restarts and answers get lost or come late. Correct if what fails is
  restarted in the end, if only failures are restarted, and if a shutdown is
  not told as a failure.

`PROJECT.json` lists each hazard at its line with the properties that cover it.

## Modules

| Module | What it is |
|---|---|
| `Backoff` | pure: entries, window, doubling loop in wrapped arithmetic |
| `Poller` | one poller with the updates, cancellation, time and Kafka Connect around it; extends `Backoff` |
| `RestartPolicy` | abstract: what README.md:236-238 promises about restarts |
| `ClusterManager` | the registry, its mutexes, the calls, the pollers as things that run and end |
| `ClusterRegistry` | abstract: a map on which every request acts at one instant |
| `ConfigManager` | the configuration, its lock and its channels, patchers, watchers and readers |
| `ConfigCell` | abstract: one configuration and out-of-date marks |
| `Healing` | a poller and the Kafka Connect cluster it polls; extends `Poller` |
| `Healer` | the process: main, HTTP server, connections, handlers, logging worker; extends `ClusterManager` |
| `Settings` | pure: types, defaults, strict decoding, files, overlays, validation, endpoint warnings, what GET writes |
| `ConfigAPI` | startup from files, then the requests that read and change settings; extends `Settings` |
| `PowersOfTwo` | the powers of two by recursion, which proofs can unfold |
| `MC*` | constants for TLC; `MCBackoff` also drives the pure module |
| `PollerProofs`, `HealingProofs`, `ClusterManagerProofs`, `HealerProofs`, `ConfigManagerProofs`, `ConfigAPIProofs` | theorems about the module they are named after |
| `BackoffProofs`, `MCBackoffProofs` | lemmas about the doubling loop; the theorem that `backoff_delay` checks |

An operator whose comment starts with "Mutant" is not part of a specification:
it is a plausible bug, put in place of one definition to see the property that
catches it fail.

### Poller and Backoff

`pc` says where the goroutine is: at the select, while the GET is out
(`fetching`), with a snapshot in hand (`fetched`), in the loop over the actions
(`acting`), while a POST is out (`posting`). The goroutine's state is its own,
so nothing finer can be seen from outside. One action per case of the select,
per outcome of the GET, for the three passes and the filter together
(`UseStatuses`, lines 84-91), and per turn of the loop. `UpdateConfiguration`
and `Cancel` may come at any time.

Time is relative: an entry holds the time since its last attempt, and
`elapsed` the time since the request in flight was sent, because the code
reads `AttemptedAt` before it sends and records it after the answer. `Tick`
cannot pass a request's timeout. A ticker keeps at most one tick that nobody
took, and `Reset` discards a waiting tick (Go 1.23 and later; `go.mod` says
1.27).

A target is absent, RUNNING, FAILED or in some other state. A response is a
complete snapshot or no snapshot: a body with a bad entry is rejected as a
whole (`status.go:79-89`). Two entries with one task number in one connector,
which Kafka Connect does not produce, are outside the model. Backoff keys stay
data, because two targets could share one; the map is a total function and a
missing key holds the zero status, as in Go.

Go visits connectors in random order: the loop takes any remaining action.
What a restart is answered only chooses the level of its event, and is left to
`Healing`.

### ClusterManager

`pc` per call, with one step per access to shared state: lifecycle mutex, the
checks, the lookup under the read lock, cancel, wait, the second check, the
write lock, the store, the read for the duplicate warning. The read lock
around a single lookup is one step; GetClusters' copy, entry by entry, holds
it. Go's preference for waiting writers, which `ConfigManager` models, makes no
difference to calls that are finitely many and is left out here. A poller is `running` until its goroutine closes `done`, and may
end only when its context, or the application's, is done. That a canceled
poller ends at all is `CancelStops` of `Poller` and fairness here.

Calls arrive at any time, also before, during and after Close; the model
allows Close without a signal, more than main does. A second Close returns at
line 122 and main makes only one, so it is not modelled.

### ConfigManager

A patch is a function on configurations, or `Rejected`; the three steps of an
accepted update (assign, close, make) are separate, as is each half of a
snapshot, so that the lock is what makes them atomic. Channels are numbers.
Watchers are the pollers and the logging worker, whose loops have the same
shape. `Poller` uses the result: its `notified` flag is the closed channel.

The lock is Go's `sync.RWMutex`: a writer announces itself, which keeps other
writers and new readers out, and then waits for the readers inside (`draining`).
Getters are clients that GET the configuration for ever, one request after the
other; that they cannot starve a PATCH rests on this preference.

### Healing

Targets fail, recover and are paused at any time (`ConnectChanges`, at most
`MaxEvents` times), and `StatusesArrive` reads what they are at that moment. A
POST puts its target in `sent`; Connect performs it before or after its
answer, after the poller gave up waiting, or never. A connector restart takes
the connector's failed tasks along, because its URL says
`includeTasks=true&onlyFailed=true` (`actions.go:45`). `event` is the level at
which the latest step reports, in the order of the switch at
`poll.go:115-126`. `failedSince`, a history variable, collects what was FAILED
since the cycle's tick.

A 409 or an error that came back just before the cancellation is reported at
DEBUG like the canceled requests themselves: README.md:51 puts a quiet shutdown
before the levels of README.md:55-57, and so does the switch.

### Healer

`stage` follows main from line 103: Close (the calls of `ClusterManager`'s
`Main`), `Shutdown`, `server.Close` when the five seconds are over, and
`workers.Wait`. The server goroutine starts, serves, fails or stops on its own.
Each request has a connection with net/http's states (new, idle, active); a
connection may break while its handler runs on, and a forced close cuts it.
Handlers are the manager's calls, with the status they answer. `warned` are the
clusters that endpoint warnings have named. net/http is external and modelled
from how main uses it: `Shutdown` waits for a listener that serves (not for one
still starting, which finds the flag and returns) and for connections to be
idle, `Close` for nothing.

### Settings and ConfigAPI

A document is the set of its nodes, each with the path of keys that leads to
it, its kind, its tag and its text; two entries of a mapping with one key differ
in `nth`. A Go type is a function from paths to kinds (`Typed`), a value of it a
function on the paths that are no structs. So nothing is recursive: an overlay
is one function whose value at a path is the node's if there is one and the
older value if not, and strictness is a statement about all nodes. The kind
"secret" is a string with `omitempty`.

What a text means (a duration, a level, a port, an address) is a table,
undefined where the conversion fails, so that `1m` and `1m0s` are two texts of
one value and GET writes the second. `DecodeBody` and the file decoders give a
set of at most one value. `CheckNode`, `HasNull` and `FieldOf` hold what differs
between YAML, PUT and PATCH. A file is its documents; one that is not there or
does not parse is unreadable.

Four assumptions, which TLC evaluates, say what the libraries' tables are:

- `Conversions`: a duration is read back from the text `Duration.String` writes
  (`duration.go:26`), a level from its name; the defaults of `defaults.go` are
  among the values. That texts are in STRING is said there because a prover
  knows no type of a literal.
- `NamesAreSorted`: names have different places in the order of `slices.Sorted`
  (`files.go:45`).
- `NamesAreExact`: a field's own name is not folded into another field's.
- `InputsAreTyped`: files and bodies are documents, with names that are sorted.

`ConfigAPI` starts from any pair of application files or any pair of cluster
files of its pools, exits or serves, and takes requests one at a time: that
each is one step is what `ConfigCell` and `ClusterRegistry` show. A request
that is refused changes nothing and is no action. `enforced` is what
`basicAuth` captured when the server was made; `seen` is the last body a client
got from `GET /config`, which it may send back after others have patched.

## Runs

| Run | Question | Bounds |
|---|---|---|
| `backoff_delay` | is the loop the documented formula, without overflow? | durations up to 31, 8 attempts: every pair of delays, and doublings past the largest duration |
| `poller` | copies, histories, restarts, recoveries | one connector, one task, all snapshots; three configurations that differ in every field, two updates; ages and attempts to 3, where they are past every window |
| `poller_two_tasks` | cycles of several restarts | two tasks, all snapshots, no update |
| `poller_live` | adoption, stopping, no starvation | the three configurations, one update, RUNNING and FAILED |
| `poller_collision` | are histories separate whatever the names? | two connectors; found violated |
| `healing` | does what fails run again, and only that get restarted? | one connector, one task, RUNNING, FAILED and another state; two changes by others, restarts lost or late |
| `cluster_manager` | one poller, none lost, none after Close, none restarted for nothing | three requests on one cluster, put and delete, two definitions |
| `cluster_registry` | atomic for callers, reads included, and do all return? | two requests on two clusters, an invalid definition |
| `healer` | order and limits of the shutdown; shared endpoints | two PUTs of one definition on two clusters, connections that break, a server that fails |
| `healer_live` | does a signal end the process? | one request of each kind on one cluster |
| `config_manager` | one valid configuration, no missed update, patches that return, watchers that catch up | two of five patches, valid apart and invalid together, refused, malformed or without effect; two watchers, a client that GETs without end |
| `config_api` | settings from files and requests | 2,976 pairs of files, each node there for one rule of the decoders; three requests |

Why these are enough to be interesting: two requests contend for a mutex and a
third waits behind them; two updates can hit one poller within a cycle, and
cancel each other; a third attempt reaches the largest delay; two failures are
one that comes while the other is being restarted; three requests are a GET, a
patch by another client, and the body sent back. The caps on
attempts and ages are invisible by assumption (`CapsAreInvisible`, which TLC
evaluates): a capped age is past every window.

The abstract specifications are checked as properties: `Poller` implements
`RestartPolicy` (an attempt counts there when it is sent; `PolicyHistory`
brings forward what the poller records later), `ClusterManager` implements
`ClusterRegistry` (a request takes effect at its store, Close at its swap),
`ConfigManager` implements `ConfigCell` (at the assignment).

### What the runs found

`poller_collision`: connectors and tasks share one map, and a connector's key
is its bare name (`backoff.go:87-93`). A connector named
`ConnectorName-a_TaskID-0` shares the entry of task 0 of connector `a`, so
backoff is not tracked separately as README.md:236 says. Nobody is likely to
name a connector so; the other runs, and the proofs under the hypothesis
`KeysAreSeparate`, show that this is the only exception.

### Fairness

- Poller: goroutines are scheduled and time passes (weak fairness). Go's
  select picks at random among the ready cases, so a case that is ready again
  and again is taken in the end: strong fairness, for the update case only.
  For cancellation none is needed: a GET on a canceled context fails.
- ClusterManager: weak fairness per request, Close and poller. Requests are
  finitely many, so a mutex is free for good in the end.
- ConfigManager: weak fairness per patch, per watcher and of the return of a
  GET, not on arrivals. Weak is enough for a PATCH although GETs never end,
  since the lock lets no reader overtake a writer that waits, and for watchers
  because patches are finitely many.
- Healer: goroutines run, the five seconds pass, a canceled poller stops;
  clients, signals and a failing listener need not come. That a canceled poller
  stops is `CancelStops` of `Poller`.
- Healing: the poller's fairness, and of Kafka Connect, which no code here can
  promise, that it is not out of reach for ever: strong fairness of a fetch
  that succeeds and of each restart. One answered fetch or one performed
  restart among many is enough.
- `Poller` by itself assumes nothing of Kafka Connect beyond the client
  timeout: `FailingTargetsAreRestarted` has the hypothesis that snapshots keep
  coming.

## Proofs

For every value of the constants that satisfies the named assumptions:

- **ClusterManager.** `SafetyInv` is inductive together with `TypeOK`, in two
  layers. `LockingInv` says who holds the lifecycle mutex (`MutexHeld`), that a
  request past its check excludes Close (`OpenWhileChanging`), what Close has
  in hand (`CloseTakesAll`), that a running poller is registered or Close has
  it (`OneOwner`), and that a poller being replaced has stopped before the
  store (`ReplacedHasStopped`). `AtMostOnePoller` alone is not inductive: the
  step that stores a new poller needs to know that the old one has ended,
  which the request learnt three steps earlier and which only the mutex
  preserves. `OnePollerPerCluster`, `PollersCanBeStopped`,
  `NothingPollsAfterClose` and `DeleteStops` follow. `PolledInv`, inductive
  over `LockingInv`, adds that pollers are registered under their own names,
  that a request has no poller before its store, and that what it looked up is
  still what the map holds; `RegisteredStayPolled` follows, and
  `IdenticalKeeps`, which needs it to know that the definition compared is the
  one the map still holds.

  `CallsAreAtomic` is the refinement of `ClusterRegistry`, one lemma per step
  that acts on the map or answers. It rests on `AtomicInv`: a step that changes the map has its lock
  and no reader beside it (`ClustersHeld`), so the copy a GET makes entry by
  entry never goes out of date (`CopyIsCurrent`); each call is on its own path
  (`CallsMatch`), a PUT only with a valid definition; what is registered is defined; only Close closes.
- **Healer.** `ProcessIsClusterManager`: every step of the process is a step of
  the manager or leaves it alone, so all that is proved of the manager holds in
  the process, atomicity too (`RequestsAreAtomic`). `HealerInv` adds what main
  has waited for (`ShutdownInv`) and what a handler that began after the signal
  can have done (`RequestInv`: its checks fail, because the context is canceled
  before the handler begins). `LateChangesAreRefused`, `ShutdownIsOrdered` and
  `GraceIsGiven` follow. `PollingOutlives` follows from `RegisteredArePolled`
  of the manager: nothing but a signal cancels the application, whatever
  happens to the server. `SharingIsWarned` is inductive once it is known that
  the store is the only step after which two clusters share an endpoint that
  did not before.
- **ConfigManager.** `SafetyInv`: a writer works alone (`LockInv`), and the
  closed channels are those before the current one, and the current one
  between close and make (`ChannelInv`). `StoredStaysValid`,
  `NoChannelIsClosedTwice`, `WaitersAreCurrent` and `CredentialsAreKept`
  follow. `TypeCorrect` says nothing of validity: that what is stored is valid
  is `StoredStaysValid`, and part of `ManagerIsACell`.
  `ManagerIsACell` is the refinement of `ConfigCell`; `PatchInv` says that what
  a writer is about to store is the edit of what is stored now, which is why
  the assignment is the cell's `Patch`.
- **Backoff.** `DelayIsTheDocumentedOne`: the doubling loop of
  `backoff.go`, with its test against half the maximum and in arithmetic that
  wraps, gives the documented formula for every pair of delays and every number
  of attempts. This is an induction over attempts; the library's induction
  theorems take operators, so `SetInduction` gets it from the well-foundedness
  of the order of the naturals, over the set of the numbers for which the
  statement holds. Exponents mean nothing to the provers: the formula is
  written with `PowerOfTwo`, a recursive function whose existence is proved,
  and `PowersAreExponents`, which TLC evaluates up to the cap, says that these
  are the powers of two. No proof uses it.
- **Poller.** `SettingsStayInSync` and `NoUpdateIsMissed` are inductive over
  `TypeOK`. `RemediationIsRemembered`, `BackoffIsSeparate` and
  `RecoveryIsReported` need that no connector has the name of a task's key
  (`KeysAreSeparate`, which `poller_collision` shows to be necessary), and
  `HistoryInv`: a target about to be restarted, or being restarted, is in the
  failure history.

  `PollerFollowsPolicy` is the refinement of `RestartPolicy` under the same
  hypothesis on names. Each action of the poller is one of the policy's or
  invisible there; the delay lemma makes the window the poller computes the one
  the policy states; `CycleInv` says that no action is left over from an
  earlier cycle, and that the target being restarted is not restarted again.
- **Healing.** `HealingIsPolling`, as for the process, and so
  `HealingFollowsPolicy`. `OnlyFailuresAreRestarted` rests on `CauseInv`, which
  carries the failures that were seen through the steps of a cycle;
  `CanceledPollersAreQuiet` needs only the types.
- **ConfigAPI.** `SettingsInv` is inductive: the settings in force have their
  types and are valid, the files are as they were until startup is over, and
  what a client has seen is `Encode`, without the password, of a valid
  configuration with the credentials in force. The last part is what `RoundTripKeepsEverything` lacks:
  a PATCH by somebody else between GET and PATCH changes the configuration, but
  not the credentials, so the password that GET left out is still the stored
  one. `EncodedIsDecoded` and `ShownIsDecoded` say that what GET writes of a
  value is read back as that value, with the password it hid taken from what is
  stored; `OverlaidIsShaped`, that an overlay has the types of what it lies on.
  `ValidSettings` and `RoundTrips` follow. `StartupLayers`: decoding file over
  file is choosing, field by field, the overlay's node, else the base file's,
  else the default, also where a cluster is in only one of the files, and the
  process starts if and only if all is well formed and the result valid.
  `DuplicatesWarned`: of the clusters with one endpoint the least name is
  found, so every other one is named together with it. It has a hypothesis,
  `HostsAgree`: the canonical spellings make two hosts one exactly when the
  documentation does. It relates two tables of texts, which the code gets from
  `net/netip` and `strings`; it is true of those of `config_api`. It is not an
  assumption of the module because the property is to fail when the code
  compares something else.

Each inductive invariant was checked by TLC before it was proved.

Only model-checked: liveness (fairness and ENABLED are out of TLAPS's reach),
that is `UpdatesAreAdopted`, `CancelStops`, `FailingTargetsAreRestarted`,
`FailuresAreHealed`, `CallsReturn`, `SignalEndsProcess`, and of ConfigManager
that patches return and watchers catch up. What a table of texts contains is
given, not proved. The other way round, the type invariants of `ClusterManager`
and `Healing`, and the inductive invariants, are proved and appear in no run
of their own, or only as part of another invariant.

## Not modelled

- The YAML and JSON parsers, and the texts of durations, addresses and levels:
  libraries, used through tables.
- Which bodies `status.go:67-92` rejects: a fetch succeeds or fails as a whole.
  The URL and the Basic Auth header of a request to Kafka Connect.
- Wording of log lines; what they leave out for secrecy.
- Read, write and idle time limits of API connections, and the refusal of a body
  before it is parsed (415, 413, 408): a connection may break at any time, and a
  body that is refused changes nothing.
- A callback of `UpdateConfiguration` that calls the manager (`manager.go:37`
  forbids it, and the only callback does not).
- Vendored code, deployment files, build.

## Plan

Done, in this order: `Backoff`, `Poller`, `RestartPolicy`; `ClusterManager`,
`ClusterRegistry`; `ConfigManager`, `ConfigCell`; their proofs; `Healer` and its
proofs; `Healing` and its proofs; `Settings`, `ConfigAPI`.

The types of `Settings` were then made functions, so that `ConfigAPI` could be
proved about; and every refinement was proved.

Next:

1. Proofs: that what `GET` shows is what the tables say field by field; a
   `Healing` theorem that relates a restart to the level of its event.
2. `Healing` with a cluster that is replaced: a restart accepted for the old
   poller, performed under the new one's empty history.
3. What a status body must be, entry by entry.
