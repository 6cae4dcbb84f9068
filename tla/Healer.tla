-------------------------------- MODULE Healer --------------------------------
(***************************************************************************)
(* The process around the cluster manager (cmd/kafka-connect-healer/main.go *)
(* from line 56 on, internal/api/api.go, the handlers of internal/api/      *)
(* clusters): main, the goroutine that runs the HTTP server, the logging    *)
(* worker, and the handlers that make ClusterManager's calls, each on one   *)
(* connection.  The HTTP server itself is Go's net/http, modelled from how  *)
(* main uses it.  PATCH /config waits for nothing but ConfigManager's lock  *)
(* and is left to that module.                                              *)
(***************************************************************************)
EXTENDS ClusterManager

CONSTANTS Endpoints,
          Endpoint  \* definition -> canonical scheme, host and port

ASSUME EndpointAssumption == Endpoint \in [Definitions -> Endpoints]

VARIABLES
    stage,       \* where main is, its clusterManager.Close() being "managing"
    signaled,    \* SIGINT or SIGTERM has come
    expired,     \* the five seconds of shutdownCtx are over
    logging,     \* the logging worker runs
    listener,    \* the goroutine in ListenAndServe
    inShutdown,  \* net/http's flag: Shutdown or Close was called
    conn,        \* per request, its connection
    reply,       \* per request, what its client has got
    late,        \* requests whose handler began after the signal
    warned       \* clusters named by the last warnings that still hold

processVars == <<stage, signaled, expired, logging, warned>>
serverVars == <<listener, inShutdown, conn, reply, late>>
healerVars == <<vars, processVars, serverVars>>

(* A connection is new until its first byte, idle between requests, active *)
(* while a handler runs, and cut when it is gone and the handler still runs. *)
Connections == {"none", "new", "idle", "active", "cut", "closed"}
Replies == {"none", "lost", "refused",
            "200", "201", "204", "400", "404", "503"}

HealerTypeOK ==
    /\ TypeOK
    /\ stage \in {"managing", "shutdown", "forcing", "waiting", "ended"}
    /\ {signaled, expired, logging, inShutdown} \subseteq BOOLEAN
    /\ listener \in {"starting", "serving", "failed", "stopped"}
    /\ conn \in [Requests -> Connections]
    /\ reply \in [Requests -> Replies]
    /\ late \subseteq Requests
    /\ warned \subseteq Names
-----------------------------------------------------------------------------
(* connectcluster.WarnDuplicateEndpoints names every cluster whose endpoint *)
(* is also another's.                                                      *)
EndpointOf(n) == Endpoint[DefinitionOf(n)]

Sharing ==
    {n \in Names : /\ clusterWorkers[n] # NoWorker
                   /\ \E m \in Names \ {n} : /\ clusterWorkers[m] # NoWorker
                                             /\ EndpointOf(m) = EndpointOf(n)}

(* Mutant: only a new cluster is compared with the others.                 *)
WarnIfCreated(r) == IF answer[r] = "created" THEN Sharing ELSE warned

WarnDuplicateEndpoints(r) == Sharing

HealerInit ==
    /\ Init
    /\ stage = "managing"
    /\ signaled = FALSE
    /\ expired = FALSE
    /\ logging = TRUE
    /\ listener = "starting"
    /\ inShutdown = FALSE
    /\ conn = [r \in Requests |-> "none"]
    /\ reply = [r \in Requests |-> "none"]
    /\ late = {}
    /\ warned = Sharing
-----------------------------------------------------------------------------
(* ListenAndServe returns ErrServerClosed, at once or later, when Shutdown *)
(* was called, whether it was called first or not.  Any other error ends   *)
(* the listener and nothing else.                                          *)
Listens(l) ==
    /\ listener' = l
    /\ UNCHANGED <<vars, processVars, inShutdown, conn, reply, late>>

ServerStarts == /\ listener = "starting" /\ ~inShutdown
                /\ Listens("serving")

ServerStops == /\ listener \in {"starting", "serving"} /\ inShutdown
               /\ Listens("stopped")

(* Mutant: the process is stopped when its API fails.                      *)
StopWithServer == TRUE

CanceledByServer == applicationCanceled

ServerFails ==
    /\ listener \in {"starting", "serving"} /\ ~inShutdown
    /\ listener' = "failed"
    /\ applicationCanceled' = CanceledByServer
    /\ UNCHANGED <<pc, lockVars, clusterWorkers, closed, clusters, workerVars,
                   requestVars, processVars, inShutdown, conn, reply, late>>

Connected(r, c) ==
    /\ conn' = [conn EXCEPT ![r] = c]
    /\ UNCHANGED <<vars, processVars, listener, inShutdown, late>>

(* A connection of its own, or one on which earlier requests were served.  *)
ClientConnects(r) ==
    /\ conn[r] = "none"
    /\ listener = "serving"
    /\ \E c \in {"new", "idle"} : Connected(r, c)
    /\ UNCHANGED reply

(* The client, a read or write timeout, or the idle timeout ends it.       *)
Gone(c) == IF c \in {"new", "idle"} THEN "closed"
           ELSE IF c = "active" THEN "cut" ELSE c

ConnectionLost(r) ==
    /\ conn[r] \in {"new", "idle", "active"}
    /\ Connected(r, Gone(conn[r]))
    /\ UNCHANGED reply

RequestBegins(r) ==
    /\ conn[r] \in {"new", "idle"}
    /\ reply[r] = "none"
    /\ conn' = [conn EXCEPT ![r] = "active"]
    /\ late' = IF signaled THEN late \cup {r} ELSE late
    /\ UNCHANGED <<vars, processVars, listener, inShutdown, reply>>

InHandler(r) == conn[r] \in {"active", "cut"}

(* The handler's calls go on when its connection is gone: they do not look *)
(* at the request's context.                                               *)
Handle(r) ==
    /\ InHandler(r)
    /\ Arrive(r) \/ PutRejected(r) \/ Request(r)
    /\ warned' = (IF pc[r] = "putWarn" THEN WarnDuplicateEndpoints(r) ELSE warned)
                    \cap Sharing'
    /\ UNCHANGED <<stage, signaled, expired, logging, serverVars>>

(* PutCluster and DeleteCluster of internal/api/clusters.                  *)
StatusOf(a) ==
    CASE a = "created" -> "201"
      [] a \in {"replaced", "unchanged", "deleted"} -> "204"
      [] a = "listed" -> "200"
      [] a = "invalid" -> "400"
      [] a = "notFound" -> "404"
      [] OTHER -> "503"

(* The handler returns and its connection is kept only while the server    *)
(* runs.  Where a handler refuses (401, 408, 413, 415 and other 400s), it  *)
(* has called nothing.                                                     *)
HandlerReturns(r, status) ==
    /\ InHandler(r)
    /\ \/ conn[r] = "active" /\ reply' = [reply EXCEPT ![r] = status]
       \/ conn[r] = "cut" /\ reply' = [reply EXCEPT ![r] = "lost"]
    /\ Connected(r, IF inShutdown \/ conn[r] = "cut" THEN "closed" ELSE "idle")

Refuse(r) == pc[r] = "start" /\ HandlerReturns(r, "refused")

Reply(r) == pc[r] = "end" /\ HandlerReturns(r, StatusOf(answer[r]))

(* The end of the process ends a handler that it did not wait for.         *)
Serve(r) == /\ stage # "ended"
            /\ Handle(r) \/ Refuse(r) \/ Reply(r)
-----------------------------------------------------------------------------
(* signal.NotifyContext cancels the context of everything.                 *)
Signal ==
    /\ ~signaled
    /\ signaled' = TRUE
    /\ applicationCanceled' = TRUE
    /\ UNCHANGED <<pc, lockVars, clusterWorkers, closed, clusters, workerVars,
                   requestVars, stage, expired, logging, warned, serverVars>>

PollerExits(w) == WorkerExits(w) /\ UNCHANGED <<processVars, serverVars>>

LoggingStops ==
    /\ logging
    /\ applicationCanceled
    /\ logging' = FALSE
    /\ UNCHANGED <<vars, stage, signaled, expired, warned, serverVars>>

MainCloses ==
    /\ \/ applicationCanceled /\ Arrive(Main)
       \/ Close
    /\ warned' = warned \cap Sharing'
    /\ UNCHANGED <<stage, signaled, expired, logging, serverVars>>

Advance(from, to) ==
    /\ stage = from
    /\ stage' = to
    /\ UNCHANGED <<vars, signaled, expired, logging, warned, listener, reply, late>>

ShutdownBegins ==
    /\ pc[Main] = "end"
    /\ Advance("managing", "shutdown")
    /\ inShutdown' = TRUE
    /\ UNCHANGED conn

GraceExpires ==
    /\ stage = "shutdown" /\ ~expired
    /\ expired' = TRUE
    /\ UNCHANGED <<vars, stage, signaled, logging, warned, serverVars>>

(* Shutdown waits for a listener that serves, not for one still starting   *)
(* (which will find the flag), then closes idle connections again and      *)
(* again until none is left or shutdownCtx is done.                        *)
IdleClosed == [r \in Requests |-> IF conn[r] = "idle" THEN "closed" ELSE conn[r]]

(* Mutant: shutdownCtx is derived from the canceled ctx.                   *)
ShutdownContextCanceled == expired \/ applicationCanceled

(* Mutant: Shutdown is called without a time limit.                        *)
ShutdownContextBackground == FALSE

ShutdownContextDone == expired

ListenersClosed == listener # "serving"

ShutdownCompletes ==
    /\ ListenersClosed
    /\ Advance("shutdown", "waiting")
    /\ conn' = IdleClosed
    /\ \A r \in Requests : conn'[r] \in {"none", "closed"}
    /\ UNCHANGED inShutdown

ShutdownFails ==
    /\ ListenersClosed
    /\ ShutdownContextDone
    /\ Advance("shutdown", "forcing")
    /\ conn' = IdleClosed
    /\ UNCHANGED inShutdown

(* server.Close waits for no handler.                                      *)
ConnectionsClosed ==
    /\ Advance("forcing", "waiting")
    /\ conn' = [r \in Requests |-> Gone(conn[r])]
    /\ UNCHANGED inShutdown

(* Mutant: main returns without workers.Wait().                            *)
WorkersForgotten == TRUE

ListenerReturned == listener \in {"failed", "stopped"}

WorkersReturned == ~logging /\ ListenerReturned

(* workers.Wait, and the return from main that ends every goroutine.       *)
ProcessEnds ==
    /\ WorkersReturned
    /\ Advance("waiting", "ended")
    /\ UNCHANGED <<conn, inShutdown>>

MainStep == \/ MainCloses
            \/ ShutdownBegins
            \/ ShutdownCompletes
            \/ ShutdownFails
            \/ ConnectionsClosed
            \/ ProcessEnds

ServerStep == ServerStarts \/ ServerStops \/ ServerFails

Ended == stage = "ended" /\ UNCHANGED healerVars

HealerNext ==
    \/ MainStep
    \/ GraceExpires
    \/ ServerStep
    \/ LoggingStops
    \/ Signal
    \/ \E w \in Workers : PollerExits(w)
    \/ \E r \in Requests : \/ ClientConnects(r)
                           \/ ConnectionLost(r)
                           \/ RequestBegins(r)
                           \/ Serve(r)
    \/ Ended

HealerSpec == HealerInit /\ [][HealerNext]_healerVars

(* Goroutines run, timers expire and a canceled poller stops; clients,     *)
(* signals and a failing listener need not come.                           *)
FairHealerSpec ==
    /\ HealerSpec
    /\ WF_healerVars(MainStep)
    /\ WF_healerVars(GraceExpires)
    /\ WF_healerVars(ServerStarts \/ ServerStops)
    /\ WF_healerVars(LoggingStops)
    /\ \A w \in Workers : WF_healerVars(PollerExits(w))
    /\ \A r \in Requests : WF_healerVars(Serve(r))
-----------------------------------------------------------------------------
(* README.md:293: "PUT and DELETE return 503 when the application is       *)
(* shutting down".  A request that came after the signal is never told     *)
(* that it changed anything, though the manager is closed only later.      *)
LateRequestsAreRefused ==
    \A r \in late : op[r].kind \in {"put", "delete"} => reply[r] \notin {"201", "204", "404"}

(* main.go:105-125: pollers have ended before the server is shut down, and *)
(* the workers, and every connection, before the process ends.             *)
StopsInOrder ==
    /\ stage # "managing" => running = {} /\ Registered = {}
    /\ stage = "ended" => /\ ~logging
                          /\ ListenerReturned
                          /\ \A r \in Requests : conn[r] \in {"none", "cut", "closed"}

(* README.md:50: on a signal "the API has up to five seconds to finish     *)
(* active requests before its connections are closed".                     *)
ActiveRequestsFinish ==
    stage \in {"forcing", "waiting", "ended"} /\ ~expired
        => \A r \in Requests : ~InHandler(r)

(* README.md:50: "An API startup or serving failure is logged as an error  *)
(* while polling continues."  Until a signal, a registered cluster is      *)
(* polled unless the request changing it has just stopped its poller.      *)
PollingOutlivesServer ==
    ~signaled => \A w \in Registered :
                    \/ w \in running /\ w \notin canceled
                    \/ \E r \in Requests : lifecycleMutex = r /\ previous[r] = w

(* README.md:188: "Clusters configured with the same literal endpoint      *)
(* generate a startup warning"; README.md:285: a PUT does too.  Whenever   *)
(* clusters share an endpoint the log has said so, or the request that     *)
(* made them share it is about to.                                         *)
SharedEndpointsAreWarned ==
    Sharing \subseteq warned \/ \E r \in Requests : pc[r] = "putWarn"

(* A signal ends the process, whether the server has started, failed or    *)
(* serves, and whatever its handlers and pollers wait for.                 *)
SignalEndsProcess == signaled ~> stage = "ended"

(* What they rest on, inductive over the manager's SafetyInv: what main    *)
(* has waited for stays so, and only begun requests have made calls.       *)
ShutdownInv ==
    /\ stage # "managing" => pc[Main] = "end" /\ inShutdown
    /\ stage \in {"forcing", "waiting", "ended"} => ListenersClosed
    /\ stage = "forcing" => expired
    /\ stage \in {"waiting", "ended"} =>
          \A r \in Requests : /\ conn[r] \in {"none", "cut", "closed"}
                              /\ conn[r] = "cut" => expired
    /\ stage = "ended" => ~logging /\ ListenerReturned

RequestInv ==
    /\ signaled <=> applicationCanceled
    /\ late # {} => signaled
    /\ \A r \in Requests :
          conn[r] \in {"none", "new"} \/ (conn[r] = "idle" /\ reply[r] = "none")
            => pc[r] = "start" /\ reply[r] = "none"
    /\ \A r \in late :
          op[r].kind \in {"put", "delete"} =>
            /\ pc[r] \in {"start", "waiting", "putCheck", "deleteCheck", "end"}
            /\ answer[r] \in {"pending", "invalid", "unavailable"}

HealerInv == ShutdownInv /\ RequestInv /\ LateRequestsAreRefused
=============================================================================
