------------------------------ MODULE ConfigAPI ------------------------------
(***************************************************************************)
(* From the startup files to the last request: main loads both pairs of    *)
(* files, the API server keeps the credentials it was started with, and    *)
(* GET, PATCH, PUT and DELETE read and change the settings (cmd/.../main,  *)
(* internal/api).  The two managers make each request one step             *)
(* (ConfigCell, ClusterRegistry), so the interest here is in the settings. *)
(***************************************************************************)
EXTENDS Settings

CONSTANTS
    StartupFiles,   \* [app, appSecret, clusters, clustersSecret] -> files
    BlankNames,     \* cluster names without a visible character
    PatchBodies, PutBodies,
    Credentials,    \* what requests carry, [username, password]
    MaxRequests     \* bound: requests served

ASSUME InputsAreTyped ==
    /\ \A files \in StartupFiles :
          /\ files \in [app : Files, appSecret : Files, clusters : Files, clustersSecret : Files]
          /\ \A f \in {"clusters", "clustersSecret"} : \A d \in ReadFile(files[f]) :
                KeysOf(d) \subseteq DOMAIN NameRank
    /\ PatchBodies \cup PutBodies \subseteq Document

VARIABLES
    files,          \* what the command line points to
    stage,          \* "starting", "serving" or "exited"
    configuration,
    clusters,       \* name -> cluster definition
    enforced,       \* the credentials that basicAuth compares with
    warned,         \* pairs named by the latest endpoint warnings
    seen,           \* a client's last GET /config: the body, and its origin
    requests        \* requests served

apiVars == <<files, stage, configuration, clusters, enforced, warned, seen, requests>>

NothingSeen == [body |-> {}, origin |-> DefaultConfiguration]

Init ==
    /\ files \in StartupFiles
    /\ stage = "starting"
    /\ configuration = DefaultConfiguration
    /\ clusters = NoClusters
    /\ enforced = APIAuth(DefaultConfiguration)
    /\ warned = {}
    /\ seen = NothingSeen
    /\ requests = 0

Configured == LoadFiles(files.app, files.appSecret)

Defined == LoadClusterFiles(files.clusters, files.clustersSecret)

ValidName(name) == name \notin BlankNames

(* Files are read once: what they held is of no account afterwards.        *)
ForgetFiles ==
    files' = [f \in DOMAIN files |-> NotGiven]

(* The configuration, the clusters and their names are checked in turn;    *)
(* what LoadFiles warns of comes before the names are looked at.           *)
Exit ==
    /\ stage = "starting"
    /\ \/ /\ Configured = {} \/ Defined = {}
          /\ UNCHANGED warned
       \/ /\ Configured # {}
          /\ \E k \in Defined : /\ \E name \in DOMAIN k : ~ValidName(name)
                                /\ warned' = WarnDuplicateEndpoints(k)
    /\ stage' = "exited"
    /\ ForgetFiles
    /\ UNCHANGED <<configuration, clusters, enforced, seen, requests>>

Start ==
    /\ stage = "starting"
    /\ configuration' \in Configured
    /\ clusters' \in Defined
    /\ \A name \in DOMAIN clusters' : ValidName(name)
    /\ warned' = WarnDuplicateEndpoints(clusters')
    /\ enforced' = APIAuth(configuration')
    /\ stage' = "serving"
    /\ ForgetFiles
    /\ UNCHANGED <<seen, requests>>
-----------------------------------------------------------------------------
(* A request that basicAuth lets through.  What is refused changes nothing *)
(* and is not an action.                                                   *)
Authorized(credentials) ==
    enforced.enabled => /\ credentials.username = enforced.username
                        /\ credentials.password = enforced.password

Request(credentials) ==
    /\ stage = "serving"
    /\ requests < MaxRequests
    /\ requests' = requests + 1
    /\ Authorized(credentials)
    /\ UNCHANGED <<files, stage, enforced>>

ShownConfiguration ==
    Encode(ApplicationConfiguration,
           [configuration EXCEPT ![APIPassword] = ""])

GetConfig(credentials) ==
    /\ Request(credentials)
    /\ seen' = [body |-> ShownConfiguration, origin |-> configuration]
    /\ UNCHANGED <<configuration, clusters, warned>>

(* Mutant: a patch may change the credentials in the configuration.        *)
AcceptedAnyAPI(next, current) == ValidConfiguration(next)

Accepted(next, current) ==
    /\ APIAuth(next) = APIAuth(current)
    /\ ValidConfiguration(next)

Patched(body, current) ==
    {next \in DecodeBody("patch", ApplicationConfiguration, body, current) :
        Accepted(next, current)}

PatchConfig(credentials, body) ==
    /\ Request(credentials)
    /\ configuration' \in Patched(body, configuration)
    /\ UNCHANGED <<clusters, warned, seen>>
-----------------------------------------------------------------------------
ShownCluster(name) ==
    Encode(ClusterConfiguration, [clusters[name] EXCEPT ![Password] = ""])

(* A PUT starts from nothing, not from the defaults or the old definition. *)
PutDefinition(body) ==
    {c \in DecodeBody("put", ClusterConfiguration, body, ZeroCluster) : ValidCluster(c)}

PutCluster(credentials, name, body) ==
    /\ Request(credentials)
    /\ ValidName(name)
    /\ \E c \in PutDefinition(body) :
         /\ clusters' = [n \in DOMAIN clusters \cup {name} |->
                            IF n = name THEN c ELSE clusters[n]]
         /\ warned' = IF clusters' = clusters THEN warned
                      ELSE WarnDuplicateEndpoints(clusters')
    /\ UNCHANGED <<configuration, seen>>

DeleteCluster(credentials, name) ==
    /\ Request(credentials)
    /\ name \in DOMAIN clusters
    /\ clusters' = [n \in DOMAIN clusters \ {name} |-> clusters[n]]
    /\ UNCHANGED <<configuration, warned, seen>>

(* Clients send bodies of their own, or what GET has shown them.           *)
Next ==
    \/ Start
    \/ Exit
    \/ \E c \in Credentials :
         \/ GetConfig(c)
         \/ \E body \in PatchBodies \cup {seen.body} : PatchConfig(c, body)
         \/ \E name \in DOMAIN NameRank :
              \/ \E body \in PutBodies \cup {ShownCluster(n) : n \in DOMAIN clusters} :
                   PutCluster(c, name, body)
              \/ DeleteCluster(c, name)

Spec == Init /\ [][Next]_apiVars
-----------------------------------------------------------------------------
(* The settings in force are of the right shape, would pass as a startup   *)
(* configuration, and the credentials the server compares with are those   *)
(* of its configuration, as they were in the files (README.md:265:         *)
(* "startup-only"), whatever was patched, put and deleted.                 *)
Values(kind) ==
    CASE kind = "bool" -> BOOLEAN
      [] kind = "duration" -> Durations
      [] kind = "level" -> Levels
      [] OTHER -> STRING

Shaped(type, value) ==
    /\ value = [p \in Fields(type) |-> value[p]]
    /\ \A p \in Fields(type) : value[p] \in Values(type[p])

StoredIsValid ==
    /\ Shaped(ApplicationConfiguration, configuration)
    /\ ValidConfiguration(configuration)
    /\ \A n \in DOMAIN clusters : /\ ValidName(n)
                                  /\ Shaped(ClusterConfiguration, clusters[n])
                                  /\ ValidCluster(clusters[n])

ServesValidSettings ==
    stage = "serving" => StoredIsValid /\ enforced = APIAuth(configuration)

(* A client may GET, edit and send back.  GET hides passwords, so the body *)
(* must mean "as it is" when it is patched back, then or later; put back,  *)
(* it must not switch a cluster's authentication off (README.md:186) nor   *)
(* lose anything but a password that is not in use.                        *)
RoundTripKeepsEverything ==
    stage = "serving" =>
        /\ seen # NothingSeen => Patched(seen.body, configuration) = {seen.origin}
        /\ \A n \in DOMAIN clusters : \A c \in PutDefinition(ShownCluster(n)) :
             \/ c = clusters[n]
             \/ ~c[Enabled] /\ c = [clusters[n] EXCEPT ![Password] = ""]

(* Why they hold: the files are as they were until the process serves or   *)
(* exits, and what a client has seen is a configuration that was in force, *)
(* with the credentials of this one and without its password.              *)
SettingsInv ==
    /\ stage = "starting" => files \in StartupFiles
    /\ stage = "serving" =>
          /\ StoredIsValid
          /\ enforced = APIAuth(configuration)
          /\ DOMAIN clusters \subseteq DOMAIN NameRank
    /\ seen # NothingSeen =>
          /\ stage = "serving"
          /\ seen.body = Encode(ApplicationConfiguration,
                                [seen.origin EXCEPT ![APIPassword] = ""])
          /\ Shaped(ApplicationConfiguration, seen.origin)
          /\ ValidConfiguration(seen.origin)
          /\ APIAuth(seen.origin) = APIAuth(configuration)

(* README.md:173-177, read from the top: a setting has the value that the  *)
(* Secret overlay gives it, or else the base file, or else the default; a  *)
(* cluster exists if either file names it, or by default without a base.   *)
(* The process starts if each file is strictly well formed and the result  *)
(* is valid, and exits otherwise.                                          *)
WellFormed(document) ==
    /\ IsMapping(document)
    /\ \A m, n \in document : m.path = n.path => m = n
    /\ \A n \in document : n.keyTag = "!!str" /\ n.kind # "alias" /\ ~IsNull(n)

Fits(type, document) ==
    /\ IsMapping(document)
    /\ \A n \in document :
          /\ n.path \in DOMAIN type
          /\ n.path \notin Fields(type) => n.kind = "mapping"
          /\ n.path \in Fields(type) => Converts("yaml", type[n.path], n)

HoldsOne(file) ==
    file.given => /\ file.readable /\ Len(file.documents) = 1
                  /\ WellFormed(file.documents[1])

(* What a file says: nothing, if it is not given.                          *)
Said(file) == IF file.given THEN file.documents[1] ELSE {}

Layered(type, secret, base, default) ==
    [p \in Fields(type) |->
       IF \E n \in secret : n.path = p
       THEN Converted(type[p], CHOOSE n \in secret : n.path = p)
       ELSE IF \E n \in base : n.path = p
       THEN Converted(type[p], CHOOSE n \in base : n.path = p)
       ELSE default[p]]

LayeredConfiguration ==
    Layered(ApplicationConfiguration, Said(files.appSecret), Said(files.app),
            DefaultConfiguration)

LayeredClusters ==
    LET names == KeysOf(Said(files.clustersSecret)) \cup
                   IF files.clusters.given THEN KeysOf(Said(files.clusters))
                   ELSE {"default"}
    IN  [n \in names |-> Layered(ClusterConfiguration, Below(Said(files.clustersSecret), n),
                                 Below(Said(files.clusters), n), DefaultCluster)]

FilesAreStrict ==
    /\ \A f \in {"app", "appSecret"} :
          /\ HoldsOne(files[f])
          /\ files[f].given => Fits(ApplicationConfiguration, Said(files[f]))
    /\ \A f \in {"clusters", "clustersSecret"} :
          /\ HoldsOne(files[f])
          /\ \A n \in KeysOf(Said(files[f])) :
                Fits(ClusterConfiguration, Below(Said(files[f]), n))

LayersAreValid ==
    /\ ValidConfiguration(LayeredConfiguration)
    /\ \A n \in DOMAIN LayeredClusters :
          ValidName(n) /\ ValidCluster(LayeredClusters[n])

StartupIsLayered ==
    [][ stage = "starting" =>
          IF FilesAreStrict /\ LayersAreValid
          THEN /\ stage' = "serving"
               /\ configuration' = LayeredConfiguration
               /\ clusters' = LayeredClusters
          ELSE stage' = "exited" ]_apiVars

(* README.md:188: clusters with one endpoint are named in a warning, and   *)
(* no others, at startup and when a PUT changes a definition.  Endpoints   *)
(* are one if they differ in what the README lists only: casing, a         *)
(* trailing dot, IPv6 spelling and leading zeros of the port.              *)
CONSTANT SameHost   \* sets of the hosts that are one by that list

OneEndpoint(c, d) ==
    /\ c[HTTPS] = d[HTTPS]
    /\ \E class \in SameHost : {c[Host], d[Host]} \subseteq class
    /\ Atoi[c[Port]] = Atoi[d[Port]]

DuplicatesAreWarned ==
    [][ (\E n \in DOMAIN clusters' : n \notin DOMAIN clusters \/ clusters'[n] # clusters[n])
        => UNION {{p[1], p[2]} : p \in warned'} =
             {n \in DOMAIN clusters' : \E m \in DOMAIN clusters' \ {n} :
                 OneEndpoint(clusters'[n], clusters'[m])} ]_apiVars
=============================================================================
