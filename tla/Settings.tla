------------------------------- MODULE Settings -------------------------------
(***************************************************************************)
(* How settings come out of YAML files and JSON bodies (internal/config,   *)
(* internal/connectcluster, internal/yamlconfig, internal/api/config and   *)
(* internal/api/clusters): the shapes, the defaults, strict decoding onto  *)
(* earlier values, validation, and what GET shows.  All of it is pure.     *)
(*                                                                         *)
(* A document, parsed from YAML or JSON, is the set of its nodes, each     *)
(* with the path of keys that leads to it; nth tells apart the entries of  *)
(* one mapping that have the same key.  A Go type is a function from its   *)
(* paths to what is there, and a value of it a function from the paths of  *)
(* the fields that are no structs.  Texts and their conversions are        *)
(* constants: what a text means is a function that is undefined where the  *)
(* conversion fails.                                                       *)
(***************************************************************************)
EXTENDS Integers, Sequences

CONSTANTS
    ParseDuration,   \* text -> seconds
    FormatDuration,  \* seconds -> canonical text
    ParseLevel,      \* text -> slog level, named by its canonical text
    OldBooleans,     \* YAML 1.1 spelling -> BOOLEAN
    Atoi,            \* text of digits -> number
    ParseAddr,       \* IP address -> its canonical spelling
    LowerTrimmed,    \* hostname -> in lower case, without a trailing dot
    Usernames,       \* texts neither blank nor with a colon
    FoldedName,      \* key -> the field name that differs in case only
    NameRank         \* cluster name -> its place when names are sorted

Durations == {ParseDuration[text] : text \in DOMAIN ParseDuration}

Levels == {ParseLevel[text] : text \in DOMAIN ParseLevel}

(* A duration and a level, once formatted, are parsed as what they were;   *)
(* the defaults are durations, a level and texts.                          *)
ASSUME Conversions ==
    /\ Durations \subseteq Int /\ {10, 20, 600} \subseteq Durations
    /\ \A d \in Durations : /\ FormatDuration[d] \in DOMAIN ParseDuration
                            /\ ParseDuration[FormatDuration[d]] = d
    /\ "INFO" \in Levels /\ Levels \subseteq STRING
    /\ \A l \in Levels : l \in DOMAIN ParseLevel /\ ParseLevel[l] = l
    /\ {"", "localhost", "8083"} \subseteq STRING
    /\ OldBooleans \in [DOMAIN OldBooleans -> BOOLEAN]
    /\ Atoi \in [DOMAIN Atoi -> Int]

(* No two names are sorted into one place.                                 *)
ASSUME NamesAreSorted ==
    /\ NameRank \in [DOMAIN NameRank -> Nat]
    /\ "default" \in DOMAIN NameRank
    /\ \A m, n \in DOMAIN NameRank : NameRank[m] = NameRank[n] => m = n

Node == [path : Seq(STRING), nth : Nat, keyTag : STRING,
         kind : {"scalar", "mapping", "sequence", "alias"},
         tag : STRING, text : STRING]

NodeAt(path, kind, tag, text) ==
    [path |-> path, nth |-> 1, keyTag |-> "!!str", kind |-> kind, tag |-> tag,
     text |-> text]

IsMapping(document) ==
    \E node \in document : node.path = <<>> /\ node.kind = "mapping"

(* The document under a key of the outermost mapping.                      *)
Below(document, key) ==
    {[node EXCEPT !.path = Tail(@)] :
       node \in {n \in document : n.path # <<>> /\ Head(n.path) = key}}

KeysOf(document) ==
    {Head(node.path) : node \in {n \in document : Len(n.path) = 1}}

(* Nothing is below a key that is not there.                               *)
Document ==
    {document \in SUBSET Node :
        \A node \in document : node.path # <<>> => Head(node.path) \in KeysOf(document)}

IsNull(node) == node.tag = "!!null"
-----------------------------------------------------------------------------
(* The Go types, by path; omitempty makes a string a "secret".             *)
Interval == <<"pollingBehavior", "interval">>
RestartFailedTasks == <<"pollingBehavior", "restartFailedTasks">>
BackoffEnabled == <<"pollingBehavior", "backoff", "enabled">>
BaseDelay == <<"pollingBehavior", "backoff", "baseDelay">>
MaxDelay == <<"pollingBehavior", "backoff", "maxDelay">>
Exponential == <<"pollingBehavior", "backoff", "exponential">>
RequestTimeout == <<"communicationConfig", "requestTimeout">>
APIEnabled == <<"apiConfig", "authConfig", "enabled">>
APIUsername == <<"apiConfig", "authConfig", "username">>
APIPassword == <<"apiConfig", "authConfig", "password">>
Level == <<"loggingConfig", "level">>

Host == <<"host">>
Port == <<"port">>
HTTPS == <<"https">>
Enabled == <<"authConfig", "enabled">>
Username == <<"authConfig", "username">>
Password == <<"authConfig", "password">>

Typed(structs, durations, bools, strings, secrets, levels) ==
    [p \in structs \cup durations \cup bools \cup strings \cup secrets \cup levels |->
       CASE p \in structs -> "struct" [] p \in durations -> "duration"
         [] p \in bools -> "bool"     [] p \in strings -> "string"
         [] p \in secrets -> "secret" [] OTHER -> "level"]

ApplicationConfiguration ==
    Typed({<<>>, <<"pollingBehavior">>, <<"pollingBehavior", "backoff">>,
           <<"communicationConfig">>, <<"apiConfig">>, <<"apiConfig", "authConfig">>,
           <<"loggingConfig">>},
          {Interval, BaseDelay, MaxDelay, RequestTimeout},
          {RestartFailedTasks, BackoffEnabled, Exponential, APIEnabled},
          {APIUsername}, {APIPassword}, {Level})

ClusterConfiguration ==
    Typed({<<>>, <<"authConfig">>}, {}, {HTTPS, Enabled}, {Host, Port, Username},
          {Password}, {})

Fields(type) == {p \in DOMAIN type : type[p] # "struct"}

DefaultConfiguration ==
    [p \in Fields(ApplicationConfiguration) |->
       CASE p \in {Interval, RequestTimeout} -> 10
         [] p = BaseDelay -> 20
         [] p = MaxDelay -> 600
         [] p \in {RestartFailedTasks, BackoffEnabled, Exponential} -> TRUE
         [] p = APIEnabled -> FALSE
         [] p = Level -> "INFO"
         [] OTHER -> ""]

ZeroCluster ==
    [p \in Fields(ClusterConfiguration) |-> IF p \in {HTTPS, Enabled} THEN FALSE ELSE ""]

DefaultCluster == [ZeroCluster EXCEPT ![Host] = "localhost", ![Port] = "8083"]

APIAuth(c) == [enabled |-> c[APIEnabled], username |-> c[APIUsername],
               password |-> c[APIPassword]]

ValidCredentials(username, password) == username \in Usernames /\ password # ""

ValidConfiguration(c) ==
    /\ c[Interval] > 0
    /\ c[BaseDelay] > 0
    /\ c[MaxDelay] >= c[BaseDelay]
    /\ c[RequestTimeout] > 0
    /\ c[APIEnabled] => ValidCredentials(c[APIUsername], c[APIPassword])

LargestPort == 65535

ValidCluster(c) ==
    /\ c[Host] \in DOMAIN LowerTrimmed \cup DOMAIN ParseAddr
    /\ c[Port] \in DOMAIN Atoi /\ Atoi[c[Port]] \in 1..LargestPort
    /\ c[Enabled] => c[HTTPS] /\ ValidCredentials(c[Username], c[Password])
-----------------------------------------------------------------------------
(* Strict decoding.  The YAML library puts any scalar into a string or a   *)
(* level, and yes and no into a bool; JSON must have the type itself.      *)
(* Durations check their own tag.                                          *)
Conversion(kind) ==
    CASE kind = "bool" -> OldBooleans
      [] kind = "level" -> ParseLevel
      [] kind = "duration" -> ParseDuration

IsText(kind) == kind \in {"string", "secret"}

ConvertsText(format, kind, node) ==
    IF format = "yaml" THEN kind = "duration" => node.tag = "!!str"
    ELSE kind # "bool" /\ node.tag = "!!str"

Converts(format, kind, node) ==
    /\ node.kind = "scalar"
    /\ \/ kind = "bool" /\ node.tag = "!!bool"
       \/ /\ ConvertsText(format, kind, node)
          /\ IsText(kind) \/ node.text \in DOMAIN Conversion(kind)

(* The spellings to which yaml.v3 gives the tag !!bool, and that are true.  *)
TrueTexts == {"true", "True", "TRUE"}

Converted(kind, node) ==
    IF kind = "bool" /\ node.tag = "!!bool" THEN node.text \in TrueTexts
    ELSE IF IsText(kind) THEN node.text
    ELSE Conversion(kind)[node.text]

(* PATCH accepts any casing; YAML and PUT match names exactly.             *)
FieldOf(format, path) ==
    [i \in DOMAIN path |->
       IF format = "patch" /\ path[i] \in DOMAIN FoldedName
       THEN FoldedName[path[i]] ELSE path[i]]

(* A field's own name is not another's.                                    *)
ASSUME NamesAreExact ==
    \A p \in DOMAIN ApplicationConfiguration : FieldOf("patch", p) = p

Repeats(format, document) ==
    \E m, n \in document :
        m # n /\ FieldOf(format, m.path) = FieldOf(format, n.path)

Fitting(format, type, node) ==
    LET field == FieldOf(format, node.path)
    IN  /\ field \in DOMAIN type
        /\ IF type[field] = "struct" THEN node.kind = "mapping"
           ELSE Converts(format, type[field], node)

(* Decode succeeds.                                                        *)
Decodes(format, type, document) ==
    /\ IsMapping(document)
    /\ ~Repeats(format, document)
    /\ \A node \in document : Fitting(format, type, node)

(* What it makes of out: supplied fields replace values, the others stay.  *)
Supplied(format, document, field) ==
    {node \in document : FieldOf(format, node.path) = field}

Overlaid(format, type, document, out) ==
    [p \in Fields(type) |->
       IF Supplied(format, document, p) = {} THEN out[p]
       ELSE Converted(type[p], CHOOSE node \in Supplied(format, document, p) : TRUE)]

(* checkNode of yamlconfig, which sees every node of the document.         *)
CheckNode(document) ==
    /\ \A node \in document : /\ node.keyTag = "!!str"
                              /\ node.kind # "alias"
                              /\ ~IsNull(node)
    /\ ~Repeats("yaml", document)

(* validatePatchJSON and validClusterJSON: no null, wherever it is.        *)
HasNull(document) ==
    \E node \in document : IsNull(node)

DecodeBody(format, type, body, out) ==
    IF ~HasNull(body) /\ Decodes(format, type, body)
    THEN {Overlaid(format, type, body, out)} ELSE {}
-----------------------------------------------------------------------------
(* Files.  One that is not given changes nothing; one that is given must   *)
(* be readable and hold one document, a mapping.                           *)
Files == [given : BOOLEAN, readable : BOOLEAN, documents : Seq(Document)]

NotGiven == [given |-> FALSE, readable |-> FALSE, documents |-> <<>>]
Unreadable == [NotGiven EXCEPT !.given = TRUE]
File(documents) == [given |-> TRUE, readable |-> TRUE, documents |-> documents]

ReadFile(file) ==
    {d \in {file.documents[i] : i \in DOMAIN file.documents} :
        file.readable /\ Len(file.documents) = 1 /\ IsMapping(d) /\ CheckNode(d)}

DecodeFile(file, out) ==
    IF ~file.given THEN {out}
    ELSE {Overlaid("yaml", ApplicationConfiguration, d, out) :
            d \in {n \in ReadFile(file) : Decodes("yaml", ApplicationConfiguration, n)}}

LoadFiles(base, secret) ==
    {c \in UNION {DecodeFile(secret, b) : b \in DecodeFile(base, DefaultConfiguration)} :
        ValidConfiguration(c)}

(* Mutant: an overlay starts each of its clusters from the defaults.       *)
OldDefault(clusters, name) == DefaultCluster

OldDefinition(clusters, name) ==
    IF name \in DOMAIN clusters THEN clusters[name] ELSE DefaultCluster

MergeClusters(document, clusters) ==
    [name \in DOMAIN clusters \cup KeysOf(document) |->
       IF name \in KeysOf(document)
       THEN Overlaid("yaml", ClusterConfiguration, Below(document, name),
                     OldDefinition(clusters, name))
       ELSE clusters[name]]

DecodeClusters(file, clusters) ==
    IF ~file.given THEN {clusters}
    ELSE {MergeClusters(d, clusters) :
            d \in {n \in ReadFile(file) :
                     \A name \in KeysOf(n) :
                        Decodes("yaml", ClusterConfiguration, Below(n, name))}}

NoClusters == [name \in {} |-> DefaultCluster]

LoadClusterFiles(base, secret) ==
    LET start == IF base.given THEN NoClusters
                 ELSE [name \in {"default"} |-> DefaultCluster]
    IN  {c \in UNION {DecodeClusters(secret, b) : b \in DecodeClusters(base, start)} :
            \A name \in DOMAIN c : ValidCluster(c[name])}
-----------------------------------------------------------------------------
(* WarnDuplicateEndpoints: each name with the first that has its endpoint. *)
(* Mutant: addresses are compared as they are spelled.                     *)
CanonicalName(host) ==
    IF host \in DOMAIN LowerTrimmed THEN LowerTrimmed[host] ELSE host

CanonicalHost(host) ==
    IF host \in DOMAIN ParseAddr THEN ParseAddr[host] ELSE LowerTrimmed[host]

EndpointOf(c) == <<c[HTTPS], CanonicalHost(c[Host]), Atoi[c[Port]]>>

FirstWith(clusters, name) ==
    CHOOSE m \in DOMAIN clusters :
        /\ EndpointOf(clusters[m]) = EndpointOf(clusters[name])
        /\ \A k \in DOMAIN clusters :
              EndpointOf(clusters[k]) = EndpointOf(clusters[name])
                => NameRank[m] <= NameRank[k]

WarnDuplicateEndpoints(clusters) ==
    {<<FirstWith(clusters, name), name>> :
        name \in {n \in DOMAIN clusters : FirstWith(clusters, n) # n}}
-----------------------------------------------------------------------------
(* What GET writes: every field, but an empty password is omitted.         *)
(* Mutant: the field is written although it is empty.                      *)
WrittenAll(kind, value) == TRUE

Written(kind, value) == kind # "secret" \/ value # ""

Encoded(kind, path, value) ==
    CASE kind = "bool" -> NodeAt(path, "scalar", "!!bool", IF value THEN "true" ELSE "false")
      [] kind = "duration" -> NodeAt(path, "scalar", "!!str", FormatDuration[value])
      [] OTHER -> NodeAt(path, "scalar", "!!str", value)

Encode(type, value) ==
    {NodeAt(p, "mapping", "!!map", "") : p \in DOMAIN type \ Fields(type)}
    \cup {Encoded(type[p], p, value[p]) :
            p \in {f \in Fields(type) : Written(type[f], value[f])}}
=============================================================================
