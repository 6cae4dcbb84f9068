----------------------------- MODULE MCConfigAPI -----------------------------
(***************************************************************************)
(* Small pools of texts, files and bodies, each there for a rule of the    *)
(* decoders.  The pair of application files varies while the clusters are  *)
(* fixed, and the other way round.                                         *)
(***************************************************************************)
EXTENDS ConfigAPI, SequencesExt, TLC

DurationTexts ==
    "-1s" :> -1 @@ "0s" :> 0 @@ "10s" :> 10 @@ "20s" :> 20 @@ "1m" :> 60 @@
    "1m0s" :> 60 @@ "10m0s" :> 600

CanonicalDurations ==
    (-1) :> "-1s" @@ 0 :> "0s" @@ 10 :> "10s" @@ 20 :> "20s" @@ 60 :> "1m0s" @@
    600 :> "10m0s"

LevelTexts == "INFO" :> "INFO" @@ "debug" :> "DEBUG" @@ "DEBUG" :> "DEBUG"

YesAndNo == "yes" :> TRUE @@ "no" :> FALSE

Ports == "8083" :> 8083 @@ "08083" :> 8083 @@ "65536" :> 65536

Addresses == "::1" :> "::1" @@ "0:0::1" :> "::1"

Hosts == "localhost" :> "localhost" @@ "LocalHost." :> "localhost" @@ "kc" :> "kc"

Spellings == {{"localhost", "LocalHost."}, {"kc"}, {"::1", "0:0::1"}}

Names == {"admin", "user"}

Folded ==
    "PollingBehavior" :> "pollingBehavior" @@ "INTERVAL" :> "interval"

Sorted == " " :> 1 @@ "default" :> 2 @@ "prod" :> 3

Blank == {" "}
-----------------------------------------------------------------------------
(* Documents, put together from the outside in: a scalar or a mapping, and  *)
(* a document under a key.                                                 *)
Scalar(tag, text) == {NodeAt(<<>>, "scalar", tag, text)}
Str(text) == Scalar("!!str", text)
Bool(text) == Scalar("!!bool", text)
Number(text) == Scalar("!!int", text)
Null == Scalar("!!null", "")
Alias == {NodeAt(<<>>, "alias", "", "")}
Sequence == {NodeAt(<<>>, "sequence", "!!seq", "")}
Empty == {NodeAt(<<>>, "mapping", "!!map", "")}

Entry(key, document) == {[node EXCEPT !.path = <<key>> \o @] : node \in document}

(* An entry whose key has another tag, and one that repeats a key.         *)
Tagged(keyTag, entry) ==
    {IF Len(node.path) = 1 THEN [node EXCEPT !.keyTag = keyTag] ELSE node : node \in entry}
Again(entry) == {[node EXCEPT !.nth = 2] : node \in entry}

Mapping(entries) == Empty \cup UNION entries

One(key, node) == Mapping({Entry(key, node)})
Two(key1, node1, key2, node2) == Mapping({Entry(key1, node1), Entry(key2, node2)})
Twice(key, node1, node2) == Mapping({Entry(key, node1), Again(Entry(key, node2))})

Under(keys, node) == FoldRight(One, keys, node)

Polling(key, node) == Under(<<"pollingBehavior", key>>, node)
Backoff(key, node) == Under(<<"pollingBehavior", "backoff", key>>, node)
Api(node) == Under(<<"apiConfig", "authConfig">>, node)

Login(enabled, username, password) ==
    Mapping({Entry("enabled", Bool(enabled)), Entry("username", Str(username)),
             Entry("password", Str(password))})

ValidInSomeOverlay ==
    {Empty,
     Polling("interval", Str("1m")), Polling("interval", Str("0s")),
     Polling("restartFailedTasks", Bool("FALSE")),
     Polling("restartFailedTasks", Scalar("!!str", "yes")),
     Backoff("baseDelay", Str("10s")), Backoff("maxDelay", Str("10s")),
     Backoff("exponential", Bool("false")),
     Two("pollingBehavior", One("backoff", Empty), "loggingConfig", One("level", Str("debug"))),
     Under(<<"communicationConfig", "requestTimeout">>, Str("1m")),
     Api(One("enabled", Bool("True"))), Api(One("enabled", Bool("false"))),
     Api(Two("username", Str("admin"), "password", Str("secret"))),
     Api(One("username", Str(""))),
     Api(Two("username", Number("1"), "password", Str("secret"))),
     Api(Login("true", "admin", "secret"))}

NeverValid ==
    {Sequence, Str(""), Null, One("pollingBehavior", Null), Polling("interval", Number("10")),
     Polling("interval", Str("10")), Polling("interval", Empty), One("pollingBehavior", Str("")),
     One("pollingBehaviour", Empty), Polling("maxDelay", Str("1m")),
     Twice("apiConfig", Empty, Empty),
     Api(Twice("username", Str("admin"), Str("user"))),
     Api(Two("username", Str("admin"), "password", Alias)),
     Mapping({Tagged("!!merge", Entry("<<", Empty))}),
     Under(<<"loggingConfig", "level">>, Str("VERBOSE")),
     Polling("restartFailedTasks", Str("perhaps"))}

FilesOf(nodes) ==
    {NotGiven, Unreadable, File(<<>>), File(<<Empty, Empty>>)} \cup {File(<<n>>) : n \in nodes}
-----------------------------------------------------------------------------
Tls(auth) == Two("https", Bool("true"), "authConfig", auth)

Definitions ==
    {Empty, One("host", Str("::1")), One("host", Str("0:0::1")), One("host", Str("LocalHost.")),
     One("host", Str("no host")), One("port", Number("08083")), One("port", Str("65536")),
     Tls(One("enabled", Bool("true"))),
     One("authConfig", Two("username", Str("user"), "password", Str("pw"))),
     One("authConfig", One("enabled", Bool("true"))), One("https", Bool("true")),
     One("authConfig", Login("false", "", ""))}

BadDefinitions ==
    {Null, Sequence, Str(""), One("host", Null), One("name", Str("kc")), One("https", Str("perhaps")),
     Twice("host", Str("kc"), Str("kc")), Two("host", Str("kc"), "port", Alias)}

ClusterNodes ==
    {Empty} \cup {One("prod", d) : d \in Definitions \cup BadDefinitions}
            \cup {Two("prod", d, "default", One("host", Str("localhost"))) : d \in Definitions}
            \cup {Two("prod", One("host", Str("::1")), "default", One("host", Str("0:0::1"))),
                  One(" ", Empty), Twice("prod", Empty, Empty),
                  Mapping({Tagged("!!int", Entry("1", Empty))})}

AllStartupFiles ==
    [app : FilesOf(ValidInSomeOverlay \cup NeverValid),
     appSecret : FilesOf(ValidInSomeOverlay \cup NeverValid),
     clusters : {NotGiven}, clustersSecret : {NotGiven}]
    \cup
    [app : {NotGiven}, appSecret : {NotGiven},
     clusters : FilesOf(ClusterNodes), clustersSecret : FilesOf(ClusterNodes)]

AllPatchBodies ==
    {Empty, Polling("interval", Str("1m")), Under(<<"PollingBehavior", "INTERVAL">>, Str("20s")),
     Two("pollingBehavior", Empty, "PollingBehavior", One("interval", Str("1m"))),
     Polling("interval", Null), Polling("interval", Number("10")), Polling("interval", Str("-1s")),
     Polling("restartFailedTasks", Str("yes")), Backoff("maxDelay", Str("20s")),
     Backoff("maxDelay", Str("10s")), Api(Login("true", "admin", "secret")),
     Api(Login("false", "", "")), Api(One("password", Str("other"))), Sequence}

AllPutBodies ==
    {Two("host", Str("localhost"), "port", Str("08083")),
     Two("host", Str("0:0::1"), "port", Str("8083")), One("host", Str("kc")),
     Two("Host", Str("kc"), "port", Str("8083")), Two("host", Str("kc"), "port", Number("8083")),
     Mapping({Entry("host", Str("kc")), Entry("port", Str("8083")), Entry("https", Bool("true")),
              Entry("authConfig", Login("true", "user", "pw"))}),
     Mapping({Entry("host", Str("kc")), Entry("port", Str("8083")),
              Entry("authConfig", Login("true", "user", "pw"))})}

AllCredentials ==
    {[username |-> "", password |-> ""], [username |-> "admin", password |-> "secret"]}
=============================================================================
