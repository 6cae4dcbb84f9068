---------------------------- MODULE ConfigAPIProofs ----------------------------
(***************************************************************************)
(* Theorems about ConfigAPI, for any texts and conversions, files, bodies, *)
(* names and credentials.                                                  *)
(***************************************************************************)
EXTENDS ConfigAPI, SequenceTheorems, WellFoundedInduction, TLAPS

(* The types are functions from paths to kinds, with one secret each.      *)
Kinds == {"struct", "duration", "bool", "string", "secret", "level"}

TypeOf(type, secret) ==
    /\ type \in [DOMAIN type -> Kinds]
    /\ <<>> \in DOMAIN type /\ type[<<>>] = "struct"
    /\ \A p \in DOMAIN type : type[p] = "secret" <=> p = secret
    /\ secret \in DOMAIN type

LEMMA ApplicationType == TypeOf(ApplicationConfiguration, APIPassword)
  BY SMTT(60) DEF TypeOf, Kinds, ApplicationConfiguration, Typed, Interval,
       RestartFailedTasks, BackoffEnabled, BaseDelay, MaxDelay, Exponential, RequestTimeout,
       APIEnabled, APIUsername, APIPassword, Level

LEMMA ClusterType == TypeOf(ClusterConfiguration, Password)
  BY SMTT(60) DEF TypeOf, Kinds, ClusterConfiguration, Typed, Host, Port, HTTPS, Enabled,
       Username, Password

LEMMA ApplicationFields ==
    Fields(ApplicationConfiguration) =
      {Interval, BaseDelay, MaxDelay, RequestTimeout, RestartFailedTasks, BackoffEnabled,
       Exponential, APIEnabled, APIUsername, APIPassword, Level}
  BY SMTT(60) DEF Fields, ApplicationConfiguration, Typed, Interval, RestartFailedTasks,
       BackoffEnabled, BaseDelay, MaxDelay, Exponential, RequestTimeout, APIEnabled,
       APIUsername, APIPassword, Level

LEMMA ApplicationKinds ==
    /\ \A p \in {Interval, BaseDelay, MaxDelay, RequestTimeout} :
          ApplicationConfiguration[p] = "duration"
    /\ \A p \in {RestartFailedTasks, BackoffEnabled, Exponential, APIEnabled} :
          ApplicationConfiguration[p] = "bool"
    /\ ApplicationConfiguration[APIUsername] = "string"
    /\ ApplicationConfiguration[APIPassword] = "secret"
    /\ ApplicationConfiguration[Level] = "level"
  BY SMTT(60) DEF ApplicationConfiguration, Typed, Interval, RestartFailedTasks,
       BackoffEnabled, BaseDelay, MaxDelay, Exponential, RequestTimeout, APIEnabled,
       APIUsername, APIPassword, Level

LEMMA ClusterKinds ==
    /\ Fields(ClusterConfiguration) = {Host, Port, HTTPS, Enabled, Username, Password}
    /\ \A p \in {HTTPS, Enabled} : ClusterConfiguration[p] = "bool"
    /\ \A p \in {Host, Port, Username} : ClusterConfiguration[p] = "string"
    /\ ClusterConfiguration[Password] = "secret"
  BY SMTT(60) DEF Fields, ClusterConfiguration, Typed, Host, Port, HTTPS, Enabled,
       Username, Password

LEMMA KindsOfValues ==
    /\ Values("bool") = BOOLEAN
    /\ Values("duration") = Durations
    /\ Values("level") = Levels
    /\ Values("string") = STRING /\ Values("secret") = STRING
  BY DEF Values

(* The fields that the defaults set apart are different fields.            *)
LEMMA FieldsDiffer ==
    /\ \A p \in {Interval, RequestTimeout} : \A q \in {BaseDelay, MaxDelay} : p # q
    /\ BaseDelay # MaxDelay
    /\ \A p \in {Interval, RequestTimeout, BaseDelay, MaxDelay} :
          \A q \in {RestartFailedTasks, BackoffEnabled, Exponential, APIEnabled, Level,
                     APIUsername, APIPassword} : p # q
    /\ \A p \in {RestartFailedTasks, BackoffEnabled, Exponential, APIEnabled} :
          \A q \in {Level, APIUsername, APIPassword} : p # q
    /\ \A p \in {RestartFailedTasks, BackoffEnabled, Exponential} : p # APIEnabled
    /\ Level # APIUsername /\ Level # APIPassword
    /\ APIEnabled # APIPassword /\ APIUsername # APIPassword
  BY DEF Interval, RestartFailedTasks, BackoffEnabled, BaseDelay, MaxDelay, Exponential,
       RequestTimeout, APIEnabled, APIUsername, APIPassword, Level

LEMMA ClusterFieldsDiffer ==
    /\ Host # Port
    /\ \A p \in {Host, Port} : \A q \in {HTTPS, Enabled, Username, Password} : p # q
    /\ \A p \in {HTTPS, Enabled} : \A q \in {Username, Password} : p # q
    /\ Username # Password
  BY DEF Host, Port, HTTPS, Enabled, Username, Password

LEMMA DefaultsAreShaped == Shaped(ApplicationConfiguration, DefaultConfiguration)
  <1>1. DefaultConfiguration[Interval] = 10
    BY FieldsDiffer, ApplicationFields, Zenon DEF DefaultConfiguration
  <1>2. DefaultConfiguration[RequestTimeout] = 10
    BY FieldsDiffer, ApplicationFields, Zenon DEF DefaultConfiguration
  <1>3. DefaultConfiguration[BaseDelay] = 20
    BY FieldsDiffer, ApplicationFields, Zenon DEF DefaultConfiguration
  <1>4. DefaultConfiguration[MaxDelay] = 600
    BY FieldsDiffer, ApplicationFields, Zenon DEF DefaultConfiguration
  <1>5. DefaultConfiguration[RestartFailedTasks] = TRUE
    BY FieldsDiffer, ApplicationFields, Zenon DEF DefaultConfiguration
  <1>6. DefaultConfiguration[BackoffEnabled] = TRUE
    BY FieldsDiffer, ApplicationFields, Zenon DEF DefaultConfiguration
  <1>7. DefaultConfiguration[Exponential] = TRUE
    BY FieldsDiffer, ApplicationFields, Zenon DEF DefaultConfiguration
  <1>8. DefaultConfiguration[APIEnabled] = FALSE
    BY FieldsDiffer, ApplicationFields, Zenon DEF DefaultConfiguration
  <1>9. DefaultConfiguration[Level] = "INFO"
    BY FieldsDiffer, ApplicationFields, Zenon DEF DefaultConfiguration
  <1>10. DefaultConfiguration[APIUsername] = ""
    BY FieldsDiffer, ApplicationFields, Zenon DEF DefaultConfiguration
  <1>11. DefaultConfiguration[APIPassword] = ""
    BY FieldsDiffer, ApplicationFields, Zenon DEF DefaultConfiguration
  <1>12. {10, 20, 600} \subseteq Values("duration") /\ "INFO" \in Values("level")
    BY KindsOfValues, Conversions
  <1>13. \A p \in {Interval, BaseDelay, MaxDelay, RequestTimeout} :
           DefaultConfiguration[p] \in Values("duration")
    BY <1>1, <1>2, <1>3, <1>4, <1>12
  <1>14. \A p \in {RestartFailedTasks, BackoffEnabled, Exponential, APIEnabled} :
           DefaultConfiguration[p] \in Values("bool")
    BY <1>5, <1>6, <1>7, <1>8, KindsOfValues, Zenon
  <1>15. DefaultConfiguration[APIUsername] \in Values("string")
    BY <1>10, KindsOfValues, Conversions
  <1>16. DefaultConfiguration[APIPassword] \in Values("secret")
    BY <1>11, KindsOfValues, Conversions
  <1>17. DefaultConfiguration
           = [p \in Fields(ApplicationConfiguration) |-> DefaultConfiguration[p]]
    <2> DEFINE default(p) ==
           CASE p \in {Interval, RequestTimeout} -> 10
             [] p = BaseDelay -> 20
             [] p = MaxDelay -> 600
             [] p \in {RestartFailedTasks, BackoffEnabled, Exponential} -> TRUE
             [] p = APIEnabled -> FALSE
             [] p = Level -> "INFO"
             [] OTHER -> ""
    <2>1. DefaultConfiguration = [p \in Fields(ApplicationConfiguration) |-> default(p)]
      BY Zenon DEF DefaultConfiguration
    <2> HIDE DEF default
    <2> QED
      BY <2>1
  <1>18. ASSUME NEW p \in Fields(ApplicationConfiguration)
         PROVE  DefaultConfiguration[p] \in Values(ApplicationConfiguration[p])
    <2>1. CASE p \in {Interval, BaseDelay, MaxDelay, RequestTimeout}
      BY <1>13, <2>1, ApplicationKinds, Zenon
    <2>2. CASE p \in {RestartFailedTasks, BackoffEnabled, Exponential, APIEnabled}
      BY <1>14, <2>2, ApplicationKinds, Zenon
    <2>3. CASE p \in {APIUsername, APIPassword, Level}
      BY <1>9, <1>12, <1>15, <1>16, <2>3, ApplicationKinds, Zenon
    <2> QED
      BY <2>1, <2>2, <2>3, ApplicationFields
  <1> QED
    BY <1>17, <1>18 DEF Shaped

LEMMA ClusterDefaultsAreShaped ==
    /\ Shaped(ClusterConfiguration, ZeroCluster)
    /\ Shaped(ClusterConfiguration, DefaultCluster)
    /\ ZeroCluster[Password] = ""
  <1>1. \A p \in {Host, Port, Username, Password} : ZeroCluster[p] = ""
    BY ClusterKinds, ClusterFieldsDiffer, Zenon DEF ZeroCluster
  <1>2. \A p \in {HTTPS, Enabled} : ZeroCluster[p] = FALSE
    BY ClusterKinds, Zenon DEF ZeroCluster
  <1>3. /\ DOMAIN ZeroCluster = Fields(ClusterConfiguration)
        /\ ZeroCluster = [p \in Fields(ClusterConfiguration) |-> ZeroCluster[p]]
    <2> DEFINE zero(p) == IF p \in {HTTPS, Enabled} THEN FALSE ELSE ""
    <2>1. ZeroCluster = [p \in Fields(ClusterConfiguration) |-> zero(p)]
      BY Zenon DEF ZeroCluster
    <2> HIDE DEF zero
    <2> QED
      BY <2>1
  <1>4. \A p \in Fields(ClusterConfiguration) :
          ZeroCluster[p] \in Values(ClusterConfiguration[p])
    <2>1. \A p \in {HTTPS, Enabled} : ZeroCluster[p] \in Values(ClusterConfiguration[p])
      BY <1>2, ClusterKinds, KindsOfValues, Zenon
    <2>2. \A p \in {Host, Port, Username, Password} :
            Values(ClusterConfiguration[p]) = STRING
      BY ClusterKinds, KindsOfValues
    <2>3. "" \in STRING
      BY Conversions
    <2>4. ASSUME NEW p \in {Host, Port, Username, Password}
          PROVE  ZeroCluster[p] \in Values(ClusterConfiguration[p])
      <3>1. ZeroCluster[p] = ""
        BY <1>1
      <3>2. Values(ClusterConfiguration[p]) = STRING
        BY <2>2
      <3> QED
        BY <2>3, <3>1, <3>2, Zenon
    <2> QED
      BY <2>1, <2>4, ClusterKinds, Zenon
  <1>5. \A p \in Fields(ClusterConfiguration) :
          DefaultCluster[p] \in Values(ClusterConfiguration[p])
    <2>1. \A p \in Fields(ClusterConfiguration) :
            p # Host /\ p # Port => DefaultCluster[p] = ZeroCluster[p]
      BY <1>3 DEF DefaultCluster
    <2>2. DefaultCluster[Host] = "localhost" /\ DefaultCluster[Port] = "8083"
      BY <1>3, ClusterKinds, ClusterFieldsDiffer DEF DefaultCluster
    <2>3. Values(ClusterConfiguration[Host]) = STRING
          /\ Values(ClusterConfiguration[Port]) = STRING
      BY ClusterKinds, KindsOfValues
    <2>4. "localhost" \in STRING /\ "8083" \in STRING
      BY Conversions
    <2> QED
      BY <1>4, <2>1, <2>2, <2>3, <2>4, Zenon
  <1>6. DefaultCluster = [p \in Fields(ClusterConfiguration) |-> DefaultCluster[p]]
    BY <1>3 DEF DefaultCluster
  <1> QED
    BY <1>1, <1>3, <1>4, <1>5, <1>6 DEF Shaped
-----------------------------------------------------------------------------
(* What a node is converted to is a value of the kind.                     *)
LEMMA ConvertedFits ==
    ASSUME NEW kind \in Kinds, kind # "struct", NEW node \in Node, NEW format,
           Converts(format, kind, node)
    PROVE  Converted(kind, node) \in Values(kind)
  <1>1. CASE kind = "bool" /\ node.tag = "!!bool"
    <2>1. Converted(kind, node) = (node.text \in TrueTexts)
      BY <1>1, Zenon DEF Converted
    <2>2. (node.text \in TrueTexts) \in BOOLEAN
      OBVIOUS
    <2> QED
      BY <1>1, <2>1, <2>2, KindsOfValues, Zenon
  <1>2. CASE IsText(kind)
    <2>1. Converted(kind, node) = node.text
      BY <1>2, Zenon DEF Converted, IsText
    <2> QED
      BY <1>2, <2>1, KindsOfValues DEF IsText, Node
  <1>3. CASE ~IsText(kind) /\ ~(kind = "bool" /\ node.tag = "!!bool")
    <2>1. Converted(kind, node) = Conversion(kind)[node.text]
      BY <1>3, Zenon DEF Converted
    <2>2. node.text \in DOMAIN Conversion(kind)
      BY <1>3 DEF Converts
    <2>3. kind \in {"bool", "level", "duration"}
      BY <1>3 DEF IsText, Kinds
    <2>4. CASE kind = "bool"
      <3>1. Conversion(kind) = OldBooleans
        BY <2>4 DEF Conversion
      <3> QED
        BY <2>1, <2>2, <2>4, <3>1, KindsOfValues, Conversions, Zenon
    <2>5. CASE kind = "level"
      <3>1. Conversion(kind) = ParseLevel
        BY <2>5 DEF Conversion
      <3> QED
        BY <2>1, <2>2, <2>5, <3>1, KindsOfValues DEF Levels
    <2>6. CASE kind = "duration"
      <3>1. Conversion(kind) = ParseDuration
        BY <2>6 DEF Conversion
      <3> QED
        BY <2>1, <2>2, <2>6, <3>1, KindsOfValues DEF Durations
    <2> QED
      BY <2>3, <2>4, <2>5, <2>6
  <1> QED
    BY <1>1, <1>2, <1>3

(* Decoding onto a value of a type gives a value of that type.             *)
LEMMA OverlaidIsShaped ==
    ASSUME NEW type, NEW secret, TypeOf(type, secret), NEW document \in SUBSET Node,
           NEW format, Decodes(format, type, document), NEW out, Shaped(type, out)
    PROVE  Shaped(type, Overlaid(format, type, document, out))
  <1> DEFINE value == Overlaid(format, type, document, out)
  <1>1. ASSUME NEW p \in Fields(type)
        PROVE  value[p] \in Values(type[p])
    <2> DEFINE nodes == Supplied(format, document, p)
    <2>1. CASE nodes = {}
      BY <2>1 DEF Overlaid, Shaped
    <2>2. CASE nodes # {}
      <3> DEFINE node == CHOOSE n \in nodes : TRUE
      <3>1. node \in nodes
        BY <2>2
      <3>2. node \in document /\ FieldOf(format, node.path) = p
        BY <3>1 DEF Supplied
      <3>3. type[p] \in Kinds /\ type[p] # "struct"
        BY DEF TypeOf, Fields
      <3>4. Converts(format, type[p], node)
        BY <3>2, <3>3 DEF Decodes, Fitting
      <3>5. value[p] = Converted(type[p], node)
        BY <2>2, Zenon DEF Overlaid
      <3> HIDE DEF node
      <3>6. Converted(type[p], node) \in Values(type[p])
        BY <3>2, <3>3, <3>4, ConvertedFits
      <3> QED
        BY <3>5, <3>6
    <2> QED
      BY <2>1, <2>2
  <1>2. value = [p \in Fields(type) |-> value[p]]
    <2> DEFINE at(p) == IF Supplied(format, document, p) = {} THEN out[p]
                        ELSE Converted(type[p], CHOOSE node \in Supplied(format, document, p) : TRUE)
    <2>1. value = [p \in Fields(type) |-> at(p)]
      BY Zenon DEF Overlaid
    <2> HIDE DEF at, value
    <2> QED
      BY <2>1
  <1> QED
    BY <1>1, <1>2, Zenon DEF Shaped
-----------------------------------------------------------------------------
(* A node that GET writes is converted back to what was written.           *)
ConvertsTo(format, kind, path, node, value) ==
    /\ node.path = path /\ ~IsNull(node)
    /\ Converts(format, kind, node)
    /\ Converted(kind, node) = value

LEMMA EncodedIsConverted ==
    ASSUME NEW kind \in Kinds, kind # "struct", NEW path, NEW value \in Values(kind),
           NEW format \in {"patch", "put"}
    PROVE  ConvertsTo(format, kind, path, Encoded(kind, path, value), value)
  <1> DEFINE node == Encoded(kind, path, value)
  <1> SUFFICES ConvertsTo(format, kind, path, node, value)
    OBVIOUS
  <1>1. CASE kind = "bool"
    <2> DEFINE text == IF value THEN "true" ELSE "false"
    <2>1. node = NodeAt(path, "scalar", "!!bool", text)
      BY <1>1, Zenon DEF Encoded
    <2> HIDE DEF text
    <2>2. /\ node.path = path /\ ~IsNull(node)
          /\ node.kind = "scalar" /\ node.tag = "!!bool" /\ node.text = text
      BY <2>1 DEF NodeAt, IsNull
    <2>3. value \in BOOLEAN
      BY <1>1, KindsOfValues, Zenon
    <2>4. (text \in TrueTexts) = value
      BY <2>3 DEF text, TrueTexts
    <2>5. Converts(format, kind, node)
      BY <1>1, <2>2 DEF Converts
    <2>6. Converted(kind, node) = (node.text \in TrueTexts)
      BY <1>1, <2>2, Zenon DEF Converted
    <2> QED
      BY <2>2, <2>4, <2>5, <2>6, Zenon DEF ConvertsTo
  <1>2. CASE kind = "duration"
    <2>1. node = NodeAt(path, "scalar", "!!str", FormatDuration[value])
      BY <1>2, Zenon DEF Encoded
    <2>2. /\ node.path = path /\ ~IsNull(node) /\ node.kind = "scalar"
          /\ node.tag = "!!str" /\ node.text = FormatDuration[value]
      BY <2>1 DEF NodeAt, IsNull
    <2>3. Conversion(kind) = ParseDuration
      BY <1>2 DEF Conversion
    <2>4. value \in Durations
      BY <1>2, KindsOfValues
    <2>5. node.text \in DOMAIN ParseDuration /\ ParseDuration[node.text] = value
      BY <2>2, <2>4, Conversions
    <2>6. Converts(format, kind, node)
      BY <1>2, <2>2, <2>3, <2>5 DEF Converts, ConvertsText
    <2>7. Converted(kind, node) = Conversion(kind)[node.text]
      BY <1>2, Zenon DEF Converted, IsText
    <2> QED
      BY <2>2, <2>3, <2>5, <2>6, <2>7, Zenon DEF ConvertsTo
  <1>3. CASE kind \in {"string", "secret", "level"}
    <2>1. node = NodeAt(path, "scalar", "!!str", value)
      BY <1>3, Zenon DEF Encoded
    <2>2. /\ node.path = path /\ ~IsNull(node) /\ node.kind = "scalar"
          /\ node.tag = "!!str" /\ node.text = value
      BY <2>1 DEF NodeAt, IsNull
    <2>3. CASE IsText(kind)
      <3>1. Converts(format, kind, node)
        BY <1>3, <2>2, <2>3 DEF Converts, ConvertsText
      <3>2. Converted(kind, node) = node.text
        BY <1>3, <2>3, Zenon DEF Converted, IsText
      <3> QED
        BY <2>2, <3>1, <3>2, Zenon DEF ConvertsTo
    <2>4. CASE kind = "level"
      <3>1. Conversion(kind) = ParseLevel
        BY <2>4 DEF Conversion
      <3>2. value \in DOMAIN ParseLevel /\ ParseLevel[value] = value
        BY <2>4, KindsOfValues, Conversions
      <3>3. Converts(format, kind, node)
        BY <2>2, <2>4, <3>1, <3>2 DEF Converts, ConvertsText
      <3>4. Converted(kind, node) = Conversion(kind)[node.text]
        BY <2>4, Zenon DEF Converted, IsText
      <3> QED
        BY <2>2, <3>1, <3>2, <3>3, <3>4, Zenon DEF ConvertsTo
    <2> QED
      BY <1>3, <2>3, <2>4 DEF IsText
  <1> QED
    BY <1>1, <1>2, <1>3 DEF Kinds

(* What GET shows of a value without its secret means that value, with the *)
(* secret that was there.                                                  *)
DecodesBack(format, type, secret, value, out) ==
    DecodeBody(format, type, Encode(type, value), out) =
      {[p \in Fields(type) |-> IF p = secret THEN out[p] ELSE value[p]]}

LEMMA EncodedIsDecoded ==
    ASSUME NEW type, NEW secret, TypeOf(type, secret),
           NEW value, Shaped(type, value), value[secret] = "",
           NEW format \in {"patch", "put"}, \A p \in DOMAIN type : FieldOf(format, p) = p,
           NEW out
    PROVE  DecodesBack(format, type, secret, value, out)
  <1> DEFINE body == Encode(type, value)
             nodeFor(p) == IF p \in Fields(type) THEN Encoded(type[p], p, value[p])
                           ELSE NodeAt(p, "mapping", "!!map", "")
             shown == DOMAIN type \ {secret}
  <1>1. secret \in Fields(type) /\ type[secret] = "secret"
    BY DEF TypeOf, Fields
  <1>2. body = {nodeFor(p) : p \in shown}
    <2>1. \A p \in Fields(type) : Written(type[p], value[p]) <=> p # secret
      BY <1>1 DEF TypeOf, Fields, Written
    <2>2. {f \in Fields(type) : Written(type[f], value[f])} = Fields(type) \ {secret}
      BY <2>1
    <2>3. DOMAIN type \ Fields(type) = shown \ Fields(type)
      BY <1>1
    <2>4. Fields(type) \ {secret} = shown \cap Fields(type)
      BY DEF Fields
    <2> QED
      BY <2>2, <2>3, <2>4, Zenon DEF Encode
  <1>3. ASSUME NEW p \in Fields(type)
        PROVE  /\ nodeFor(p).path = p /\ ~IsNull(nodeFor(p))
               /\ Converts(format, type[p], nodeFor(p))
               /\ Converted(type[p], nodeFor(p)) = value[p]
    <2>1. type[p] \in Kinds /\ type[p] # "struct" /\ value[p] \in Values(type[p])
      BY DEF TypeOf, Fields, Shaped
    <2>2. nodeFor(p) = Encoded(type[p], p, value[p])
      OBVIOUS
    <2>3. ConvertsTo(format, type[p], p, Encoded(type[p], p, value[p]), value[p])
      BY <2>1, EncodedIsConverted, Zenon
    <2> QED
      BY <2>2, <2>3, Zenon DEF ConvertsTo
  <1>4. ASSUME NEW p \in DOMAIN type, p \notin Fields(type)
        PROVE  /\ nodeFor(p).path = p /\ ~IsNull(nodeFor(p))
               /\ nodeFor(p).kind = "mapping" /\ type[p] = "struct"
    <2>1. nodeFor(p) = NodeAt(p, "mapping", "!!map", "")
      BY <1>4
    <2>2. type[p] = "struct"
      BY <1>4 DEF Fields
    <2> DEFINE node == NodeAt(p, "mapping", "!!map", "")
    <2>3. node.path = p /\ ~IsNull(node) /\ node.kind = "mapping"
      BY DEF NodeAt, IsNull
    <2> QED
      BY <2>1, <2>2, <2>3, Zenon
  <1>5. <<>> \in shown /\ nodeFor(<<>>).path = <<>> /\ nodeFor(<<>>).kind = "mapping"
    <2>1. <<>> \in DOMAIN type /\ <<>> \notin Fields(type)
      BY DEF TypeOf, Fields
    <2> QED
      BY <1>1, <1>4, <2>1
  <1> HIDE DEF nodeFor
  <1>6. \A p \in shown : nodeFor(p).path = p /\ FieldOf(format, nodeFor(p).path) = p
    BY <1>3, <1>4
  <1>7. ~HasNull(body)
    BY <1>2, <1>3, <1>4 DEF HasNull
  <1>8. Decodes(format, type, body)
    <2>1. IsMapping(body)
      BY <1>2, <1>5 DEF IsMapping
    <2>2. ~Repeats(format, body)
      <3>1. ASSUME NEW m \in body, NEW n \in body,
                   FieldOf(format, m.path) = FieldOf(format, n.path)
            PROVE  m = n
        <4>1. PICK p \in shown : m = nodeFor(p)
          BY <1>2
        <4>2. PICK q \in shown : n = nodeFor(q)
          BY <1>2
        <4> QED
          BY <1>6, <3>1, <4>1, <4>2
      <3> QED
        BY <3>1, Zenon DEF Repeats
    <2>3. \A p \in shown : Fitting(format, type, nodeFor(p))
      BY <1>3, <1>4, <1>6 DEF Fitting, Fields
    <2> QED
      BY <1>2, <2>1, <2>2, <2>3 DEF Decodes
  <1>9. ASSUME NEW p \in Fields(type), p # secret
        PROVE  Overlaid(format, type, body, out)[p] = value[p]
    <2>1. p \in shown
      BY <1>9 DEF Fields
    <2>2. Supplied(format, body, p) = {nodeFor(p)}
      <3>1. ASSUME NEW n \in body, FieldOf(format, n.path) = p
            PROVE  n = nodeFor(p)
        <4>1. PICK q \in shown : n = nodeFor(q)
          BY <1>2
        <4> QED
          BY <1>6, <3>1, <4>1
      <3>2. nodeFor(p) \in body /\ FieldOf(format, nodeFor(p).path) = p
        BY <1>2, <1>6, <2>1
      <3> QED
        BY <3>1, <3>2, Zenon DEF Supplied
    <2>3. (CHOOSE node \in Supplied(format, body, p) : TRUE) = nodeFor(p)
      BY <2>2
    <2>4. Supplied(format, body, p) # {}
      BY <2>2
    <2>5. Overlaid(format, type, body, out)[p] = Converted(type[p], nodeFor(p))
      BY <2>3, <2>4, Zenon DEF Overlaid
    <2> QED
      BY <1>3, <2>5
  <1>10. Overlaid(format, type, body, out)[secret] = out[secret]
    <2>1. Supplied(format, body, secret) = {}
      BY <1>2, <1>6 DEF Supplied
    <2> QED
      BY <1>1, <2>1, Zenon DEF Overlaid
  <1>11. DOMAIN Overlaid(format, type, body, out) = Fields(type)
    BY DEF Overlaid
  <1>12. Overlaid(format, type, body, out)
          = [p \in Fields(type) |-> IF p = secret THEN out[p] ELSE value[p]]
    <2> DEFINE at(p) == IF Supplied(format, body, p) = {} THEN out[p]
                        ELSE Converted(type[p], CHOOSE node \in Supplied(format, body, p) : TRUE)
    <2>1. Overlaid(format, type, body, out) = [p \in Fields(type) |-> at(p)]
      BY Zenon DEF Overlaid
    <2> HIDE DEF at
    <2> QED
      BY <1>9, <1>10, <2>1
  <1> QED
    BY <1>7, <1>8, <1>12, Zenon DEF DecodeBody, DecodesBack

(* The same of a value that has a secret.                                  *)
MeansItself(format, type, secret, value, out) ==
    DecodeBody(format, type, Encode(type, [value EXCEPT ![secret] = ""]), out) =
      {[value EXCEPT ![secret] = out[secret]]}

LEMMA ShownIsDecoded ==
    ASSUME NEW type, NEW secret, TypeOf(type, secret),
           NEW value, Shaped(type, value),
           NEW format \in {"patch", "put"}, \A p \in DOMAIN type : FieldOf(format, p) = p,
           NEW out
    PROVE  MeansItself(format, type, secret, value, out)
  <1> DEFINE hidden == [value EXCEPT ![secret] = ""]
  <1>1. secret \in Fields(type) /\ type[secret] = "secret"
    BY DEF TypeOf, Fields
  <1>2. value = [p \in Fields(type) |-> value[p]]
    BY DEF Shaped
  <1>3. /\ hidden = [p \in Fields(type) |-> hidden[p]]
        /\ hidden[secret] = ""
        /\ \A p \in Fields(type) : p # secret => hidden[p] = value[p]
    BY <1>1, <1>2
  <1> HIDE DEF hidden
  <1>4. "" \in Values("secret")
    BY KindsOfValues, Conversions
  <1>5. Shaped(type, hidden)
    BY <1>1, <1>3, <1>4 DEF Shaped
  <1>6. DecodesBack(format, type, secret, hidden, out)
    BY <1>3, <1>5, EncodedIsDecoded, Zenon
  <1>7. [p \in Fields(type) |-> IF p = secret THEN out[p] ELSE hidden[p]]
          = [value EXCEPT ![secret] = out[secret]]
    BY <1>1, <1>2, <1>3
  <1> QED
    BY <1>6, <1>7, Zenon DEF DecodesBack, MeansItself, hidden
-----------------------------------------------------------------------------
(* What the files and the bodies give is of the right type.                *)
LEMMA BelowIsADocument ==
    ASSUME NEW document \in SUBSET Node, NEW key
    PROVE  Below(document, key) \in SUBSET Node
  BY DEF Below, Node

LEMMA ReadIsADocument ==
    ASSUME NEW file \in Files, NEW document \in ReadFile(file)
    PROVE  document \in SUBSET Node
  BY DEF ReadFile, Files, Document

LEMMA DecodedFileIsShaped ==
    ASSUME NEW file \in Files, NEW out, Shaped(ApplicationConfiguration, out),
           NEW c \in DecodeFile(file, out)
    PROVE  Shaped(ApplicationConfiguration, c)
  <1>1. CASE ~file.given
    BY <1>1 DEF DecodeFile
  <1>2. CASE file.given
    <2>1. PICK d \in ReadFile(file) :
            /\ Decodes("yaml", ApplicationConfiguration, d)
            /\ c = Overlaid("yaml", ApplicationConfiguration, d, out)
      BY <1>2 DEF DecodeFile
    <2> QED
      BY <2>1, ReadIsADocument, ApplicationType, OverlaidIsShaped
  <1> QED
    BY <1>1, <1>2

LEMMA LoadedIsValid ==
    ASSUME NEW base \in Files, NEW secret \in Files, NEW c \in LoadFiles(base, secret)
    PROVE  Shaped(ApplicationConfiguration, c) /\ ValidConfiguration(c)
  <1>1. PICK b \in DecodeFile(base, DefaultConfiguration) : c \in DecodeFile(secret, b)
    BY DEF LoadFiles
  <1>2. Shaped(ApplicationConfiguration, b)
    BY DefaultsAreShaped, DecodedFileIsShaped
  <1>3. Shaped(ApplicationConfiguration, c)
    BY <1>1, <1>2, DecodedFileIsShaped
  <1> QED
    BY <1>3 DEF LoadFiles

(* Named definitions of the right type.                                    *)
ShapedClusters(k) ==
    /\ k = [n \in DOMAIN k |-> k[n]]
    /\ DOMAIN k \subseteq DOMAIN NameRank
    /\ \A n \in DOMAIN k : Shaped(ClusterConfiguration, k[n])

LEMMA DecodedClustersAreShaped ==
    ASSUME NEW file \in Files, \A d \in ReadFile(file) : KeysOf(d) \subseteq DOMAIN NameRank,
           NEW k, ShapedClusters(k), NEW c \in DecodeClusters(file, k)
    PROVE  ShapedClusters(c)
  <1>1. CASE ~file.given
    BY <1>1 DEF DecodeClusters
  <1>2. CASE file.given
    <2>1. PICK d \in ReadFile(file) :
            /\ \A name \in KeysOf(d) : Decodes("yaml", ClusterConfiguration, Below(d, name))
            /\ c = MergeClusters(d, k)
      BY <1>2 DEF DecodeClusters
    <2>2. ASSUME NEW name \in KeysOf(d)
          PROVE  Shaped(ClusterConfiguration,
                        Overlaid("yaml", ClusterConfiguration, Below(d, name),
                                 OldDefinition(k, name)))
      <3>1. Below(d, name) \in SUBSET Node
        BY ReadIsADocument, BelowIsADocument
      <3>2. Shaped(ClusterConfiguration, OldDefinition(k, name))
        BY ClusterDefaultsAreShaped DEF OldDefinition, ShapedClusters
      <3> QED
        BY <2>1, <3>1, <3>2, ClusterType, OverlaidIsShaped
    <2> DEFINE merged(name) ==
           IF name \in KeysOf(d)
           THEN Overlaid("yaml", ClusterConfiguration, Below(d, name), OldDefinition(k, name))
           ELSE k[name]
    <2>3. c = [name \in DOMAIN k \cup KeysOf(d) |-> merged(name)]
      BY <2>1, Zenon DEF MergeClusters
    <2>4. \A name \in DOMAIN k \cup KeysOf(d) : Shaped(ClusterConfiguration, merged(name))
      BY <2>2 DEF ShapedClusters
    <2> HIDE DEF merged
    <2> QED
      BY <2>3, <2>4 DEF ShapedClusters
  <1> QED
    BY <1>1, <1>2

LEMMA LoadedClustersAreValid ==
    ASSUME NEW base \in Files, NEW secret \in Files,
           \A d \in ReadFile(base) \cup ReadFile(secret) : KeysOf(d) \subseteq DOMAIN NameRank,
           NEW c \in LoadClusterFiles(base, secret)
    PROVE  ShapedClusters(c) /\ \A n \in DOMAIN c : ValidCluster(c[n])
  <1> DEFINE start == IF base.given THEN NoClusters
                      ELSE [name \in {"default"} |-> DefaultCluster]
  <1>1. ShapedClusters(start)
    BY NamesAreSorted, ClusterDefaultsAreShaped DEF NoClusters, ShapedClusters
  <1> HIDE DEF start
  <1>2. PICK b \in DecodeClusters(base, start) : c \in DecodeClusters(secret, b)
    BY DEF LoadClusterFiles, start
  <1>3. ShapedClusters(b)
    BY <1>1, DecodedClustersAreShaped
  <1>4. ShapedClusters(c)
    BY <1>2, <1>3, DecodedClustersAreShaped
  <1> QED
    BY <1>4 DEF LoadClusterFiles

LEMMA DecodedBodyIsShaped ==
    ASSUME NEW type, NEW secret, TypeOf(type, secret), NEW body \in SUBSET Node,
           NEW format, NEW out, Shaped(type, out), NEW c \in DecodeBody(format, type, body, out)
    PROVE  Shaped(type, c)
  BY OverlaidIsShaped DEF DecodeBody
-----------------------------------------------------------------------------
(* What is valid stays valid.                                              *)
LEMMA PutNamesAreExact ==
    ASSUME NEW p \in DOMAIN ClusterConfiguration
    PROVE  FieldOf("put", p) = p
  <1>1. DOMAIN ClusterConfiguration =
          {<<>>, <<"authConfig">>, Host, Port, HTTPS, Enabled, Username, Password}
    BY SMTT(60) DEF ClusterConfiguration, Typed
  <1>2. FieldOf("put", <<>>) = <<>>
    BY DEF FieldOf
  <1>3. FieldOf("put", <<"authConfig">>) = <<"authConfig">>
    BY DEF FieldOf
  <1>4. \A q \in {Host, Port, HTTPS} : FieldOf("put", q) = q
    BY DEF FieldOf, Host, Port, HTTPS
  <1>5. \A q \in {Enabled, Username, Password} : FieldOf("put", q) = q
    BY DEF FieldOf, Enabled, Username, Password
  <1> QED
    BY <1>1, <1>2, <1>3, <1>4, <1>5, Zenon

LEMMA InitSettings == Init => SettingsInv
  BY DEF Init, SettingsInv

LEMMA SeenIsPatchedBack ==
    ASSUME SettingsInv, seen # NothingSeen
    PROVE  Patched(seen.body, configuration) = {seen.origin}
  <1> DEFINE origin == seen.origin
             type == ApplicationConfiguration
  <1>1. Shaped(type, origin) /\ ValidConfiguration(origin)
        /\ APIAuth(origin) = APIAuth(configuration)
        /\ seen.body = Encode(type, [origin EXCEPT ![APIPassword] = ""])
    BY DEF SettingsInv
  <1>2. DecodeBody("patch", type, seen.body, configuration) =
          {[origin EXCEPT ![APIPassword] = configuration[APIPassword]]}
    <2>1. MeansItself("patch", type, APIPassword, origin, configuration)
      BY <1>1, ApplicationType, NamesAreExact, ShownIsDecoded, Zenon
    <2> QED
      BY <1>1, <2>1, Zenon DEF MeansItself
  <1>3. [origin EXCEPT ![APIPassword] = configuration[APIPassword]] = origin
    <2>1. origin[APIPassword] = configuration[APIPassword]
      BY <1>1 DEF APIAuth
    <2>2. origin = [p \in Fields(type) |-> origin[p]]
      BY <1>1 DEF Shaped
    <2> HIDE DEF origin
    <2> QED
      BY <2>1, <2>2
  <1>4. Accepted(origin, configuration)
    BY <1>1 DEF Accepted
  <1> QED
    BY <1>2, <1>3, <1>4 DEF Patched

LEMMA ShownIsPutBack ==
    ASSUME SettingsInv, stage = "serving", NEW n \in DOMAIN clusters
    PROVE  PutDefinition(ShownCluster(n)) =
             {c \in {[clusters[n] EXCEPT ![Password] = ""]} : ValidCluster(c)}
  <1>1. Shaped(ClusterConfiguration, clusters[n])
    BY DEF SettingsInv, StoredIsValid
  <1>2. DecodeBody("put", ClusterConfiguration, ShownCluster(n), ZeroCluster) =
          {[clusters[n] EXCEPT ![Password] = ZeroCluster[Password]]}
    <2>1. MeansItself("put", ClusterConfiguration, Password, clusters[n], ZeroCluster)
      BY <1>1, ClusterType, PutNamesAreExact, ShownIsDecoded, Zenon
    <2> QED
      BY <2>1, Zenon DEF ShownCluster, MeansItself
  <1> QED
    BY <1>2, ClusterDefaultsAreShaped, Zenon DEF PutDefinition

LEMMA PatchedIsValid ==
    ASSUME SettingsInv, stage = "serving", NEW body \in PatchBodies \cup {seen.body},
           NEW next \in Patched(body, configuration)
    PROVE  Shaped(ApplicationConfiguration, next) /\ Accepted(next, configuration)
  <1>1. Accepted(next, configuration)
    BY DEF Patched
  <1>2. CASE body \in SUBSET Node
    <2>1. next \in DecodeBody("patch", ApplicationConfiguration, body, configuration)
      BY DEF Patched
    <2>2. Shaped(ApplicationConfiguration, configuration)
      BY DEF SettingsInv, StoredIsValid
    <2> QED
      BY <1>1, <1>2, <2>1, <2>2, ApplicationType, DecodedBodyIsShaped
  <1>3. CASE body = seen.body /\ seen # NothingSeen
    <2>1. next = seen.origin
      BY <1>3, SeenIsPatchedBack
    <2> QED
      BY <1>1, <1>3, <2>1 DEF SettingsInv
  <1>4. NothingSeen.body \in SUBSET Node
    BY DEF NothingSeen
  <1> QED
    BY <1>2, <1>3, <1>4, InputsAreTyped DEF Document

LEMMA PutIsValid ==
    ASSUME SettingsInv, stage = "serving",
           NEW body \in PutBodies \cup {ShownCluster(n) : n \in DOMAIN clusters},
           NEW c \in PutDefinition(body)
    PROVE  Shaped(ClusterConfiguration, c) /\ ValidCluster(c)
  <1>1. ValidCluster(c)
    BY DEF PutDefinition
  <1>2. CASE body \in PutBodies
    <2>1. c \in DecodeBody("put", ClusterConfiguration, body, ZeroCluster)
      BY DEF PutDefinition
    <2>2. body \in SUBSET Node
      BY <1>2, InputsAreTyped DEF Document
    <2> QED
      BY <1>1, <2>1, <2>2, ClusterType, ClusterDefaultsAreShaped, DecodedBodyIsShaped
  <1>3. CASE body \notin PutBodies
    <2>1. PICK n \in DOMAIN clusters : body = ShownCluster(n)
      BY <1>3
    <2>2. c = [clusters[n] EXCEPT ![Password] = ""]
      BY <2>1, ShownIsPutBack
    <2>3. Shaped(ClusterConfiguration, clusters[n])
      BY DEF SettingsInv, StoredIsValid
    <2>4. Password \in Fields(ClusterConfiguration) /\ "" \in Values(ClusterConfiguration[Password])
      BY ClusterKinds, KindsOfValues, Conversions
    <2> QED
      BY <1>1, <2>2, <2>3, <2>4 DEF Shaped
  <1> QED
    BY <1>2, <1>3

LEMMA StartIsValid ==
    ASSUME SettingsInv, Start
    PROVE  /\ Shaped(ApplicationConfiguration, configuration')
           /\ ValidConfiguration(configuration')
           /\ ShapedClusters(clusters')
           /\ \A n \in DOMAIN clusters' : ValidCluster(clusters'[n]) /\ ValidName(n)
  <1>1. files \in StartupFiles
    BY DEF SettingsInv, Start
  <1>2. /\ files.app \in Files /\ files.appSecret \in Files
        /\ files.clusters \in Files /\ files.clustersSecret \in Files
    BY <1>1, InputsAreTyped
  <1>3. \A d \in ReadFile(files.clusters) \cup ReadFile(files.clustersSecret) :
          KeysOf(d) \subseteq DOMAIN NameRank
    <2>1. /\ files["clusters"] = files.clusters
          /\ files["clustersSecret"] = files.clustersSecret
      OBVIOUS
    <2> QED
      BY <1>1, <2>1, InputsAreTyped, Zenon
  <1>4. configuration' \in LoadFiles(files.app, files.appSecret)
    BY DEF Start, Configured
  <1>5. clusters' \in LoadClusterFiles(files.clusters, files.clustersSecret)
    BY DEF Start, Defined
  <1>6. Shaped(ApplicationConfiguration, configuration') /\ ValidConfiguration(configuration')
    BY <1>2, <1>4, LoadedIsValid
  <1>7. ShapedClusters(clusters') /\ \A n \in DOMAIN clusters' : ValidCluster(clusters'[n])
    BY <1>2, <1>3, <1>5, LoadedClustersAreValid
  <1> QED
    BY <1>6, <1>7 DEF Start

LEMMA NextSettings == SettingsInv /\ [Next]_apiVars => SettingsInv'
  <1> SUFFICES ASSUME SettingsInv, [Next]_apiVars PROVE SettingsInv'
    OBVIOUS
  <1>1. CASE Start
    <2>1. stage = "starting" /\ stage' = "serving" /\ seen' = seen
          /\ enforced' = APIAuth(configuration')
      BY <1>1 DEF Start
    <2>2. seen = NothingSeen
      BY <2>1 DEF SettingsInv
    <2>3. StoredIsValid' /\ (DOMAIN clusters \subseteq DOMAIN NameRank)'
      BY <1>1, StartIsValid DEF StoredIsValid, ShapedClusters
    <2> QED
      BY <2>1, <2>2, <2>3 DEF SettingsInv
  <1>2. CASE Exit
    <2>1. stage = "starting" /\ stage' = "exited" /\ seen' = seen
      BY <1>2 DEF Exit
    <2> QED
      BY <2>1 DEF SettingsInv
  <1>3. ASSUME NEW c \in Credentials, GetConfig(c)
        PROVE  SettingsInv'
    <2>1. /\ stage = "serving" /\ UNCHANGED <<files, stage, enforced, configuration, clusters>>
          /\ seen' = [body |-> ShownConfiguration, origin |-> configuration]
      BY <1>3 DEF GetConfig, Request
    <2>2. StoredIsValid' /\ StoredIsValid
      BY <2>1 DEF SettingsInv, StoredIsValid
    <2>3. seen'.origin = configuration /\ seen'.body = ShownConfiguration
      BY <2>1
    <2> QED
      BY <2>1, <2>2, <2>3 DEF SettingsInv, StoredIsValid, ShownConfiguration
  <1>4. ASSUME NEW c \in Credentials, NEW body \in PatchBodies \cup {seen.body},
               PatchConfig(c, body)
        PROVE  SettingsInv'
    <2>1. /\ stage = "serving" /\ UNCHANGED <<files, stage, enforced, clusters, seen>>
          /\ configuration' \in Patched(body, configuration)
      BY <1>4 DEF PatchConfig, Request
    <2>2. /\ Shaped(ApplicationConfiguration, configuration')
          /\ Accepted(configuration', configuration)
      BY <2>1, PatchedIsValid
    <2>3. APIAuth(configuration') = APIAuth(configuration) /\ ValidConfiguration(configuration')
      BY <2>2 DEF Accepted
    <2>4. StoredIsValid'
      BY <2>1, <2>2, <2>3 DEF SettingsInv, StoredIsValid
    <2> QED
      BY <2>1, <2>3, <2>4 DEF SettingsInv
  <1>5. ASSUME NEW c \in Credentials, NEW name \in DOMAIN NameRank,
               NEW body \in PutBodies \cup {ShownCluster(n) : n \in DOMAIN clusters},
               PutCluster(c, name, body)
        PROVE  SettingsInv'
    <2>1. /\ stage = "serving" /\ UNCHANGED <<files, stage, enforced, configuration, seen>>
          /\ ValidName(name)
      BY <1>5 DEF PutCluster, Request
    <2>2. PICK d \in PutDefinition(body) :
            clusters' = [n \in DOMAIN clusters \cup {name} |->
                           IF n = name THEN d ELSE clusters[n]]
      BY <1>5 DEF PutCluster
    <2>3. Shaped(ClusterConfiguration, d) /\ ValidCluster(d)
      BY <2>1, <2>2, PutIsValid
    <2>4. StoredIsValid /\ DOMAIN clusters \subseteq DOMAIN NameRank
      BY <2>1 DEF SettingsInv
    <2>5. DOMAIN clusters' = DOMAIN clusters \cup {name}
          /\ \A n \in DOMAIN clusters' : clusters'[n] = IF n = name THEN d ELSE clusters[n]
      BY <2>2
    <2>6. \A n \in DOMAIN clusters' : /\ ValidName(n)
                                      /\ Shaped(ClusterConfiguration, clusters'[n])
                                      /\ ValidCluster(clusters'[n])
      BY <2>1, <2>3, <2>4, <2>5 DEF StoredIsValid
    <2>7. StoredIsValid'
      BY <2>1, <2>4, <2>6 DEF StoredIsValid
    <2>8. (DOMAIN clusters \subseteq DOMAIN NameRank)'
      BY <2>4, <2>5
    <2> QED
      BY <2>1, <2>7, <2>8 DEF SettingsInv
  <1>6. ASSUME NEW c \in Credentials, NEW name \in DOMAIN NameRank, DeleteCluster(c, name)
        PROVE  SettingsInv'
    <2>1. /\ stage = "serving" /\ UNCHANGED <<files, stage, enforced, configuration, seen>>
          /\ clusters' = [n \in DOMAIN clusters \ {name} |-> clusters[n]]
      BY <1>6 DEF DeleteCluster, Request
    <2>2. StoredIsValid' /\ (DOMAIN clusters \subseteq DOMAIN NameRank)'
      BY <2>1 DEF SettingsInv, StoredIsValid
    <2> QED
      BY <2>1, <2>2 DEF SettingsInv
  <1>7. CASE UNCHANGED apiVars
    BY <1>7 DEF apiVars, SettingsInv, StoredIsValid
  <1> QED
    BY <1>1, <1>2, <1>3, <1>4, <1>5, <1>6, <1>7 DEF Next

(* Why the two invariants below hold: see SettingsInv.                     *)
THEOREM SettingsAreKept == Spec => []SettingsInv
  BY InitSettings, NextSettings, PTL DEF Spec

(* The settings in force would pass as a startup configuration, and the    *)
(* server compares with the credentials of its configuration, whatever was *)
(* patched, put and deleted (PatchConfig, PutCluster, basicAuth).          *)
THEOREM ValidSettings == Spec => []ServesValidSettings
  <1>1. SettingsInv => ServesValidSettings
    BY DEF SettingsInv, ServesValidSettings
  <1> QED
    BY <1>1, SettingsAreKept, PTL

(* What GET shows means, when it is sent back, what it was shown of.       *)
THEOREM RoundTrips == Spec => []RoundTripKeepsEverything
  <1>1. ASSUME SettingsInv, stage = "serving", NEW n \in DOMAIN clusters,
               NEW c \in PutDefinition(ShownCluster(n))
        PROVE  ~c[Enabled] /\ c = [clusters[n] EXCEPT ![Password] = ""]
    <2>1. c = [clusters[n] EXCEPT ![Password] = ""] /\ ValidCluster(c)
      BY <1>1, ShownIsPutBack
    <2>2. clusters[n] = [p \in Fields(ClusterConfiguration) |-> clusters[n][p]]
      BY <1>1 DEF SettingsInv, StoredIsValid, Shaped
    <2>3. c[Password] = ""
      BY <2>1, <2>2, ClusterKinds
    <2>4. ~c[Enabled]
      BY <2>1, <2>3, Zenon DEF ValidCluster, ValidCredentials
    <2> QED
      BY <2>1, <2>4
  <1>2. SettingsInv => RoundTripKeepsEverything
    BY <1>1, SeenIsPatchedBack, Zenon DEF RoundTripKeepsEverything
  <1> QED
    BY <1>2, SettingsAreKept, PTL
-----------------------------------------------------------------------------
(* Warnings.  The hosts that the README takes for one are those that       *)
(* CanonicalHost makes one.                                                *)
ValidHosts == DOMAIN LowerTrimmed \cup DOMAIN ParseAddr

HostsAgree ==
    \A g, h \in ValidHosts :
        CanonicalHost(g) = CanonicalHost(h) <=> \E class \in SameHost : {g, h} \subseteq class

(* Of the clusters with one endpoint, the first is found.                  *)
LEMMA FirstIsFirst ==
    ASSUME NEW k, DOMAIN k \subseteq DOMAIN NameRank, NEW n \in DOMAIN k
    PROVE  /\ FirstWith(k, n) \in DOMAIN k
           /\ EndpointOf(k[FirstWith(k, n)]) = EndpointOf(k[n])
           /\ \A j \in DOMAIN k : EndpointOf(k[j]) = EndpointOf(k[n])
                                  => NameRank[FirstWith(k, n)] <= NameRank[j]
  <1> DEFINE same(m) == EndpointOf(k[m]) = EndpointOf(k[n])
             isFirst(m) == same(m) /\ \A j \in DOMAIN k : same(j) => NameRank[m] <= NameRank[j]
             ranks == {NameRank[m] : m \in {j \in DOMAIN k : same(j)}}
  <1>1. same(n)
    OBVIOUS
  <1>2. FirstWith(k, n) = CHOOSE m \in DOMAIN k : isFirst(m)
    BY Zenon DEF FirstWith
  <1>3. SUFFICES \E m \in DOMAIN k : isFirst(m)
    BY <1>2, <1>3
  <1> HIDE DEF same
  <1>4. ranks \subseteq Nat /\ ranks # {}
    BY <1>1, NamesAreSorted
  <1> HIDE DEF ranks
  <1>5. PICK r \in ranks : \A s \in ranks : <<s, r>> \notin OpToRel(<, Nat)
    BY <1>4, WFMin, NatLessThanWellFounded
  <1>6. \A s \in ranks : r <= s
    <2>1. \A s \in ranks : ~(s < r)
      BY <1>4, <1>5 DEF OpToRel
    <2> QED
      BY <1>4, <2>1
  <1>7. PICK m \in DOMAIN k : same(m) /\ r = NameRank[m]
    BY DEF ranks
  <1> QED
    BY <1>6, <1>7 DEF ranks

LEMMA OneEndpointEach ==
    ASSUME HostsAgree, NEW c, NEW d, ValidCluster(c), ValidCluster(d)
    PROVE  EndpointOf(c) = EndpointOf(d) <=> OneEndpoint(c, d)
  <1>1. c[Host] \in ValidHosts /\ d[Host] \in ValidHosts
    BY DEF ValidCluster, ValidHosts
  <1>2. CanonicalHost(c[Host]) = CanonicalHost(d[Host])
          <=> \E class \in SameHost : {c[Host], d[Host]} \subseteq class
    BY <1>1 DEF HostsAgree
  <1>3. EndpointOf(c) = EndpointOf(d)
          <=> /\ c[HTTPS] = d[HTTPS]
              /\ CanonicalHost(c[Host]) = CanonicalHost(d[Host])
              /\ Atoi[c[Port]] = Atoi[d[Port]]
    BY DEF EndpointOf
  <1> QED
    BY <1>2, <1>3, Zenon DEF OneEndpoint

LEMMA WarningsAreExact ==
    ASSUME HostsAgree, NEW k, DOMAIN k \subseteq DOMAIN NameRank,
           \A n \in DOMAIN k : ValidCluster(k[n])
    PROVE  UNION {{p[1], p[2]} : p \in WarnDuplicateEndpoints(k)}
             = {n \in DOMAIN k : \E m \in DOMAIN k \ {n} : OneEndpoint(k[n], k[m])}
  <1> DEFINE named == UNION {{p[1], p[2]} : p \in WarnDuplicateEndpoints(k)}
             twins == {n \in DOMAIN k : \E m \in DOMAIN k \ {n} : OneEndpoint(k[n], k[m])}
             first(n) == FirstWith(k, n)
  <1>1. \A n, m \in DOMAIN k : EndpointOf(k[n]) = EndpointOf(k[m]) <=> OneEndpoint(k[n], k[m])
    BY OneEndpointEach
  <1>2. \A n \in DOMAIN k :
          /\ first(n) \in DOMAIN k
          /\ EndpointOf(k[first(n)]) = EndpointOf(k[n])
          /\ \A j \in DOMAIN k : EndpointOf(k[j]) = EndpointOf(k[n])
                                 => NameRank[first(n)] <= NameRank[j]
    BY FirstIsFirst
  <1>3. WarnDuplicateEndpoints(k) = {<<first(n), n>> : n \in {m \in DOMAIN k : first(m) # m}}
    BY Zenon DEF WarnDuplicateEndpoints
  <1> HIDE DEF first
  <1>4. \A x : x \in named <=> \E n \in DOMAIN k : first(n) # n /\ x \in {first(n), n}
    <2> DEFINE pairs == WarnDuplicateEndpoints(k)
    <2>1. \A x : x \in named <=> \E p \in pairs : x \in {p[1], p[2]}
      BY Zenon
    <2>2. \A p : p \in pairs <=> \E n \in DOMAIN k : first(n) # n /\ p = <<first(n), n>>
      BY <1>3, Zenon
    <2> HIDE DEF pairs, named
    <2>3. \A p \in pairs : \E n \in DOMAIN k : first(n) # n /\ p[1] = first(n) /\ p[2] = n
      BY <2>2
    <2>4. \A n \in DOMAIN k : first(n) # n =>
            \E p \in pairs : p[1] = first(n) /\ p[2] = n
      <3>1. \A n \in DOMAIN k : first(n) # n => <<first(n), n>> \in pairs
        BY <2>2, Zenon
      <3> QED
        BY <3>1
    <2> QED
      BY <2>1, <2>3, <2>4, Zenon
  <1> HIDE DEF named
  <1>5. ASSUME NEW n \in DOMAIN k, first(n) # n
        PROVE  n \in twins /\ first(n) \in twins
    BY <1>1, <1>2, <1>5
  <1>6. ASSUME NEW n \in twins
        PROVE  n \in named
    <2>1. PICK m \in DOMAIN k \ {n} : OneEndpoint(k[n], k[m])
      OBVIOUS
    <2>2. CASE first(n) # n
      BY <1>4, <2>2
    <2>3. CASE first(n) = n
      <3>1. EndpointOf(k[n]) = EndpointOf(k[m])
        BY <1>1, <2>1
      <3>2. EndpointOf(k[first(m)]) = EndpointOf(k[n]) /\ first(m) \in DOMAIN k
        BY <1>2, <3>1
      <3>3. NameRank[n] <= NameRank[first(m)] /\ NameRank[first(m)] <= NameRank[n]
        BY <1>2, <2>3, <3>1, <3>2
      <3>4. first(m) = n
        BY <3>2, <3>3, NamesAreSorted
      <3> QED
        BY <1>4, <2>1, <3>4
    <2> QED
      BY <2>2, <2>3
  <1>7. named \subseteq twins
    BY <1>4, <1>5
  <1>8. named = twins
    <2> HIDE DEF twins
    <2> QED
      BY <1>6, <1>7
  <1> QED
    BY <1>8 DEF named

(* Clusters with one endpoint are named in a warning, and no others, at    *)
(* startup and when a PUT changes a definition (WarnDuplicateEndpoints),   *)
(* as far as hosts are one when CanonicalHost says so.                     *)
THEOREM DuplicatesWarned == HostsAgree => (Spec => DuplicatesAreWarned)
  <1> SUFFICES ASSUME HostsAgree PROVE Spec => DuplicatesAreWarned
    OBVIOUS
  <1> DEFINE twins(k) == {n \in DOMAIN k : \E m \in DOMAIN k \ {n} : OneEndpoint(k[n], k[m])}
             changed == \E n \in DOMAIN clusters' :
                           n \notin DOMAIN clusters \/ clusters'[n] # clusters[n]
             exact == UNION {{p[1], p[2]} : p \in warned'} = twins(clusters')
  <1>1. ASSUME SettingsInv, SettingsInv', Next, changed
        PROVE  exact
    <2>1. warned' = WarnDuplicateEndpoints(clusters') /\ stage' = "serving"
      <3>1. CASE Start
        BY <3>1 DEF Start
      <3>2. CASE \E c \in Credentials, name \in DOMAIN NameRank :
                   \E body \in PutBodies \cup {ShownCluster(n) : n \in DOMAIN clusters} :
                      PutCluster(c, name, body)
        BY <1>1, <3>2 DEF PutCluster, Request
      <3>3. CASE UNCHANGED clusters
        BY <1>1, <3>3
      <3>4. CASE \E c \in Credentials, name \in DOMAIN NameRank : DeleteCluster(c, name)
        BY <1>1, <3>4 DEF DeleteCluster
      <3> QED
        BY <1>1, <3>1, <3>2, <3>3, <3>4 DEF Next, Exit, GetConfig, PatchConfig
    <2>2. /\ DOMAIN clusters' \subseteq DOMAIN NameRank
          /\ \A n \in DOMAIN clusters' : ValidCluster(clusters'[n])
      BY <1>1, <2>1 DEF SettingsInv, StoredIsValid
    <2> QED
      BY <2>1, <2>2, WarningsAreExact
  <1>2. SettingsInv /\ SettingsInv' /\ [Next]_apiVars
          => [changed => exact]_apiVars
    BY <1>1
  <1> QED
    BY <1>2, SettingsAreKept, PTL DEF Spec, DuplicatesAreWarned
-----------------------------------------------------------------------------
(* Startup.  A strict document has one node for each path, and decoding it *)
(* onto a value puts what the document says over the value.                *)
OneEach(document) == \A m, n \in document : m.path = n.path => m = n

Over(type, document, out) ==
    [p \in Fields(type) |->
       IF \E n \in document : n.path = p
       THEN Converted(type[p], CHOOSE n \in document : n.path = p)
       ELSE out[p]]

LEMMA YAMLNamesAreExact == \A node \in Node : FieldOf("yaml", node.path) = node.path
  BY DEF Node, FieldOf

LEMMA StrictIsWellFormed ==
    ASSUME NEW d \in SUBSET Node
    PROVE  IsMapping(d) /\ CheckNode(d) <=> WellFormed(d)
  BY YAMLNamesAreExact DEF CheckNode, WellFormed, Repeats

LEMMA FittingDecodes ==
    ASSUME NEW d \in SUBSET Node, OneEach(d), NEW type
    PROVE  Decodes("yaml", type, d) <=> Fits(type, d)
  <1>1. ~Repeats("yaml", d)
    BY YAMLNamesAreExact DEF OneEach, Repeats
  <1>2. \A n \in d : FieldOf("yaml", n.path) = n.path
    BY YAMLNamesAreExact
  <1>3. \A n \in d : Fitting("yaml", type, n)
          <=> /\ n.path \in DOMAIN type
              /\ n.path \notin Fields(type) => n.kind = "mapping"
              /\ n.path \in Fields(type) => Converts("yaml", type[n.path], n)
    BY <1>2 DEF Fitting, Fields
  <1> QED
    BY <1>1, <1>3 DEF Decodes, Fits

LEMMA OverlaidIsOver ==
    ASSUME NEW d \in SUBSET Node, OneEach(d), NEW type, NEW out
    PROVE  Overlaid("yaml", type, d, out) = Over(type, d, out)
  <1> DEFINE at(p) == IF Supplied("yaml", d, p) = {} THEN out[p]
                      ELSE Converted(type[p], CHOOSE node \in Supplied("yaml", d, p) : TRUE)
             over(p) == IF \E n \in d : n.path = p
                        THEN Converted(type[p], CHOOSE n \in d : n.path = p)
                        ELSE out[p]
  <1>1. ASSUME NEW p \in Fields(type) PROVE at(p) = over(p)
    <2>1. \A n \in d : FieldOf("yaml", n.path) = n.path
      BY YAMLNamesAreExact
    <2>2. Supplied("yaml", d, p) = {n \in d : n.path = p}
      BY <2>1 DEF Supplied
    <2>3. CASE \E n \in d : n.path = p
      <3>1. PICK n \in d : n.path = p
        BY <2>3
      <3>2. Supplied("yaml", d, p) = {n}
        BY <2>2, <3>1 DEF OneEach
      <3>3. (CHOOSE node \in Supplied("yaml", d, p) : TRUE) = n
        BY <3>2
      <3>4. (CHOOSE m \in d : m.path = p) = n
        BY <3>1 DEF OneEach
      <3> QED
        BY <2>3, <3>2, <3>3, <3>4, Zenon
    <2>4. CASE ~\E n \in d : n.path = p
      BY <2>2, <2>4, Zenon
    <2> QED
      BY <2>3, <2>4
  <1>2. Overlaid("yaml", type, d, out) = [p \in Fields(type) |-> at(p)]
    BY Zenon DEF Overlaid
  <1>3. Over(type, d, out) = [p \in Fields(type) |-> over(p)]
    BY Zenon DEF Over
  <1> HIDE DEF at, over
  <1> QED
    BY <1>1, <1>2, <1>3

LEMMA LayersAreOver ==
    ASSUME NEW type, NEW secret, NEW base, NEW default
    PROVE  Over(type, secret, Over(type, base, default)) = Layered(type, secret, base, default)
  <1> DEFINE below(p) == IF \E n \in base : n.path = p
                         THEN Converted(type[p], CHOOSE n \in base : n.path = p)
                         ELSE default[p]
             layer(p) == IF \E n \in secret : n.path = p
                         THEN Converted(type[p], CHOOSE n \in secret : n.path = p)
                         ELSE below(p)
  <1>1. Over(type, base, default) = [p \in Fields(type) |-> below(p)]
    BY Zenon DEF Over
  <1>2. Layered(type, secret, base, default) = [p \in Fields(type) |-> layer(p)]
    BY Zenon DEF Layered
  <1> HIDE DEF below
  <1>3. \A p \in Fields(type) : Over(type, base, default)[p] = below(p)
    BY <1>1
  <1> DEFINE inner == Over(type, base, default)
             over(p) == IF \E n \in secret : n.path = p
                        THEN Converted(type[p], CHOOSE n \in secret : n.path = p)
                        ELSE inner[p]
  <1>4. Over(type, secret, inner) = [p \in Fields(type) |-> over(p)]
    BY Zenon DEF Over
  <1>5. \A p \in Fields(type) : over(p) = layer(p)
    BY <1>3, Zenon
  <1> HIDE DEF inner, over, layer
  <1>6. Over(type, secret, inner) = Layered(type, secret, base, default)
    BY <1>2, <1>4, <1>5
  <1> QED
    BY <1>6 DEF inner

LEMMA NothingOver ==
    ASSUME NEW type, NEW out, out = [p \in Fields(type) |-> out[p]]
    PROVE  Over(type, {}, out) = out
  BY DEF Over

LEMMA HeadAndTail ==
    ASSUME NEW S, NEW s \in Seq(S), NEW t \in Seq(S), s # <<>>, t # <<>>,
           Head(s) = Head(t), Tail(s) = Tail(t)
    PROVE  s = t
  <1>1. /\ s \in [1..Len(s) -> S] /\ t \in [1..Len(t) -> S]
        /\ Len(s) \in Nat /\ Len(t) \in Nat
    OBVIOUS
  <1>2. /\ Len(Tail(s)) = Len(s) - 1 /\ Len(Tail(t)) = Len(t) - 1
        /\ \A i \in 1..(Len(s) - 1) : Tail(s)[i] = s[i + 1]
        /\ \A i \in 1..(Len(t) - 1) : Tail(t)[i] = t[i + 1]
    BY HeadTailProperties
  <1>3. Len(s) = Len(t)
    <2>1. Len(s) - 1 = Len(t) - 1
      BY <1>2, Zenon
    <2>2. \A a, b \in Nat : a - 1 = b - 1 => a = b
      OBVIOUS
    <2> QED
      BY <1>1, <2>1, <2>2, Zenon
  <1>4. s[1] = t[1]
    OBVIOUS
  <1> DEFINE n == Len(s)
             rest == Tail(s)
  <1>5. /\ n \in Nat /\ s \in [1..n -> S] /\ t \in [1..n -> S]
        /\ \A i \in 1..(n - 1) : s[i + 1] = rest[i] /\ t[i + 1] = rest[i]
    BY <1>1, <1>2, <1>3
  <1> HIDE DEF n, rest
  <1>6. ASSUME NEW i \in 1..n, i # 1 PROVE s[i] = t[i]
    <2>1. i - 1 \in 1..(n - 1) /\ (i - 1) + 1 = i
      BY <1>5, <1>6
    <2> QED
      BY <1>5, <2>1
  <1> QED
    BY <1>4, <1>5, <1>6

(* The parts of a strict document are strict.                              *)
LEMMA BelowIsStrict ==
    ASSUME NEW d \in SUBSET Node, OneEach(d), NEW key
    PROVE  OneEach(Below(d, key)) /\ Below(d, key) \in SUBSET Node
  <1>1. ASSUME NEW m \in Below(d, key), NEW n \in Below(d, key), m.path = n.path
        PROVE  m = n
    <2>1. PICK a \in d : a.path # <<>> /\ Head(a.path) = key
                          /\ m = [a EXCEPT !.path = Tail(@)]
      BY DEF Below
    <2>2. PICK b \in d : b.path # <<>> /\ Head(b.path) = key
                          /\ n = [b EXCEPT !.path = Tail(@)]
      BY DEF Below
    <2>3. a \in Node /\ b \in Node /\ a.path \in Seq(STRING) /\ b.path \in Seq(STRING)
      BY DEF Node
    <2>4. Tail(a.path) = Tail(b.path)
      BY <1>1, <2>1, <2>2, <2>3 DEF Node
    <2>5. a.path = b.path
      BY <2>1, <2>2, <2>3, <2>4, HeadAndTail
    <2>6. a = b
      BY <2>5 DEF OneEach
    <2> QED
      BY <2>1, <2>2, <2>6
  <1> QED
    BY <1>1, BelowIsADocument DEF OneEach

LEMMA NothingBelow ==
    ASSUME NEW d \in Document, NEW key, key \notin KeysOf(d)
    PROVE  Below(d, key) = {}
  BY DEF Document, Below

LEMMA EmptyIsEmpty == {} \in Document /\ KeysOf({}) = {} /\ \A key : Below({}, key) = {}
  BY DEF Document, KeysOf, Below

(* A file that is given is read if it holds one strict mapping.            *)
LEMMA WhatIsRead ==
    ASSUME NEW file \in Files
    PROVE  /\ file.given => ReadFile(file) = IF HoldsOne(file) THEN {Said(file)} ELSE {}
           /\ HoldsOne(file) => Said(file) \in Document /\ OneEach(Said(file))
  <1>1. file.documents \in Seq(Document)
    BY DEF Files
  <1>2. CASE ~file.given
    BY <1>2, EmptyIsEmpty DEF Said, OneEach
  <1>3. CASE file.given
    <2>1. Said(file) = file.documents[1]
      BY <1>3 DEF Said
    <2>2. CASE Len(file.documents) # 1
      BY <1>3, <2>2 DEF ReadFile, HoldsOne
    <2>3. CASE Len(file.documents) = 1
      <3> DEFINE d == file.documents[1]
      <3>1. d \in Document /\ {file.documents[i] : i \in DOMAIN file.documents} = {d}
        BY <1>1, <2>3
      <3>2. d \in SUBSET Node
        BY <3>1 DEF Document
      <3>3. WellFormed(d) <=> IsMapping(d) /\ CheckNode(d)
        BY <3>2, StrictIsWellFormed
      <3>4. WellFormed(d) => OneEach(d)
        BY DEF WellFormed, OneEach
      <3>5. HoldsOne(file) <=> file.readable /\ WellFormed(d)
        BY <1>3, <2>3 DEF HoldsOne
      <3>6. ReadFile(file) = {n \in {d} : file.readable /\ IsMapping(n) /\ CheckNode(n)}
        BY <2>3, <3>1, Zenon DEF ReadFile
      <3> HIDE DEF d
      <3>7. ReadFile(file) = IF HoldsOne(file) THEN {d} ELSE {}
        BY <3>3, <3>5, <3>6
      <3> QED
        BY <2>1, <3>1, <3>4, <3>5, <3>7 DEF d
    <2> QED
      BY <2>2, <2>3
  <1> QED
    BY <1>2, <1>3

IsStrict(file) ==
    HoldsOne(file) /\ (file.given => Fits(ApplicationConfiguration, Said(file)))

LEMMA DecodedFile ==
    ASSUME NEW file \in Files, NEW out, out = [p \in Fields(ApplicationConfiguration) |-> out[p]]
    PROVE  DecodeFile(file, out) =
             IF IsStrict(file) THEN {Over(ApplicationConfiguration, Said(file), out)} ELSE {}
  <1> DEFINE type == ApplicationConfiguration
             d == Said(file)
  <1>1. CASE ~file.given
    <2>1. d = {} /\ IsStrict(file)
      BY <1>1 DEF Said, IsStrict, HoldsOne
    <2>2. Over(type, d, out) = out
      BY <2>1, NothingOver
    <2> QED
      BY <1>1, <2>1, <2>2, Zenon DEF DecodeFile
  <1>2. CASE file.given
    <2>1. DecodeFile(file, out) =
            {Overlaid("yaml", type, n, out) : n \in {m \in ReadFile(file) : Decodes("yaml", type, m)}}
      BY <1>2, Zenon DEF DecodeFile
    <2>2. CASE ~HoldsOne(file)
      BY <1>2, <2>1, <2>2, WhatIsRead DEF IsStrict
    <2>3. CASE HoldsOne(file)
      <3>1. ReadFile(file) = {d} /\ d \in SUBSET Node /\ OneEach(d)
        BY <1>2, <2>3, WhatIsRead DEF Document
      <3>2. Decodes("yaml", type, d) <=> IsStrict(file)
        BY <1>2, <2>3, <3>1, FittingDecodes DEF IsStrict
      <3>3. Overlaid("yaml", type, d, out) = Over(type, d, out)
        BY <3>1, OverlaidIsOver
      <3> HIDE DEF type, d
      <3>4. DecodeFile(file, out) = IF IsStrict(file) THEN {Over(type, d, out)} ELSE {}
        BY <2>1, <3>1, <3>2, <3>3
      <3> QED
        BY <3>4 DEF type, d
    <2> QED
      BY <2>2, <2>3
  <1> QED
    BY <1>1, <1>2

LEMMA LoadedLayers ==
    ASSUME NEW base \in Files, NEW secret \in Files
    PROVE  LET app == Layered(ApplicationConfiguration, Said(secret), Said(base),
                              DefaultConfiguration)
           IN  LoadFiles(base, secret) =
                 IF IsStrict(base) /\ IsStrict(secret) /\ ValidConfiguration(app)
                 THEN {app} ELSE {}
  <1> DEFINE type == ApplicationConfiguration
             app == Layered(type, Said(secret), Said(base), DefaultConfiguration)
             first == Over(type, Said(base), DefaultConfiguration)
             decoded == UNION {DecodeFile(secret, b) : b \in DecodeFile(base, DefaultConfiguration)}
  <1>1. DecodeFile(base, DefaultConfiguration) = IF IsStrict(base) THEN {first} ELSE {}
    BY DefaultsAreShaped, DecodedFile DEF Shaped
  <1>2. first = [p \in Fields(type) |-> first[p]]
    <2> DEFINE at(p) == IF \E n \in Said(base) : n.path = p
                        THEN Converted(type[p], CHOOSE n \in Said(base) : n.path = p)
                        ELSE DefaultConfiguration[p]
    <2>1. first = [p \in Fields(type) |-> at(p)]
      BY Zenon DEF Over
    <2> HIDE DEF at, first
    <2> QED
      BY <2>1
  <1>3. DecodeFile(secret, first) = IF IsStrict(secret) THEN {Over(type, Said(secret), first)} ELSE {}
    BY <1>2, DecodedFile
  <1>4. Over(type, Said(secret), first) = app
    BY LayersAreOver
  <1>5. LoadFiles(base, secret) = {c \in decoded : ValidConfiguration(c)}
    BY Zenon DEF LoadFiles
  <1> HIDE DEF app, first
  <1>6. decoded = IF IsStrict(base) /\ IsStrict(secret) THEN {app} ELSE {}
    BY <1>1, <1>3, <1>4
  <1> HIDE DEF decoded
  <1>7. LoadFiles(base, secret) =
          IF IsStrict(base) /\ IsStrict(secret) /\ ValidConfiguration(app) THEN {app} ELSE {}
    BY <1>5, <1>6
  <1> QED
    BY <1>7 DEF app

(* The same of the files of clusters, name by name.                        *)
AreStrict(file) ==
    /\ HoldsOne(file)
    /\ \A n \in KeysOf(Said(file)) : Fits(ClusterConfiguration, Below(Said(file), n))

Merged(d, k) ==
    [n \in DOMAIN k \cup KeysOf(d) |->
       Over(ClusterConfiguration, Below(d, n), OldDefinition(k, n))]

AreDefinitions(k) ==
    /\ k = [n \in DOMAIN k |-> k[n]]
    /\ \A n \in DOMAIN k : k[n] = [p \in Fields(ClusterConfiguration) |-> k[n][p]]

LEMMA OverIsADefinition ==
    ASSUME NEW d, NEW out
    PROVE  Over(ClusterConfiguration, d, out) =
             [p \in Fields(ClusterConfiguration) |-> Over(ClusterConfiguration, d, out)[p]]
  <1> DEFINE value == Over(ClusterConfiguration, d, out)
             at(p) == IF \E n \in d : n.path = p
                      THEN Converted(ClusterConfiguration[p], CHOOSE n \in d : n.path = p)
                      ELSE out[p]
  <1>1. value = [p \in Fields(ClusterConfiguration) |-> at(p)]
    BY Zenon DEF Over
  <1> HIDE DEF at, value
  <1>2. value = [p \in Fields(ClusterConfiguration) |-> value[p]]
    BY <1>1
  <1> QED
    BY <1>2 DEF value

LEMMA MergedAreDefinitions == \A d, k : AreDefinitions(Merged(d, k))
  BY OverIsADefinition DEF AreDefinitions, Merged

LEMMA DecodedClusterFile ==
    ASSUME NEW file \in Files, NEW k, AreDefinitions(k)
    PROVE  DecodeClusters(file, k) = IF AreStrict(file) THEN {Merged(Said(file), k)} ELSE {}
  <1> DEFINE type == ClusterConfiguration
             d == Said(file)
  <1>1. ASSUME NEW n \in DOMAIN k, Below(d, n) = {}
        PROVE  Over(type, Below(d, n), OldDefinition(k, n)) = k[n]
    <2>1. OldDefinition(k, n) = k[n] /\ k[n] = [p \in Fields(type) |-> k[n][p]]
      BY DEF OldDefinition, AreDefinitions
    <2> QED
      BY <1>1, <2>1, NothingOver
  <1>2. CASE ~file.given
    <2>1. d = {} /\ AreStrict(file)
      BY <1>2, EmptyIsEmpty DEF Said, AreStrict, HoldsOne
    <2>2. Merged(d, k) = k
      <3> DEFINE over(n) == Over(type, Below(d, n), OldDefinition(k, n))
      <3>1. \A n \in DOMAIN k : over(n) = k[n]
        BY <1>1, <2>1, EmptyIsEmpty
      <3>2. Merged(d, k) = [n \in DOMAIN k |-> over(n)]
        BY <2>1, EmptyIsEmpty DEF Merged
      <3> HIDE DEF over
      <3> QED
        BY <3>1, <3>2 DEF AreDefinitions
    <2> QED
      BY <1>2, <2>1, <2>2, Zenon DEF DecodeClusters
  <1>3. CASE file.given
    <2> DEFINE strict(n) == \A name \in KeysOf(n) : Decodes("yaml", type, Below(n, name))
    <2>1. DecodeClusters(file, k) = {MergeClusters(n, k) : n \in {m \in ReadFile(file) : strict(m)}}
      BY <1>3, Zenon DEF DecodeClusters
    <2>2. CASE ~HoldsOne(file)
      BY <1>3, <2>1, <2>2, WhatIsRead DEF AreStrict
    <2>3. CASE HoldsOne(file)
      <3>1. ReadFile(file) = {d} /\ d \in Document /\ d \in SUBSET Node /\ OneEach(d)
        BY <1>3, <2>3, WhatIsRead DEF Document
      <3>2. \A n : OneEach(Below(d, n)) /\ Below(d, n) \in SUBSET Node
        BY <3>1, BelowIsStrict
      <3>3. strict(d) <=> AreStrict(file)
        BY <2>3, <3>2, FittingDecodes DEF AreStrict
      <3>4. MergeClusters(d, k) = Merged(d, k)
        <4> DEFINE merged(n) == IF n \in KeysOf(d)
                                THEN Overlaid("yaml", type, Below(d, n), OldDefinition(k, n))
                                ELSE k[n]
                   over(n) == Over(type, Below(d, n), OldDefinition(k, n))
        <4>1. \A n \in KeysOf(d) : merged(n) = over(n)
          BY <3>2, OverlaidIsOver
        <4>2. \A n \in DOMAIN k \ KeysOf(d) : merged(n) = over(n)
          BY <1>1, <3>1, NothingBelow
        <4>3. MergeClusters(d, k) = [n \in DOMAIN k \cup KeysOf(d) |-> merged(n)]
          BY Zenon DEF MergeClusters
        <4>4. Merged(d, k) = [n \in DOMAIN k \cup KeysOf(d) |-> over(n)]
          BY Zenon DEF Merged
        <4> HIDE DEF merged, over
        <4> QED
          BY <4>1, <4>2, <4>3, <4>4
      <3> HIDE DEF d, strict
      <3>5. DecodeClusters(file, k) = IF AreStrict(file) THEN {Merged(d, k)} ELSE {}
        BY <2>1, <3>1, <3>3, <3>4
      <3> QED
        BY <3>5 DEF d
    <2> QED
      BY <2>2, <2>3
  <1> QED
    BY <1>2, <1>3

LayersOf(base, secret) ==
    [n \in KeysOf(Said(secret)) \cup IF base.given THEN KeysOf(Said(base)) ELSE {"default"} |->
       Layered(ClusterConfiguration, Below(Said(secret), n), Below(Said(base), n),
               DefaultCluster)]

LEMMA LoadedClusterLayers ==
    ASSUME NEW base \in Files, NEW secret \in Files
    PROVE  LoadClusterFiles(base, secret) =
             IF /\ AreStrict(base) /\ AreStrict(secret)
                /\ \A n \in DOMAIN LayersOf(base, secret) : ValidCluster(LayersOf(base, secret)[n])
             THEN {LayersOf(base, secret)} ELSE {}
  <1> DEFINE start == IF base.given THEN NoClusters
                      ELSE [name \in {"default"} |-> DefaultCluster]
             first == Merged(Said(base), start)
             second == Merged(Said(secret), first)
             decoded == UNION {DecodeClusters(secret, b) : b \in DecodeClusters(base, start)}
             valid(c) == \A name \in DOMAIN c : ValidCluster(c[name])
             type == ClusterConfiguration
  <1>1. /\ start = [n \in DOMAIN start |-> DefaultCluster]
        /\ DOMAIN start = IF base.given THEN {} ELSE {"default"}
    BY DEF NoClusters
  <1>2. DefaultCluster = [p \in Fields(type) |-> DefaultCluster[p]]
    BY ClusterDefaultsAreShaped DEF Shaped
  <1> HIDE DEF start
  <1>3. AreDefinitions(start) /\ \A n : OldDefinition(start, n) = DefaultCluster
    BY <1>1, <1>2 DEF AreDefinitions, OldDefinition
  <1>4. DecodeClusters(base, start) = IF AreStrict(base) THEN {first} ELSE {}
    BY <1>3, DecodedClusterFile
  <1>5. DecodeClusters(secret, first) = IF AreStrict(secret) THEN {second} ELSE {}
    BY MergedAreDefinitions, DecodedClusterFile
  <1>6. ASSUME AreStrict(base)
        PROVE  second = LayersOf(base, secret)
    <2>1. Said(base) \in Document
      BY <1>6, WhatIsRead DEF AreStrict
    <2>2. ASSUME NEW n
          PROVE  OldDefinition(first, n) = Over(type, Below(Said(base), n), DefaultCluster)
      <3>1. CASE n \in DOMAIN first
        BY <1>3, <3>1 DEF OldDefinition, Merged
      <3>2. CASE n \notin DOMAIN first
        <4>1. Below(Said(base), n) = {}
          BY <2>1, <3>2, NothingBelow DEF Merged
        <4>2. Over(type, Below(Said(base), n), DefaultCluster) = DefaultCluster
          BY <1>2, <4>1, NothingOver
        <4> QED
          BY <3>2, <4>2 DEF OldDefinition
      <3> QED
        BY <3>1, <3>2
    <2>3. ASSUME NEW n
          PROVE  Over(type, Below(Said(secret), n), OldDefinition(first, n))
                   = Layered(type, Below(Said(secret), n), Below(Said(base), n), DefaultCluster)
      BY <2>2, LayersAreOver
    <2>4. DOMAIN first \cup KeysOf(Said(secret))
            = KeysOf(Said(secret)) \cup IF base.given THEN KeysOf(Said(base)) ELSE {"default"}
      <3>1. DOMAIN first = DOMAIN start \cup KeysOf(Said(base))
        BY DEF Merged
      <3>2. ~base.given => KeysOf(Said(base)) = {}
        BY EmptyIsEmpty DEF Said
      <3> QED
        BY <1>1, <3>1, <3>2
    <2> HIDE DEF first
    <2> QED
      BY <2>3, <2>4 DEF Merged, LayersOf
  <1>7. LoadClusterFiles(base, secret) = {c \in decoded : valid(c)}
    BY Zenon DEF LoadClusterFiles, start
  <1> HIDE DEF first, second, valid
  <1>8. decoded = IF AreStrict(base) /\ AreStrict(secret) THEN {LayersOf(base, secret)} ELSE {}
    BY <1>4, <1>5, <1>6
  <1> HIDE DEF decoded
  <1>9. LoadClusterFiles(base, secret) =
          IF AreStrict(base) /\ AreStrict(secret) /\ valid(LayersOf(base, secret))
          THEN {LayersOf(base, secret)} ELSE {}
    BY <1>7, <1>8
  <1> QED
    BY <1>9, Zenon DEF valid

(* A setting has the value that the overlay gives it, or else the base     *)
(* file, or else the default, cluster by cluster; the process serves if    *)
(* the files are strictly well formed and the result is valid, and exits   *)
(* otherwise (LoadFiles, LoadClusterFiles, ReadFile, main).                *)
THEOREM StartupLayers == Spec => StartupIsLayered
  <1>1. ASSUME SettingsInv, Next, stage = "starting"
        PROVE  IF FilesAreStrict /\ LayersAreValid
               THEN /\ stage' = "serving"
                    /\ configuration' = LayeredConfiguration
                    /\ clusters' = LayeredClusters
               ELSE stage' = "exited"
    <2>1. files \in StartupFiles
      BY <1>1 DEF SettingsInv
    <2>2. /\ files.app \in Files /\ files.appSecret \in Files
          /\ files.clusters \in Files /\ files.clustersSecret \in Files
      BY <2>1, InputsAreTyped
    <2>3. FilesAreStrict <=> /\ IsStrict(files.app) /\ IsStrict(files.appSecret)
                             /\ AreStrict(files.clusters) /\ AreStrict(files.clustersSecret)
      BY DEF FilesAreStrict, IsStrict, AreStrict
    <2>4. LayeredClusters = LayersOf(files.clusters, files.clustersSecret)
      BY Zenon DEF LayeredClusters, LayersOf
    <2> DEFINE validApp == ValidConfiguration(LayeredConfiguration)
               validClusters == \A n \in DOMAIN LayeredClusters : ValidCluster(LayeredClusters[n])
               appStrict == IsStrict(files.app) /\ IsStrict(files.appSecret)
               clustersStrict == AreStrict(files.clusters) /\ AreStrict(files.clustersSecret)
    <2>5. Configured = IF appStrict /\ validApp THEN {LayeredConfiguration} ELSE {}
      BY <2>2, LoadedLayers, Zenon DEF Configured, LayeredConfiguration
    <2>6. Defined = IF clustersStrict /\ validClusters THEN {LayeredClusters} ELSE {}
      BY <2>2, <2>4, LoadedClusterLayers DEF Defined
    <2>7. LayersAreValid <=> /\ validApp /\ validClusters
                             /\ \A n \in DOMAIN LayeredClusters : ValidName(n)
      BY Zenon DEF LayersAreValid
    <2> HIDE DEF validApp, validClusters, appStrict, clustersStrict
    <2>8. CASE Start
      BY <2>3, <2>5, <2>6, <2>7, <2>8 DEF Start, appStrict, clustersStrict
    <2>9. CASE Exit
      BY <2>3, <2>5, <2>6, <2>7, <2>9 DEF Exit, appStrict, clustersStrict
    <2>10. Start \/ Exit
      BY <1>1 DEF Next, GetConfig, PatchConfig, PutCluster, DeleteCluster, Request
    <2> QED
      BY <2>8, <2>9, <2>10
  <1>2. SettingsInv /\ [Next]_apiVars
          => [ stage = "starting" =>
                 IF FilesAreStrict /\ LayersAreValid
                 THEN /\ stage' = "serving"
                      /\ configuration' = LayeredConfiguration
                      /\ clusters' = LayeredClusters
                 ELSE stage' = "exited" ]_apiVars
    BY <1>1
  <1> QED
    BY <1>2, SettingsAreKept, PTL DEF Spec, StartupIsLayered
=============================================================================
