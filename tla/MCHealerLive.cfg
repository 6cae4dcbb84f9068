SPECIFICATION FairHealerSpec
CONSTANTS
    n1 = n1
    n2 = n2
    d1 = d1
    d2 = d2
    bad = bad
    r1 = r1
    r2 = r2
    Main = Main
    Nobody = Nobody
    NoWorker = NoWorker
    NoDefinition = NoDefinition
    Unread = Unread
    Names <- OneName
    Requests <- OneRequest
    Operations <- OneOfEachKind
    Definitions <- ThreeDefinitions
    ValidDefinitions <- TwoDefinitions
    Endpoints <- TwoEndpoints
    Endpoint <- EndpointOfEach
PROPERTY SignalEndsProcess
INVARIANT HealerTypeOK
