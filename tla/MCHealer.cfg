SPECIFICATION HealerSpec
CONSTANTS
    n1 = n1
    n2 = n2
    d1 = d1
    d2 = d2
    bad = bad
    r1 = r1
    r2 = r2
    Main = Main
    Nobody = Nobody
    NoWorker = NoWorker
    NoDefinition = NoDefinition
    Unread = Unread
    Names <- TwoNames
    Requests <- TwoRequests
    Operations <- PutsOfOneEndpoint
    Definitions <- ThreeDefinitions
    ValidDefinitions <- TwoDefinitions
    Endpoints <- TwoEndpoints
    Endpoint <- EndpointOfEach
SYMMETRY Interchangeable
INVARIANTS LateRequestsAreRefused StopsInOrder ActiveRequestsFinish PollingOutlivesServer SharedEndpointsAreWarned
