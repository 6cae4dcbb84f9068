SPECIFICATION FairSpec
CONSTANTS
    n1 = n1
    n2 = n2
    d1 = d1
    d2 = d2
    bad = bad
    r1 = r1
    r2 = r2
    r3 = r3
    Main = Main
    Nobody = Nobody
    NoWorker = NoWorker
    NoDefinition = NoDefinition
    Unread = Unread
    Names <- TwoNames
    Requests <- TwoRequests
    Operations <- ChangesAndReads
    Definitions <- ThreeDefinitions
    ValidDefinitions <- TwoDefinitions
PROPERTIES ImplementsRegistry CallsReturn
