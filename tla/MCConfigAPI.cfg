SPECIFICATION Spec
CONSTANTS
    ParseDuration <- DurationTexts
    FormatDuration <- CanonicalDurations
    ParseLevel <- LevelTexts
    OldBooleans <- YesAndNo
    Atoi <- Ports
    ParseAddr <- Addresses
    LowerTrimmed <- Hosts
    Usernames <- Names
    FoldedName <- Folded
    NameRank <- Sorted
    StartupFiles <- AllStartupFiles
    BlankNames <- Blank
    PatchBodies <- AllPatchBodies
    PutBodies <- AllPutBodies
    Credentials <- AllCredentials
    MaxRequests = 3
    SameHost <- Spellings
INVARIANTS ServesValidSettings RoundTripKeepsEverything
PROPERTIES StartupIsLayered DuplicatesAreWarned
CHECK_DEADLOCK FALSE
