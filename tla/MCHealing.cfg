SPECIFICATION FairHealingSpec
CONSTANTS
    MaxDuration = 7
    AttemptCap = 3
    AgeCap = 3
    Connectors <- OneConnector
    TaskIDs = {0}
    Keys <- KeysOfOne
    TaskKey <- TaskKeyOfOne
    Configurations <- OneConfiguration
    Responses <- NothingDeleted
    MaxPatches = 0
    MaxEvents = 2
INVARIANTS RestartsHaveACause ShutdownIsQuiet
PROPERTIES FailuresAreHealed
