SPECIFICATION FairSpec
CONSTANTS
    MaxDuration = 7
    AttemptCap = 3
    AgeCap = 3
    Connectors <- OneConnector
    TaskIDs = {0}
    Keys <- KeysOfOne
    TaskKey <- TaskKeyOfOne
    Configurations <- ThreeConfigurations
    Responses <- BusySnapshots
    MaxPatches = 1
PROPERTIES UpdatesAreAdopted CancelStops FailingTargetsAreRestarted
