SPECIFICATION Spec
CONSTANTS
    MaxDuration = 7
    AttemptCap = 3
    AgeCap = 3
    Connectors <- OneConnector
    TaskIDs = {0, 1}
    Keys <- TwoTaskKeys
    TaskKey <- TwoTaskKey
    Configurations <- OneConfiguration
    Responses <- AllSnapshots
    MaxPatches = 0
PROPERTY ImplementsRestartPolicy
