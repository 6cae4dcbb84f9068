SPECIFICATION Spec
CONSTANTS
    MaxDuration = 7
    AttemptCap = 3
    AgeCap = 3
    Connectors <- CollidingConnectors
    TaskIDs = {0}
    Keys <- CollidingKeys
    TaskKey <- CollidingTaskKey
    Configurations <- OneConfiguration
    Responses <- BusySnapshots
    MaxPatches = 0
PROPERTY BackoffTrackedSeparately
