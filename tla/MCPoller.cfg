SPECIFICATION Spec
CONSTANTS
    MaxDuration = 7
    AttemptCap = 3
    AgeCap = 3
    Connectors <- OneConnector
    TaskIDs = {0}
    Keys <- KeysOfOne
    TaskKey <- TaskKeyOfOne
    Configurations <- ThreeConfigurations
    Responses <- AllSnapshots
    MaxPatches = 2
INVARIANTS TypeOK SettingsInSync CurrentOrNotified RemediatedAreTracked
PROPERTIES RecoveryReported BackoffTrackedSeparately ImplementsRestartPolicy
