SPECIFICATION FairSpec
CONSTANTS
    Patchers = {p1, p2}
    Watchers = {w1, w2}
    Getters = {g1}
    Configurations <- AllConfigurations
    Valid <- ValidConfigurations
    APIConfig <- APIConfigOf
    Changes <- Patches
    Rejected = Rejected
    Nobody = Nobody
INVARIANTS TypeOK ChannelClosedOnce WaitingMeansCurrent
PROPERTIES ImplementsConfigCell WatchersCatchUp PatchesReturn
