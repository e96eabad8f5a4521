SPECIFICATION FairSpec
CONSTANTS
    Assets <- MCAssets
    Urls <- MCUrls
    Second = 1
    Interval = 1
    MaxTime = 3
    Budget <- MCBudget
CHECK_DEADLOCK FALSE
INVARIANTS
    ServiceTypeOK
    EnabledMeansScheduled
    OneCloneAtATime
PROPERTIES
    StopWaitsForAll
    EveryRepoServed
    StopCompletes
    FollowsPhases
