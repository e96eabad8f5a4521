SPECIFICATION Spec
CONSTANTS
    Assets <- MCAssets
    Urls <- MovingUrls
    Second = 1
    Interval = 1
    MaxTime = 3
    Budget <- MCBudget
CHECK_DEADLOCK FALSE
INVARIANT BacksUpToConfigured
