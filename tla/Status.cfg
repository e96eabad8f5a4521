SPECIFICATION Spec
CONSTANTS
    Assets <- MCAssets
    Urls <- MCUrls
    Second = 2
    Interval = 2
    MaxTime = 8
    Budget <- StatusBudget
CHECK_DEADLOCK FALSE
INVARIANT StatusTellsOutcome
