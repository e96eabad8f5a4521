CONSTANTS
    Urls <- MCUrls
    Branches = {"main"}
    BadUrls = {"missing", "withUser", "placeholder", "badHost"}
    BadBranches = {"missing", "badName"}
    BadTokens = {"missing", "placeholder"}
    BadTexts = {"unreadable", "notUtf8"}
    Intervals <- MCIntervals
SPECIFICATION MCSpec
INVARIANTS ConfigTypeOK AcceptedIsUsable SectionsAreIndependent IntervalAsGiven
PROPERTIES NothingNamedTwice RepairsConverge
CHECK_DEADLOCK FALSE
