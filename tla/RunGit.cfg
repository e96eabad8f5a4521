CONSTANTS
    Pids = {p1, p2, p3, p4}
    MaxCalls = 2
SPECIFICATION FairSpec
INVARIANTS RunGitTypeOK CommandHasEnded
PROPERTIES SignalsReachOwnCommand CallsEnd
