SPECIFICATION Spec
CONSTANTS
    Files = {f1, f2}
    f1 = f1
    f2 = f2
    old = old
    mine = mine
    pushed = pushed
    side = side
    Contents = {old, mine, pushed, side}
    Marked = Marked
    Absent = Absent
    BaseTree <- MCBaseTree
    SideTree <- MCSideTree
    EditTo = {mine, Absent, Marked}
    PushTo = {pushed, Absent}
    UserGit = {"commit"}
    FailAt <- FailSteps
    RaiseAt <- MergeSteps
    KillAt = {}
    Budget <- EditsBudget
PROPERTIES
    OwnMergeEnded
    PublishedHistoryKept
    LocalSideWins
    NoMarkersCommitted
    FollowsPhases
