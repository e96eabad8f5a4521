SPECIFICATION Spec
CONSTANTS
    Files = {f1, f2}
    f1 = f1
    f2 = f2
    old = old
    mine = mine
    pushed = pushed
    side = side
    Contents = {old, mine, pushed, side}
    Marked = Marked
    Absent = Absent
    BaseTree <- MCBaseTree
    SideTree <- MCSideTree
    EditTo = {mine}
    PushTo = {pushed}
    UserGit = {"merge", "switch", "commit", "lock"}
    FailAt = {"unlink"}
    RaiseAt <- FailSteps
    KillAt <- AllSteps
    Budget <- UserBudget
INVARIANTS
    TypeOK
    NothingUnfetched
PROPERTIES
    OpenMergeWaits
    ReplicatesHistory
    LiveLockKept
