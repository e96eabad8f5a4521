CONSTANTS
    Files = {f1, f2}
    f1 = f1
    f2 = f2
    old = old
    Contents = {old, mine, theirs}
    Marked = Marked
    Absent = Absent
    BaseTree <- MCBaseTree
    HereTo = {mine, Absent}
    ThereTo = {theirs}
    FailAt <- MCFailAt
    RaiseAt <- MCRaiseAt
    KillAt <- MCKillAt
    HereBudget <- MCHereBudget
    ThereBudget <- MCThereBudget
SPECIFICATION FairSpec
PROPERTIES BothReplicate NothingReverted BothInSync
