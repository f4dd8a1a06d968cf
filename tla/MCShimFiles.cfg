CONSTANTS
    p1 = p1
    p2 = p2
    N = 2
    Programs = {p1, p2}
    MaxTroubles = 2

SPECIFICATION FairSpec

INVARIANTS
    AsideIsServed

PROPERTIES
    LosesNothing
    FailedInstallUndone
    UninstallCompletes
