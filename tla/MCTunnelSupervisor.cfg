CONSTANTS
    CrashLoopThreshold = 3
    MaxRetry = 2
    MaxLost = 2
    LocalTrouble = {"local-daemon-down"}
    RemoteTrouble = {"remote-down", "remote-stale"}
    IdentityTrouble = {"remote-token-invalid"}

SPECIFICATION FairSpec

INVARIANTS
    HealthyHasForward
    DiskTracksMemory
    BreakerBound

PROPERTIES
    StaysWithinOwnedChild
    CancelledRunEnds
    DeadChildNoticed
    Recovery
