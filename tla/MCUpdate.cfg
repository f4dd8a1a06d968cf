CONSTANTS
    dev = dev
    v2 = v2
    bad = bad
    Versions = {dev, v2, bad}
    Sound = {dev, v2}
    Releases = {v2, bad}
    Ports = {1, 2}
    DefaultPort = 1
    MaxCommands = 3
    MaxTroubles = 2
    None = None

SPECIFICATION Spec

CHECK_DEADLOCK FALSE

INVARIANTS
    SomeCopy
    FailedUpdateUndone

PROPERTY
    ServesAgain
