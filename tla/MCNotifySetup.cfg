CONSTANTS
    Claudes = {v1, v2}
    Nonces = {n1, n2, n3, n4, n5}
    Events = {"Stop", "Notification"}
    Targets = {{"codex"}, {"claude", "codex", "plugin", "cursor"}}
    None = None
    Wrapper = Wrapper
    Odd = Odd
    Broken = Broken
    MaxCommands = 2
    MaxTroubles = 2
    MaxOthers = 1

SPECIFICATION Spec

CHECK_DEADLOCK FALSE

INVARIANTS
    EntryServes
    NotifiesOnce
    ToldIfRevoked
    RecordHonest

PROPERTY
    KeepsReal
