CONSTANT MaxStarts = 3

SPECIFICATION FairSpec

INVARIANTS
    NoStrayFiles

PROPERTIES
    StopReturns
    ImplementsOwnedChild
