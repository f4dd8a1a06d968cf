CONSTANTS
    v1 = v1
    v2 = v2
    d1 = d1
    d2 = d2
    d3 = d3
    Versions = {v1, v2}
    Schema <- Schemas
    Ports = {1, 2}
    Displays = {d1, d2, d3}
    Commands <- Packaged
    MaxTroubles = 1
    None = None
    Broken = Broken

SPECIFICATION Spec

SYMMETRY Symmetry

INVARIANT BridgeIsCurrent
