CONSTANTS
    Callers = {h1, h2, h3}
    Keys = {k1, k2}
    Window = 3
    MaxLag = 1

SPECIFICATION DedupSpec

PROPERTY RepeatsApart
