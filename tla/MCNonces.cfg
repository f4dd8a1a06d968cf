CONSTANTS
    Daemons = {d1}
    Nonces = {n1, n2, n3, n4}
    Hosts = {a, b}
    NoHost = none
    MaxNonces = 3
    TTL = 2

SYMMETRY Symmetric

SPECIFICATION Spec


PROPERTIES
    ImplementsAuthority
