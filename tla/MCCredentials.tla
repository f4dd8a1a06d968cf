---------------------------- MODULE MCCredentials ----------------------------
EXTENDS Credentials, TLC

CONSTANTS a, b, t, k1, k2, k3, k4, k5, k6, i1, i2, h1

OnePort == a :> 1 @@ b :> 1

Symmetry == Permutations(Daemons)
=============================================================================
