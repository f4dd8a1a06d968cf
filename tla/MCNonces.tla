------------------------------- MODULE MCNonces -------------------------------
EXTENDS Nonces

\* Neither nonces nor hosts are told apart, and every property run with this is
\* a safety property.
Symmetric == Permutations(Nonces) \cup Permutations(Hosts)
=============================================================================
