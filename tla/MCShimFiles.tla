----------------------------- MODULE MCShimFiles -----------------------------
EXTENDS ShimFiles

CONSTANTS p1, p2
=============================================================================
