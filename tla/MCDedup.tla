------------------------------- MODULE MCDedup -------------------------------
EXTENDS Dedup
=============================================================================
