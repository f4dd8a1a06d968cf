------------------------------- MODULE MCUpdate -------------------------------
EXTENDS Update

CONSTANTS dev, v2, bad
===============================================================================
