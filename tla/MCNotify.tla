------------------------------- MODULE MCNotify -------------------------------
EXTENDS Notify
=============================================================================
