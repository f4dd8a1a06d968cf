---------------------------- MODULE MCNotifySetup ----------------------------
EXTENDS NotifySetup
==============================================================================
