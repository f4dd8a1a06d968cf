--------------------------- MODULE MCTunnelBackend ---------------------------
EXTENDS TunnelBackend
=============================================================================
