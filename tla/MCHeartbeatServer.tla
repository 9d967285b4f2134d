--------------------------- MODULE MCHeartbeatServer ---------------------------
EXTENDS HeartbeatServer
=============================================================================
