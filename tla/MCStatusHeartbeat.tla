-------------------------- MODULE MCStatusHeartbeat --------------------------
EXTENDS StatusHeartbeat

CONSTANTS full, denied, t1, t2
==============================================================================
