--------------------------- MODULE MCStatusService ---------------------------
EXTENDS StatusService

CONSTANTS starting, synced, noPaths, somePaths

MCKeys == {starting, synced}
MCPaths == {noPaths, somePaths}

\* A clock with ties: more refreshes than readings.
MCClock == 0..2
==============================================================================
