--------------------------- MODULE MCPeersEndToEnd ---------------------------
EXTENDS PeersEndToEnd

CONSTANTS alice, bob, s1, s2

MCPeerSets == {{}, {alice}, {bob}, {alice, bob}}
==============================================================================
