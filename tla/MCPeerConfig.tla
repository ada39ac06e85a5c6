----------------------------- MODULE MCPeerConfig -----------------------------
EXTENDS PeerConfig

CONSTANTS self, mac, phone, none, mom, dad

MCIds == {self, mac, phone}
MCNames == {none, mom, dad}
==============================================================================
