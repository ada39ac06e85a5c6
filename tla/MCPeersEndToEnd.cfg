CONSTANTS
    alice = alice
    bob = bob
    s1 = s1
    s2 = s2
    Peers = {alice, bob}
    PeerSets <- MCPeerSets
    NoPeers = {}
    Missing = Missing
    Syncs = {s1, s2}
    MaxEdits = 1
    MaxPairs = 2
SPECIFICATION FairPairSpec
INVARIANTS
    IInv
    OnlyAccidents
    PairedListed
PROPERTIES
    LiveReload
    Recreated
    NoSyncAfterExit
    PairedReaches
