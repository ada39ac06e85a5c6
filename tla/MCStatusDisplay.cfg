CONSTANTS
    Peers = {1, 2}
    Slots = 2
    MaxChanges = 2
SPECIFICATION DisplaySpec
INVARIANTS
    CountsMatchRows
    Untorn
PROPERTIES
    EndsUpRight
