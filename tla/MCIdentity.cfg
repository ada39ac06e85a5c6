CONSTANTS
    a = a
    b = b
    id1 = id1
    id2 = id2
    id3 = id3
    None = None
    Torn = Torn
    Procs = {a, b}
    Ids = {id1, id2, id3}
SPECIFICATION Spec
SYMMETRY Symmetry
INVARIANTS
    IdentityKept
    NeverRefused
