CONSTANTS
    a = a
    b = b
    None = None
    Torn = Torn
    Procs = {a, b}
SPECIFICATION Spec
INVARIANTS
    IInv
    NeverBeside
    ConfigWhole
