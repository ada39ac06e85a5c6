CONSTANTS
    a = a
    b = b
    Dev = Dev
    None = None
    Tags <- MCTags
    Instances = {a, b}
SPECIFICATION Spec
INVARIANTS
    Launchable
    OldKept
PROPERTIES
    ImplementsUpdate
CHECK_DEADLOCK FALSE
