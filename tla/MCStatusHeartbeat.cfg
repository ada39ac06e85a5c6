CONSTANTS
    full = full
    denied = denied
    t1 = t1
    t2 = t2
    MaxAge = 2
    Causes = {full, denied}
    TempNames = {t1, t2}
    None = None
SPECIFICATION FairSpec
INVARIANTS
    IInv
    NeverHalf
    BelievedIsRecent
    StoppedMeansGone
    NoLitter
    LogSaysOnce
PROPERTIES
    KeepsRetrying
