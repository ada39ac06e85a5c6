CONSTANTS
    self = self
    mac = mac
    phone = phone
    none = none
    mom = mom
    dad = dad
    Self <- self
    Ids <- MCIds
    Names <- MCNames
    NoName <- none
    Garbled <- mom
    Example <- dad
    MaxDesired = 2
SPECIFICATION ConfigSpec
INVARIANTS
    ExactlyDesired
    Idempotent
PROPERTIES
    NamesApplied
