CONSTANTS
    mac = mac
    phone = phone
    none = none
    garbled = garbled
    example = example
    mom = mom
    p = p
    q = q
    NoFile = NoFile
    Ids <- MCIds
    Names <- MCNames
    NoName <- none
    Garbled <- garbled
    Example <- example
    Procs <- MCProcs
    EditorFiles <- AllFiles
    MaxLines = 2
SPECIFICATION Spec
SYMMETRY Symmetry
INVARIANTS
    ParsesAsDocumented
    OnlyAccidents
PROPERTIES
    AppendKeepsEntries
