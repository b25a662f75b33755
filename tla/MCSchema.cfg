SPECIFICATION Spec
CONSTANTS
    s1 = s1
    s2 = s2
    a = a
    b = b
    k1 = k1
    k2 = k2
    None = None
    Absent = Absent
    NotOpen = NotOpen
    Writer <- MCWriter
    Definer <- MCDefiner
    Col <- MCCol
    Key <- MCKey
    MaxRid = 2
    MaxWrites = 2
    MaxDdl = 2
SYMMETRY Symmetry
CHECK_DEADLOCK FALSE
INVARIANTS
    IndexExactUnlessLeaked
    KeysUnique
    RollbackSurvivesUnlessUnopened
CONSTRAINT UntilDisturbed
