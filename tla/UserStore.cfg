SPECIFICATION Spec
CONSTANTS
    n1 = n1
    n2 = n2
    a = a
    b = b
    s1 = s1
    s2 = s2
    Bad = Bad
    None = None
    Nicks <- MCNicks
    Data <- MCData
    Sessions <- MCSessions
    Ids <- MCIds
INVARIANTS TablesAgree Saved
PROPERTY ImplementsStore
SYMMETRY MCSymmetry
