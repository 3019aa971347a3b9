SPECIFICATION Spec
CONSTANTS
    c1 = c1  c2 = c2  c3 = c3  c4 = c4  i1 = i1
    Conns = {c1, c2, c3, c4}
    Ids = {i1}
    NoId = NoId
    IdOf <- ThreeAndOne
    Topics = {t1}
    None = None
SYMMETRY Symmetry
INVARIANTS
    TypeOK
    UninitializedIsBrief
    ExclusiveSessionRemembers
PROPERTY
    CleanStartsEmpty
CHECK_DEADLOCK FALSE
