SPECIFICATION Spec
CONSTANTS
    Ill <- IllLevels
    Topics <- SomeTopics
    Filters <- SomeFilters
    Msgs = {m1, m2}
    NoMsg = NoMsg
SYMMETRY Symmetry
INVARIANTS
    TypeOK
    RetainedIsFresh
    RetainedIsFound
