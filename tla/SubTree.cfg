SPECIFICATION Spec
CONSTANTS
    Ill <- IllLevels
    Filters <- SomeFilters
    Topics <- SomeTopics
    Subs = {s1, s2}
    QoS = {0, 1, 3}
SYMMETRY Symmetry
INVARIANTS
    TypeOK
    MatchCorrect
    LeavesInUse
PROPERTY
    ImplementsIndex
