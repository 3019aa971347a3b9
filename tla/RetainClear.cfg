SPECIFICATION Spec
CONSTANTS
    Ill <- IllLevels
    Topics <- SomeTopics
    Filters <- SomeFilters
    Msgs = {m1}
    NoMsg = NoMsg
PROPERTY
    ClearsOnlyItsTopic
