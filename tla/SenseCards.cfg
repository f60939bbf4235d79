CONSTANTS
    Power = power
    On = on
    Primary = power
    Null = null
    Empty = empty
    Absent = absent
    Undefined = undefined
    Dash = dash
    Numbers = {0, 1}
    MaxEvents = 2
SPECIFICATION Spec
INVARIANTS TypeOK CardsShowCore NothingInvented LossIsAnnounced
CHECK_DEADLOCK FALSE
