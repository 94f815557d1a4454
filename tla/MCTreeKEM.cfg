SPECIFICATION Spec
SYMMETRY Symmetry
CONSTANTS
    c1 = c1
    c2 = c2
    c3 = c3
    c4 = c4
    c5 = c5
    Clients = {c1, c2, c3, c4, c5}
    Scenarios <- AllScenarios
    None = none
    MaxTreeSize = 16
INVARIANTS
    EverybodyFollows
    KeysBelow
    ParentHashesValid
CHECK_DEADLOCK FALSE
