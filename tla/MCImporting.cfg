SPECIFICATION Spec
CHECK_DEADLOCK FALSE
INVARIANTS
    ParsesWhole
    ImportsWhole
    GpgHeard
    MockInOrder
PROPERTIES
    AllEnd
