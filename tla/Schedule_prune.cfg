SPECIFICATION Spec
CONSTANTS
    VM = {"vm1"}
    Put <- PutMany
    HandName <- Manual
    Span = 4
    Shift = 2
    Horizon = 3
    Events = {"virsh", "save", "crash", "zone"}
INVARIANTS
    TypeOK
PROPERTIES
    SpacedApart
    NewestSpared
