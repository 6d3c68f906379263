SPECIFICATION FairSpec
CONSTANTS
    VM = {"vm1"}
    Client = {c1, c2}
    Events = {"virsh", "resave", "undefine", "save", "crash"}
INVARIANTS
    TypeOK
PROPERTIES
    OperatorsTpmKept
    EditsImplemented
    PinnedTpmRestored
    ReconcilerSettles
