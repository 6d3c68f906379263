SPECIFICATION FairSpec
CONSTANTS
    VM = {"vm1"}
    Client = {c1}
    Password = {"p"}
    Port = {}
    Events = {"virsh", "resave", "noconsole", "undefine", "crash"}
INVARIANTS
    TypeOK
    ExposedEntryHasPassword
PROPERTIES
    PinnedConsoleProtected
    PinnedListenRestored
    ReconcilerSettles
