SPECIFICATION FairSpec
CONSTANTS
    VM = {"vm1", "vm2"}
    Client = {c1}
    Put <- PutWatch
    Tries = 2
    Events = {"guest", "pause", "undefine"}
PROPERTIES
    EnabledVMStarts
    KeepAlive
