SPECIFICATION FairSpec
CONSTANTS
    VM = {"vm1", "vm2"}
    Client = {c1}
    Spelling = {"ab"}
    Canon <- CanonLower
    Events = {"undefine", "resave", "virsh"}

    
PROPERTIES
    EditsImplemented
    EveryPinRestored
