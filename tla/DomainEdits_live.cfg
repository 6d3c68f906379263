SPECIFICATION FairSpec
CONSTANTS
    Defined = {"tpm"}
    Attached = {"usb"}
    Official = {}
    Net = {"default", "isolated"}
    Client = {c1}
    Events = {"virsh", "resave", "undefine", "crash"}
INVARIANTS
    TypeOK
PROPERTIES
    OthersPartsKept
    RemovedOnRequest
    RepairsConverge
