SPECIFICATION Spec
CONSTANTS
    VM = {"vm1"}
    Client = {c1}
    Spelling = {"ab"}
    Canon <- CanonLower
    Events = {}
PROPERTIES
    DeletedStaysOut
