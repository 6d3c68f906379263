SPECIFICATION FairSpec
CONSTANTS
    VM = {"vm1"}
    Client = {c1}
    Password = {"p", "q"}
    Port = {}
    Events = {"resave"}
PROPERTIES
    PinnedPasswordApplied
