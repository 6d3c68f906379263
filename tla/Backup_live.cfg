SPECIFICATION FairSpec
CONSTANTS
    Dir <- Paths
    Bad = {"/"}
    BaseOf <- Parent
    Under <- Child
    Default <- BuiltIn
    Asked <- Named
    Form <- Clear
    Client = {c1, c2}
    Id = {"j1", "j2"}
    MaxJobs = 1
    Disks = {1}
    Second = {0, 1}
    Events = {"save", "crash"}
INVARIANTS
    TypeOK
    RememberedWasUsed
    BackupDirValid
    NewestListed
PROPERTIES
    StoreIsAtomic
    JobsEnd
