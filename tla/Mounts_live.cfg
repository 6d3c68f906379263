SPECIFICATION FairSpec
CONSTANTS
    Id = {"a", "b"}
    Share = {"s", "t"}
    Point = {"p", "q"}
    ReadOnly = {"q"}
    Password = {"x"}
    Form <- FormThree
    Client = {c1}
    Events = {"virsh", "crash", "reboot"}
INVARIANTS
    TypeOK
    
PROPERTIES
    PasswordNeverBlanked
    AutoMounted
