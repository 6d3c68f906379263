SPECIFICATION Spec
CONSTANTS
    VM = {"vm1"}
    Client = {c1}
    Put <- PutBoot
    Tries = 2
    Events = {"reboot", "crash", "slow libvirt", "virsh", "guest", "power", "pause", "undefine", "save"}
INVARIANTS
    TypeOK
    WatchdogDormant
    OrchestratedOnce
