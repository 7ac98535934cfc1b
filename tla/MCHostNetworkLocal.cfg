\* The command that puts `lookup local` back may fail.
SPECIFICATION Spec
CONSTANTS
    Sysctls = {accept, filter}
    HostIsLocal = TRUE
    MayFail = {"relocal"}
INVARIANTS
    LocalDelivery
