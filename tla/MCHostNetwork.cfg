\* Every command may fail but the two that add a `lookup local` rule.
SPECIFICATION Spec
CONSTANTS
    Sysctls = {accept, filter}
    HostIsLocal = TRUE
    MayFail <- AllButLocal
INVARIANTS
    TypeOK
    LocalDelivery
    Steered
    CleanRelease
