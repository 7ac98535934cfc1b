\* Host settings outlive every session.
SPECIFICATION Spec
CONSTANTS
    Worker = w
    Threads = {t1, t2}
    Aps = {open, psk}
    PskAps = {psk}
    NoAp = NoAp
    HostIsLocal = TRUE
INVARIANTS
    HostSettingsRestored
