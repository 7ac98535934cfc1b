\* The worker's jobs, from the registry's slot to the radio, and two threads.
SPECIFICATION DaemonSpec
CONSTANTS
    Worker = w
    Threads = {t1, t2}
    Aps = {psk}
    PskAps = {psk}
    NoAp = NoAp
    HostIsLocal = TRUE
INVARIANTS
    DaemonTypeOK
    OneInTheRadio
    JobAloneIsUndisturbed
    JobAloneLeavesClean
    QuietMeansFree
    EndedMeansReleased
PROPERTIES
    EverySessionEnds
