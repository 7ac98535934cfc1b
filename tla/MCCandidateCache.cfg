\* Two threads that scan and submit, and the worker.
SPECIFICATION Spec
CONSTANTS
    Threads = {t1, t2}
    ApKeys = {a}
    Z21Keys = {z}
    UsbKeys = {u}
    LanKeys = {l}
    NoKey = NoKey
SYMMETRY Symmetric
INVARIANTS
    TypeOK
    OneScanPerMode
    LostOnlyToScans
