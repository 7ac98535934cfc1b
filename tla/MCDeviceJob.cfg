\* Every driver and every way to a device; the three retries of the code.
CONSTANTS
    Requests = {"read", "identity", "loco", "functions", "server", "remove", "wifi", "verify", "restart", "put", "settings", "off", "image", "upload"}
    ResetOk = {"upload"}
    NoRequest = "none"
    Attempts = 4
    Calls <- AllCalls
    Stations = {"new", "old", "slave", "plain", "away"}
SPECIFICATION Spec
INVARIANTS TypeOK DoneMeansHeld NeverLeavesHalfProgrammed OneMoreAtMost ChildGone DispatchIsTrue
PROPERTIES ImplementsDelivery EveryCallEnds
CHECK_DEADLOCK FALSE
