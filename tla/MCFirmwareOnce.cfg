\* The two uploads that get through, with one retry.
CONSTANTS
    Requests = {"image", "upload"}
    ResetOk = {"upload"}
    NoRequest = "none"
    Attempts = 2
    Calls <- Uploads
    Stations = {"away"}
SPECIFICATION Spec
INVARIANT FirmwareSentOnce
CHECK_DEADLOCK FALSE
