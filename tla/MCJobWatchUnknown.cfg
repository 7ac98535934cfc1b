\* What the client is told of a job the daemon does not know.
SPECIFICATION WatchSpec
CONSTANTS
    Running = {"Joining", "Writing"}
    SocketCap = 2
    MaxFrames = 1
INVARIANTS
    UnknownJobIsNotFound
CHECK_DEADLOCK FALSE
