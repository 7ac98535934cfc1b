\* The watch with a client that reads, idles or leaves, and a daemon that may die.
SPECIFICATION WatchSpec
CONSTANTS
    Running = {"Joining", "Writing"}
    SocketCap = 2
    MaxFrames = 3
INVARIANTS
    WatchTypeOK
    StreamInOrder
    OutcomeIsWhole
    TruncatedOnlyByDeath
PROPERTIES
    WatchEnds
\* The watch is over and the job has ended.
CHECK_DEADLOCK FALSE
