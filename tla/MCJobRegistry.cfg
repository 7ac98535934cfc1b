\* The registry, its connection threads and the worker.
SPECIFICATION Spec
CONSTANTS
    Clients = {c1, c2}
    MaxHistory = 1
    QueueCap = 2
    MaxSubmits = 3
    MaxFrames = 3
    WorkerMayStop = TRUE
INVARIANTS
    TypeOK
    SlotMatchesJobs
    Custody
    TerminalFrameLast
    CancelledOnRequest
    RemembersLatest
PROPERTIES
    OutcomeFinal
    EndedJobIsRemembered
    CancelledInQueueNeverStarts
    EveryJobEnds
    ImplementsExclusiveSlot
    ImplementsJobStream
    ImplementsJobTurn
\* All jobs of the bound have ended.
CHECK_DEADLOCK FALSE
