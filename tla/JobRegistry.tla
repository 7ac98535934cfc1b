----------------------------- MODULE JobRegistry -----------------------------
(***************************************************************************)
(* The job registry (crates/wireless-programmer/src/jobs.rs) with the      *)
(* threads that use it: the connection threads that submit, enqueue and    *)
(* cancel jobs, and the one worker task that runs them (runtime.rs).       *)
(*                                                                         *)
(* Every registry method takes the registry mutex once, so a method call   *)
(* is one step; two calls by the same thread are two steps.  What a driver *)
(* or the radio does between two calls is left open here: it succeeds or   *)
(* it fails.                                                               *)
(***************************************************************************)
EXTENDS Integers, Sequences, FiniteSets

CONSTANTS
    Clients,        \* connection threads that submit jobs
    MaxHistory,     \* MAX_JOB_HISTORY
    QueueCap,       \* capacity of the channel to the worker
    MaxSubmits,     \* bound: jobs accepted in one behaviour
    MaxFrames,      \* bound: frames of one job before its terminal frame
    WorkerMayStop   \* whether the worker task can die (unwinding builds only)

ASSUME RegistryAssumption ==
    /\ MaxHistory \in Nat \ {0}
    /\ QueueCap \in Nat \ {0}
    /\ MaxSubmits \in Nat
    /\ MaxFrames \in Nat
    /\ WorkerMayStop \in BOOLEAN

VARIABLES
    jobs,           \* id -> record, for the jobs the registry still knows
    active,         \* id that occupies the slot, or NoJob
    seq,            \* ids are 1, 2, ...: seq is the last one given out
    client,         \* what each connection thread is doing
    queue,          \* ids sent to the worker and not received
    worker          \* where the worker task is, and in which job

vars == <<jobs, active, seq, client, queue, worker>>

NoJob == 0

(* JobState, JobState::is_terminal *)
Terminal  == {"Done", "Failed", "Cancelled"}
Running   == {"Joining", "Probing", "Writing", "Verifying", "Restarting"}
JobStates == {"Queued"} \cup Running \cup Terminal

(* The paths through run_job: Soft-AP programming, DCC dispatch over a     *)
(* Z21, firmware over the Soft-AP, firmware over LAN or USB.               *)
Kinds    == {"program", "fred", "firmwareAp", "firmware"}
NoKind   == "taken"
Payloads == Kinds \cup {NoKind}

(* A job.watch frame: the state it reports and whether it announces a      *)
(* cancel request; step, progress and detail text are left out.            *)
Frame(st)     == [state |-> st, cancel |-> FALSE]
CancelFrame(st) == [state |-> st, cancel |-> TRUE]
Frames == [state : JobStates, cancel : BOOLEAN]

Job == [state : JobStates, cancel : BOOLEAN, payload : Payloads, frames : Seq(Frames)]

Idle == [pc |-> "idle", id |-> NoJob]

WorkerPcs == {"recv", "check", "take", "begin", "ready", "join", "joined",
              "drive", "beat", "judge", "settle", "teardown", "stopped"}
AtRest == [pc |-> "recv", id |-> NoJob, kind |-> NoKind, verdict |-> "Failed", release |-> FALSE]

IsPending(id) == id \in DOMAIN jobs /\ jobs[id].state \notin Terminal
Pending == {id \in DOMAIN jobs : jobs[id].state \notin Terminal}

Init ==
    /\ jobs = [id \in {} |-> CHOOSE j \in Job : TRUE]
    /\ active = NoJob
    /\ seq = 0
    /\ client = [c \in Clients |-> Idle]
    /\ queue = <<>>
    /\ worker = AtRest

-----------------------------------------------------------------------------
(* Registry methods                                                        *)

(* A definition whose name starts with Bug is the definition after it as a *)
(* plausible mistake would have it; no action uses one.                    *)
BugEvictLate(js) ==         \* `<=` for `<` in the early return
    LET ended == {id \in DOMAIN js : js[id].state \in Terminal}
        gone  == {id \in ended : Cardinality({j \in ended : j < id})
                                   < Cardinality(DOMAIN js) - (MaxHistory + 1)}
    IN  [id \in DOMAIN js \ gone |-> js[id]]

BugEvictNewest(js) ==       \* sorted the other way round
    LET ended == {id \in DOMAIN js : js[id].state \in Terminal}
        gone  == {id \in ended : Cardinality({j \in ended : j > id})
                                   < Cardinality(DOMAIN js) - MaxHistory}
    IN  [id \in DOMAIN js \ gone |-> js[id]]

(* evict_old_jobs: of the terminal jobs, the oldest ones beyond the limit. *)
(* created_at is read inside submit's critical section, so it orders jobs  *)
(* as their ids do.                                                        *)
Evict(js) ==
    LET over  == Cardinality(DOMAIN js) - MaxHistory
        ended == {id \in DOMAIN js : js[id].state \in Terminal}
        gone  == {id \in ended : Cardinality({j \in ended : j < id}) < over}
    IN  [id \in DOMAIN js \ gone |-> js[id]]

Advanced(job, st) == [job EXCEPT !.state = st, !.frames = Append(@, Frame(st))]

Recorded(id, st) == [jobs EXCEPT ![id] = Advanced(jobs[id], st)]

(* JobRegistry::transition.  The code compares nothing with the state the  *)
(* job was in, and a terminal state frees the slot whoever holds it.       *)
Transition(id, st) ==
    IF id \in DOMAIN jobs
    THEN IF st \in Terminal
         THEN active' = NoJob /\ jobs' = Evict(Recorded(id, st))
         ELSE active' = active /\ jobs' = Recorded(id, st)
    ELSE UNCHANGED <<jobs, active>>

IsCancelled(id) == id \in DOMAIN jobs /\ jobs[id].cancel

(* A bound on the frames of one job: it limits what may push a frame in a  *)
(* loop, never the terminal transition.                                    *)
RoomForFrame(id) == id \in DOMAIN jobs => Len(jobs[id].frames) < MaxFrames

-----------------------------------------------------------------------------
(* Connection threads                                                      *)

(* JobRegistry::submit, as submit_program and submit_firmware call it.     *)
(* While a job is active the call returns Busy and changes nothing.        *)
Fresh(kind) == [state |-> "Queued", cancel |-> FALSE, payload |-> kind, frames |-> <<>>]

BugSubmitSameId(c, kind) ==      \* the counter is not stored back
    /\ client[c] = Idle
    /\ active = NoJob
    /\ seq < MaxSubmits
    /\ active' = seq + 1
    /\ jobs' = [id \in DOMAIN jobs \cup {seq + 1} |->
                   IF id = seq + 1 THEN Fresh(kind) ELSE jobs[id]]
    /\ client' = [client EXCEPT ![c] = [pc |-> "send", id |-> seq + 1]]
    /\ UNCHANGED <<seq, queue, worker>>

BugSubmitWhileBusy(c, kind) ==   \* no look at the slot
    /\ client[c] = Idle
    /\ seq < MaxSubmits
    /\ seq' = seq + 1
    /\ active' = seq + 1
    /\ jobs' = [id \in DOMAIN jobs \cup {seq + 1} |->
                   IF id = seq + 1 THEN Fresh(kind) ELSE jobs[id]]
    /\ client' = [client EXCEPT ![c] = [pc |-> "send", id |-> seq + 1]]
    /\ UNCHANGED <<queue, worker>>

Submit(c, kind) ==
    /\ client[c] = Idle
    /\ active = NoJob
    /\ seq < MaxSubmits
    /\ seq' = seq + 1
    /\ active' = seq + 1
    /\ jobs' = [id \in DOMAIN jobs \cup {seq + 1} |->
                   IF id = seq + 1 THEN Fresh(kind) ELSE jobs[id]]
    /\ client' = [client EXCEPT ![c] = [pc |-> "send", id |-> seq + 1]]
    /\ UNCHANGED <<queue, worker>>

(* tx.blocking_send: waits for room while the receiver lives.              *)
Send(c) ==
    /\ client[c].pc = "send"
    /\ worker.pc # "stopped"
    /\ Len(queue) < QueueCap
    /\ queue' = Append(queue, client[c].id)
    /\ client' = [client EXCEPT ![c] = Idle]
    /\ UNCHANGED <<jobs, active, seq, worker>>

(* blocking_send fails once the receiver is gone: the job is failed by the *)
(* thread that submitted it.                                               *)
BugSendFails(c) ==                  \* returns without the terminal transition
    /\ client[c].pc = "send"
    /\ worker.pc = "stopped"
    /\ client' = [client EXCEPT ![c] = Idle]
    /\ UNCHANGED <<jobs, active, seq, queue, worker>>

SendFails(c) ==
    /\ client[c].pc = "send"
    /\ worker.pc = "stopped"
    /\ Transition(client[c].id, "Failed")
    /\ client' = [client EXCEPT ![c] = Idle]
    /\ UNCHANGED <<seq, queue, worker>>

(* JobRegistry::cancel: a live job gets the flag and a frame that repeats  *)
(* its state, an ended job only the flag, an unknown one nothing.          *)
Flagged(job) == [job EXCEPT !.cancel = TRUE]

BugAnnouncedSilently(job) == Flagged(job)   \* no frame for the watchers

Announced(job) ==
    [job EXCEPT !.cancel = TRUE, !.frames = Append(@, CancelFrame(job.state))]

BugCancelFreesSlot(id) ==        \* the slot is given up before the worker stopped
    /\ IsPending(id)
    /\ Len(jobs[id].frames) < MaxFrames
    /\ jobs' = [jobs EXCEPT ![id] = Announced(jobs[id])]
    /\ active' = NoJob
    /\ UNCHANGED <<seq, client, queue, worker>>

CancelLive(id) ==
    /\ IsPending(id)
    /\ Len(jobs[id].frames) < MaxFrames
    /\ jobs' = [jobs EXCEPT ![id] = Announced(jobs[id])]
    /\ UNCHANGED <<active, seq, client, queue, worker>>

BugCancelAnnouncesEnded(id) ==   \* the frame is pushed in any state
    /\ id \in DOMAIN jobs
    /\ jobs[id].state \in Terminal
    /\ Len(jobs[id].frames) < MaxFrames
    /\ jobs' = [jobs EXCEPT ![id] = Announced(jobs[id])]
    /\ UNCHANGED <<active, seq, client, queue, worker>>

CancelEnded(id) ==
    /\ id \in DOMAIN jobs
    /\ jobs[id].state \in Terminal
    /\ jobs' = [jobs EXCEPT ![id] = Flagged(jobs[id])]
    /\ UNCHANGED <<active, seq, client, queue, worker>>

-----------------------------------------------------------------------------
(* The worker                                                              *)

At(pc) == worker.pc = pc

GoTo(pc) == worker' = [worker EXCEPT !.pc = pc]

SettleWith(verdict) == worker' = [worker EXCEPT !.pc = "settle", !.verdict = verdict]

(* worker_loop *)
WorkerReceive ==
    /\ At("recv")
    /\ queue # <<>>
    /\ queue' = Tail(queue)
    /\ worker' = [AtRest EXCEPT !.pc = "check", !.id = Head(queue)]
    /\ UNCHANGED <<jobs, active, seq, client>>

(* run_job: a job cancelled while it was queued is never started.          *)
BugForgetsCancelled ==           \* returns without the terminal transition
    /\ At("check")
    /\ IF IsCancelled(worker.id) THEN worker' = AtRest ELSE GoTo("take")
    /\ UNCHANGED <<jobs, active, seq, client, queue>>

BugStartsCancelled ==            \* no look at the flag
    /\ At("check")
    /\ GoTo("take")
    /\ UNCHANGED <<jobs, active, seq, client, queue>>

WorkerCheckBeforeStart ==
    /\ At("check")
    /\ IF IsCancelled(worker.id) THEN SettleWith("Cancelled") ELSE GoTo("take")
    /\ UNCHANGED <<jobs, active, seq, client, queue>>

(* take_payload: the payload leaves the record, so it is taken once; a job *)
(* that has none is failed.                                                *)
Emptied(job) == [job EXCEPT !.payload = NoKind]

WorkerTakePayload ==
    /\ At("take")
    /\ IF worker.id \in DOMAIN jobs /\ jobs[worker.id].payload # NoKind
       THEN /\ worker' = [worker EXCEPT !.pc = "begin", !.kind = jobs[worker.id].payload]
            /\ jobs' = [jobs EXCEPT ![worker.id] = Emptied(jobs[worker.id])]
       ELSE SettleWith("Failed") /\ UNCHANGED jobs
    /\ UNCHANGED <<active, seq, client, queue>>

(* What is checked before a device is touched: driver known, candidate in  *)
(* the cache, address resolved, image readable and of the right kind, port *)
(* or host named.  Any of it fails the job, cancelled or not.              *)
WorkerPreflightFails ==
    /\ \/ At("begin")
       \/ At("ready") /\ worker.kind \in {"firmwareAp", "firmware"}
       \/ At("drive") /\ worker.kind = "fred"    \* the UDP socket
    /\ SettleWith("Failed")
    /\ UNCHANGED <<jobs, active, seq, client, queue>>

(* The first transition: a programming job goes to Joining, a firmware job *)
(* to Writing, a Fred job looks at the cancel flag first.                  *)
WorkerBegin ==
    /\ At("begin")
    /\ CASE worker.kind = "program" -> Transition(worker.id, "Joining")
         [] worker.kind = "fred" -> UNCHANGED <<jobs, active>>
         [] OTHER -> Transition(worker.id, "Writing")
    /\ GoTo("ready")
    /\ UNCHANGED <<seq, client, queue>>

(* The cancel check of programming and Fred jobs before they reach out;    *)
(* firmware jobs have none here.                                           *)
WorkerCheckBeforeJoin ==
    /\ At("ready")
    /\ worker.kind \in {"program", "fred"}
    /\ IF IsCancelled(worker.id) THEN SettleWith("Cancelled") ELSE GoTo("join")
    /\ UNCHANGED <<jobs, active, seq, client, queue>>

(* An AP firmware job goes back from Writing to Joining; one over LAN or   *)
(* USB starts its transfer.                                                *)
WorkerFirmwareStarts ==
    /\ At("ready")
    /\ \/ worker.kind = "firmwareAp" /\ Transition(worker.id, "Joining") /\ GoTo("join")
       \/ worker.kind = "firmware" /\ Transition(worker.id, "Writing") /\ GoTo("drive")
    /\ UNCHANGED <<seq, client, queue>>

(* Association or address setup fails: the job is failed first and the     *)
(* radio released after that.                                              *)
WorkerJoinFails ==
    /\ At("join")
    /\ worker.kind # "fred"
    /\ worker' = [worker EXCEPT !.pc = "settle", !.verdict = "Failed", !.release = TRUE]
    /\ UNCHANGED <<jobs, active, seq, client, queue>>

WorkerJoinSucceeds ==
    /\ At("join")
    /\ \/ worker.kind = "program" /\ GoTo("joined") /\ UNCHANGED <<jobs, active>>
       \/ worker.kind # "program" /\ GoTo("drive") /\ Transition(worker.id, "Writing")
    /\ UNCHANGED <<seq, client, queue>>

(* A programming job cancelled during the join releases the radio and ends.*)
WorkerCheckAfterJoin ==
    /\ At("joined")
    /\ IF IsCancelled(worker.id) THEN SettleWith("Cancelled") ELSE GoTo("drive")
    /\ UNCHANGED <<jobs, active, seq, client, queue>>

(* JobProgressSink::step: the states the drivers' steps map to, in the     *)
(* order the drivers take them.                                            *)
Rank(st) == CASE st = "Queued" -> 0 [] st = "Joining" -> 1 [] st = "Probing" -> 2
              [] st = "Writing" -> 3 [] st = "Verifying" -> 4 [] st = "Restarting" -> 5
              [] OTHER -> 6

DriverSteps == {"Probing", "Writing", "Verifying", "Restarting"}

WorkerDriverStep(st) ==
    /\ At("drive")
    /\ worker.kind = "program"
    /\ RoomForFrame(worker.id)
    /\ Rank(st) >= Rank(jobs[worker.id].state)
    /\ Transition(worker.id, st)
    /\ UNCHANGED <<seq, client, queue, worker>>

(* JobProgressSink::detail, the heartbeat of a firmware job: a frame that  *)
(* repeats the state.  While the job joins nothing is checked; during the  *)
(* transfer a cancelled job gets none, but the flag is read in one         *)
(* critical section and the frame pushed in another.                       *)
WorkerAssociating ==
    /\ At("join")
    /\ worker.kind = "firmwareAp"
    /\ RoomForFrame(worker.id)
    /\ Transition(worker.id, jobs[worker.id].state)
    /\ UNCHANGED <<seq, client, queue, worker>>

WorkerBeatDue ==
    /\ At("drive")
    /\ worker.kind \in {"firmwareAp", "firmware"}
    /\ RoomForFrame(worker.id)
    /\ ~IsCancelled(worker.id)
    /\ GoTo("beat")
    /\ UNCHANGED <<jobs, active, seq, client, queue>>

WorkerBeat ==
    /\ At("beat")
    /\ Transition(worker.id, jobs[worker.id].state)
    /\ GoTo("drive")
    /\ UNCHANGED <<seq, client, queue>>

(* The driver, dispatch_addr or espflash returns; a Soft-AP job releases   *)
(* the radio.                                                              *)
WorkerDriverReturns(verdict) ==
    /\ At("drive")
    /\ worker' = [worker EXCEPT !.pc = "judge", !.verdict = verdict]
    /\ UNCHANGED <<jobs, active, seq, client, queue>>

(* A cancel request turns any outcome, success included, into Cancelled.   *)
WorkerJudge ==
    /\ At("judge")
    /\ SettleWith(IF IsCancelled(worker.id) THEN "Cancelled" ELSE worker.verdict)
    /\ UNCHANGED <<jobs, active, seq, client, queue>>

(* The terminal transition: another critical section than the one that     *)
(* decided on it.  Some paths look first whether the job has ended; it has *)
(* not (Custody), so the look is left out.                                 *)
WorkerSettle ==
    /\ At("settle")
    /\ Transition(worker.id, worker.verdict)
    /\ IF worker.release THEN GoTo("teardown") ELSE worker' = AtRest
    /\ UNCHANGED <<seq, client, queue>>

(* The release that follows a failed join, with the slot already free.     *)
BugTeardownSettlesAgain ==       \* looks at the flag once more after the release
    /\ At("teardown")
    /\ worker' = AtRest
    /\ IF IsCancelled(worker.id)
       THEN Transition(worker.id, "Cancelled")
       ELSE UNCHANGED <<jobs, active>>
    /\ UNCHANGED <<seq, client, queue>>

WorkerTeardown ==
    /\ At("teardown")
    /\ worker' = AtRest
    /\ UNCHANGED <<jobs, active, seq, client, queue>>

(* A panic in the worker task of an unwinding build ends the task and      *)
(* closes the channel with what is in it.  As a history, the id is that of *)
(* the job it takes along.                                                 *)
Stranded ==
    IF queue # <<>> THEN Head(queue) ELSE IF At("teardown") THEN NoJob ELSE worker.id

WorkerStops ==
    /\ WorkerMayStop
    /\ ~At("stopped")
    /\ worker' = [AtRest EXCEPT !.pc = "stopped", !.id = Stranded]
    /\ queue' = <<>>
    /\ UNCHANGED <<jobs, active, seq, client>>

ClientNext ==
    \/ \E c \in Clients, kind \in Kinds : Submit(c, kind)
    \/ \E c \in Clients : Send(c) \/ SendFails(c)
    \/ \E id \in DOMAIN jobs : CancelLive(id) \/ CancelEnded(id)

WorkerNext ==
    \/ WorkerReceive \/ WorkerCheckBeforeStart \/ WorkerTakePayload
    \/ WorkerPreflightFails \/ WorkerBegin \/ WorkerCheckBeforeJoin
    \/ WorkerFirmwareStarts \/ WorkerJoinFails \/ WorkerJoinSucceeds
    \/ WorkerCheckAfterJoin \/ WorkerBeat \/ WorkerJudge \/ WorkerSettle \/ WorkerTeardown
    \/ \E verdict \in {"Done", "Failed"} : WorkerDriverReturns(verdict)

Next ==
    \/ ClientNext
    \/ WorkerNext
    \/ \E st \in DriverSteps : WorkerDriverStep(st)
    \/ WorkerAssociating \/ WorkerBeatDue
    \/ WorkerStops

(* The connection thread that submitted a job goes on to enqueue it, the   *)
(* worker task is scheduled, and a driver call returns: HTTP exchanges,    *)
(* joins, dispatch and espflash all carry deadlines.  Progress frames,     *)
(* cancel requests and the end of the worker task need not happen.         *)
Fairness ==
    /\ WF_vars(WorkerNext)
    /\ \A c \in Clients : WF_vars(Send(c)) /\ WF_vars(SendFails(c))

Spec == Init /\ [][Next]_vars /\ Fairness

-----------------------------------------------------------------------------
(* Properties                                                              *)

WorkerStates == [pc : WorkerPcs, id : 0..seq, kind : Payloads,
                 verdict : Terminal, release : BOOLEAN]

(* Types, and the bounds of the identifiers: the slot names a job that is  *)
(* known, and no job is known under an id that was not given out.          *)
TypeOK ==
    /\ seq \in 0..MaxSubmits
    /\ DOMAIN jobs \subseteq 1..seq
    /\ jobs \in [DOMAIN jobs -> Job]
    /\ active \in DOMAIN jobs \cup {NoJob}
    /\ client \in [Clients -> {Idle} \cup [pc : {"send"}, id : 1..seq]]
    /\ queue \in Seq(1..seq)
    /\ worker \in WorkerStates

(* The slot is occupied exactly while a job has not ended: `submit` says   *)
(* Busy when and only when a non-terminal job exists, and there is at most *)
(* one (jobs.rs:3-5, is_busy).  `transition` clears the slot whatever job  *)
(* it is called for, so this rests on what its callers do.                 *)
SlotMatchesJobs == Pending = (IF active = NoJob THEN {} ELSE {active})

(* Who has a pending job in hand.                                          *)
Working == worker.pc \notin {"recv", "teardown", "stopped"}
NobodyHolds == (\A c \in Clients : client[c] = Idle) /\ queue = <<>> /\ ~Working
ClientHolds(c) ==
    /\ client[c] = [pc |-> "send", id |-> active]
    /\ \A d \in Clients \ {c} : client[d] = Idle
    /\ queue = <<>>
    /\ ~Working
QueueHolds == (\A c \in Clients : client[c] = Idle) /\ queue = <<active>> /\ ~Working
WorkerHolds ==
    /\ \A c \in Clients : client[c] = Idle
    /\ queue = <<>>
    /\ Working
    /\ worker.id = active

(* A pending job is in exactly one pair of hands: with the thread that     *)
(* submitted it, in the channel, or with the worker.  None is lost, none   *)
(* runs twice, the channel of 8 never holds more than one id, so           *)
(* blocking_send never blocks a connection; the death of the worker        *)
(* strands the job it had or was sent before, and no job that comes after  *)
(* (runtime.rs submit_program, worker_loop, run_job).                      *)
Custody ==
    IF active = NoJob
    THEN NobodyHolds
    ELSE \/ \E c \in Clients : ClientHolds(c)
         \/ QueueHolds
         \/ WorkerHolds
         \/ NobodyHolds /\ worker.pc = "stopped" /\ worker.id = active

(* A job's frames end with its terminal frame, and only an ended job has   *)
(* one: job.watch stops at the first terminal frame it sends, so a frame   *)
(* pushed after it would be lost and a terminal frame in the middle would  *)
(* cut the stream (jobs.rs transition, cancel; ipc.rs stream_job_watch).   *)
FramesOf(job) ==
    LET n == Len(job.frames)
    IN  /\ \A i \in 1..n : job.frames[i].state \in Terminal => i = n
        /\ job.state \in Terminal => n > 0
        /\ n > 0 => job.frames[n].state = job.state

TerminalFrameLast == \A id \in DOMAIN jobs : FramesOf(jobs[id])

(* No job ends as Cancelled unless somebody asked for it while it ran: its *)
(* stream shows the request before the end (runtime.rs run_job,            *)
(* finish_firmware_job; jobs.rs cancel).                                   *)
ShowsCancel(job) == \E i \in 1..Len(job.frames) : job.frames[i].cancel

CancelledOnRequest ==
    \A id \in DOMAIN jobs : jobs[id].state = "Cancelled" => ShowsCancel(jobs[id])

(* The registry remembers the most recent jobs and no others: at most      *)
(* MaxHistory ended ones and the running one, without a gap                *)
(* (jobs.rs evict_old_jobs).                                               *)
RemembersLatest ==
    \E oldest \in 1..(seq + 1) :
        /\ DOMAIN jobs = oldest..seq
        /\ seq - oldest < MaxHistory + (IF active = NoJob THEN 0 ELSE 1)

(* What the invariants above need to be inductive: the job in the slot is  *)
(* the newest one; a flag set on a live job, and a verdict to cancel the   *)
(* job, are backed by a frame that shows the request.                      *)
Strengthening ==
    /\ active # NoJob => active = seq
    /\ \A id \in Pending : jobs[id].cancel => ShowsCancel(jobs[id])
    /\ worker.pc = "judge" => worker.verdict # "Cancelled"
    /\ worker.pc = "settle" /\ worker.verdict = "Cancelled" => ShowsCancel(jobs[worker.id])

RegistryInv ==
    /\ TypeOK
    /\ SlotMatchesJobs
    /\ Custody
    /\ TerminalFrameLast
    /\ CancelledOnRequest
    /\ RemembersLatest
    /\ Strengthening

(* An outcome is final: no later transition, cancel or retry of the        *)
(* teardown changes how a job ended, as long as the registry knows it      *)
(* (jobs.rs transition has no guard of its own).                           *)
OutcomeFinal ==
    [][\A id \in DOMAIN jobs \cap DOMAIN jobs' :
           jobs[id].state \in Terminal =>
               /\ jobs'[id].state = jobs[id].state
               /\ jobs'[id].frames = jobs[id].frames]_vars

(* The transition that ends a job never evicts that job, so job.get and    *)
(* job.watch can still report its outcome (jobs.rs transition calls        *)
(* evict_old_jobs after it has cleared `active`).                          *)
EndedJobIsRemembered == [][\A id \in Pending : id \in DOMAIN jobs']_vars

(* A job cancelled before the worker received it is never started          *)
(* (runtime.rs run_job).                                                   *)
CancelledInQueueNeverStarts ==
    \A id \in 1..MaxSubmits :
        [](IsCancelled(id) /\ jobs[id].state = "Queued" /\ worker.id # id
           => [](id \in DOMAIN jobs => jobs[id].state \notin Running \cup {"Done"}))

(* A job that was accepted ends, unless the worker task dies and takes it  *)
(* along; one that finds the worker gone is ended by its sender            *)
(* (runtime.rs run_job, submit_program).                                   *)
EveryJobEnds ==
    \A id \in 1..MaxSubmits :
        IsPending(id) ~> (~IsPending(id) \/ (worker.pc = "stopped" /\ worker.id = id))

(* The registry keeps the promise of ExclusiveSlot.                        *)
Slot == INSTANCE ExclusiveSlot WITH
    Outcomes <- Terminal,
    accepted <- seq,
    pending  <- Pending,
    outcome  <- [id \in DOMAIN jobs \ Pending |-> jobs[id].state]

ImplementsExclusiveSlot == Slot!Spec

(* Every job the registry numbers lives the life its watchers rely on:     *)
(* the state never returns to Queued or leaves an outcome, frames are only *)
(* added, and only while it runs, and it is forgotten as a whole after it  *)
(* has ended (jobs.rs transition, cancel, evict_old_jobs).                 *)
Stream(id) == INSTANCE JobStream WITH
    state  <- IF id \in DOMAIN jobs THEN jobs[id].state
              ELSE IF id > seq THEN "Unborn" ELSE "Forgotten",
    frames <- IF id \in DOMAIN jobs THEN jobs[id].frames ELSE <<>>

(* Spec of every Stream(id), the quantifier taken inside the box.          *)
ImplementsJobStream ==
    /\ \A id \in 1..MaxSubmits : Stream(id)!Init
    /\ [][\A id \in 1..MaxSubmits : [Stream(id)!Next]_(Stream(id)!streamVars)]_vars

(* The worker gives every job one turn at the radio, with the slot taken   *)
(* until the verdict; only a failed join is reported before the radio is   *)
(* released (runtime.rs run_program_job, run_firmware_job).                *)
ThroughAp == worker.kind \in {"program", "firmwareAp"}

Stage ==
    CASE worker.pc = "stopped" -> "dead"
      [] worker.pc = "teardown" -> "teardown"
      [] worker.pc = "settle" -> IF worker.release THEN "failed" ELSE "closing"
      [] ThroughAp /\ worker.pc \in {"join", "joined"} -> "inside"
      [] ThroughAp /\ worker.pc \in {"drive", "beat"} -> "talking"
      [] ThroughAp /\ worker.pc = "judge" -> "back"
      [] OTHER -> "away"

Turn == INSTANCE JobTurn WITH
    slot  <- IF active = NoJob THEN "free" ELSE "taken",
    stage <- Stage

ImplementsJobTurn == Turn!TurnSpec

=============================================================================
