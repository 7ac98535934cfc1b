--------------------------- MODULE JobStreamProofs ---------------------------
(***************************************************************************)
(* What other modules assume of JobRegistry, for any number of threads,    *)
(* history limit, channel capacity and bounds: every job lives the life of *)
(* JobStream, as JobWatch assumes of the job it watches, and the worker    *)
(* gives each job one turn at the radio (JobTurn), as Daemon assumes.      *)
(***************************************************************************)
EXTENDS JobRegistryProofs

-----------------------------------------------------------------------------
(* What the steps do to the streams                                        *)

(* Seen by the watchers, a step accepts a job, gives the job in the slot a *)
(* frame with its new state, announces a request to cancel it, or changes  *)
(* nothing.  Only the frame that ends a job lets older ones be forgotten.  *)
NewJob ==
    /\ seq' = seq + 1 /\ seq + 1 \notin DOMAIN jobs
    /\ DOMAIN jobs' = DOMAIN jobs \cup {seq + 1}
    /\ jobs'[seq + 1].state = "Queued" /\ jobs'[seq + 1].frames = <<>>
    /\ \A id \in DOMAIN jobs : jobs'[id] = jobs[id]

OnlyTheActive ==
    /\ seq' = seq
    /\ active \in DOMAIN jobs /\ active \in DOMAIN jobs'
    /\ jobs[active].state \in JobStates \ Terminal
    /\ DOMAIN jobs' \subseteq DOMAIN jobs
    /\ \A id \in DOMAIN jobs' \ {active} : jobs'[id] = jobs[id]
    /\ \A id \in DOMAIN jobs \ DOMAIN jobs' : jobs[id].state \in Terminal

NewState(st) ==
    /\ OnlyTheActive
    /\ jobs'[active].state = st
    /\ jobs'[active].frames = Append(jobs[active].frames, Frame(st))

CancelShown ==
    /\ OnlyTheActive
    /\ jobs'[active].state = jobs[active].state
    /\ jobs'[active].frames = Append(jobs[active].frames, CancelFrame(jobs[active].state))

SameStreams ==
    /\ seq' = seq /\ DOMAIN jobs' = DOMAIN jobs
    /\ \A id \in DOMAIN jobs :
           jobs'[id].state = jobs[id].state /\ jobs'[id].frames = jobs[id].frames

(* Each of these is a step, or none, of every job's stream.                *)
LEMMA NewJobStreams ==
    ASSUME TypeOK, NewJob, NEW id \in Nat
    PROVE  [Stream(id)!Next]_(Stream(id)!streamVars)
<1>1. seq \in Nat /\ DOMAIN jobs \subseteq 1..seq
  BY RegistryAssumption DEF TypeOK
<1>2. CASE id = seq + 1
  <2>1. Stream(id)!Accept
    BY <1>1, <1>2 DEF NewJob, Stream!Accept
  <2> QED
    BY <2>1 DEF Stream!Next
<1>3. CASE id # seq + 1
  <2>1. id \in DOMAIN jobs <=> id \in DOMAIN jobs'
    BY <1>3 DEF NewJob
  <2>2. id > seq <=> id > seq'
    BY <1>1, <1>3 DEF NewJob
  <2> QED
    BY <2>1, <2>2 DEF NewJob, Stream!streamVars
<1> QED
  BY <1>2, <1>3

LEMMA OtherStreams ==
    ASSUME TypeOK, OnlyTheActive, NEW id \in Nat, id # active
    PROVE  [Stream(id)!Next]_(Stream(id)!streamVars)
<1>1. DOMAIN jobs \subseteq 1..seq /\ seq \in Nat
  BY RegistryAssumption DEF TypeOK
<1>2. CASE id \in DOMAIN jobs \ DOMAIN jobs'
  <2>1. id <= seq /\ jobs[id].state \in Terminal
    BY <1>1, <1>2 DEF OnlyTheActive
  <2>2. Stream(id)!Forget
    BY <1>1, <1>2, <2>1 DEF OnlyTheActive, Stream!Forget, Stream!Terminal, Terminal
  <2> QED
    BY <2>2 DEF Stream!Next
<1>3. CASE id \notin DOMAIN jobs \ DOMAIN jobs'
  <2>1. id \in DOMAIN jobs <=> id \in DOMAIN jobs'
    BY <1>3 DEF OnlyTheActive
  <2> QED
    BY <2>1 DEF OnlyTheActive, Stream!streamVars
<1> QED
  BY <1>2, <1>3

LEMMA NewStateStreams ==
    ASSUME TypeOK, NEW st \in Running \cup Terminal, NewState(st), NEW id \in Nat
    PROVE  [Stream(id)!Next]_(Stream(id)!streamVars)
<1>1. CASE id = active
  <2>1. Stream(id)!Report(st)
    BY <1>1 DEF NewState, OnlyTheActive, Stream!Report, Stream!Live, Stream!Frame, Frame,
                JobStates
  <2>2. st \in Running \cup Stream(id)!Terminal
    BY DEF Stream!Terminal, Terminal
  <2> QED
    BY <2>1, <2>2 DEF Stream!Next
<1> QED
  BY <1>1, OtherStreams DEF NewState

LEMMA CancelShownStreams ==
    ASSUME TypeOK, CancelShown, NEW id \in Nat
    PROVE  [Stream(id)!Next]_(Stream(id)!streamVars)
<1>1. CASE id = active
  <2>1. Stream(id)!AnnounceCancel
    BY <1>1 DEF CancelShown, OnlyTheActive, Stream!AnnounceCancel, Stream!Live,
                Stream!CancelFrame, CancelFrame, JobStates
  <2> QED
    BY <2>1 DEF Stream!Next
<1> QED
  BY <1>1, OtherStreams DEF CancelShown

LEMMA SameStreamsStutter ==
    ASSUME SameStreams, NEW id \in Nat
    PROVE  [Stream(id)!Next]_(Stream(id)!streamVars)
BY DEF SameStreams, Stream!streamVars

-----------------------------------------------------------------------------
(* Which step is which                                                     *)

LEMMA QuietStreams == UNCHANGED <<jobs, seq>> => SameStreams
BY DEF SameStreams

(* A transition to a running state gives the job in the slot a new state.  *)
LEMMA RunStreams ==
    ASSUME TypeOK, RegistryPart, Custody, Working, UNCHANGED seq,
           NEW st \in JobStates \ Terminal, Transition(worker.id, st)
    PROVE  NewState(st)
<1>1. /\ worker.id = active /\ active \in DOMAIN jobs
      /\ jobs[active] \in Job /\ jobs[active].state \notin Terminal
  BY WorkerJob
<1>2. jobs' = [jobs EXCEPT ![active] = Advanced(jobs[active], st)]
  BY <1>1 DEF Transition, Recorded
<1>3. /\ Advanced(jobs[active], st).state = st
      /\ Advanced(jobs[active], st).frames = Append(jobs[active].frames, Frame(st))
      /\ jobs[active].state \in JobStates
  BY <1>1 DEF Advanced, Job
<1> QED
  BY <1>1, <1>2, <1>3 DEF NewState, OnlyTheActive, TypeOK

(* And so does the one that ends it, whatever it evicts.                   *)
LEMMA EndStreams ==
    ASSUME TypeOK, RegistryPart, active # NoJob, UNCHANGED seq,
           NEW st \in Terminal, st = "Cancelled" => ShowsCancel(jobs[active]),
           Transition(active, st)
    PROVE  NewState(st)
<1>1. /\ active \in DOMAIN jobs'
      /\ jobs'[active] = Advanced(jobs[active], st)
      /\ DOMAIN jobs' \subseteq DOMAIN jobs
      /\ \A id \in DOMAIN jobs' \ {active} : jobs'[id] = jobs[id]
  BY EndPart
<1>2. /\ active \in DOMAIN jobs /\ jobs[active] \in Job
      /\ jobs[active].state \in JobStates \ Terminal
      /\ \A id \in DOMAIN jobs \ {active} : jobs[id].state \in Terminal
  BY ActiveIsPending DEF RegistryPart
<1>3. /\ Advanced(jobs[active], st).state = st
      /\ Advanced(jobs[active], st).frames = Append(jobs[active].frames, Frame(st))
  BY <1>2 DEF Advanced, Job
<1> QED
  BY <1>1, <1>2, <1>3 DEF NewState, OnlyTheActive

-----------------------------------------------------------------------------
(* A job that reached out is not queued any more                           *)

(* While a job reaches out, and whenever it sends a heartbeat, it has left *)
(* Queued: a heartbeat, which repeats the state of the job, never reports  *)
(* Queued.  A dispatch over a Z21 sends no heartbeats.                     *)
Outside ==
    \/ worker.pc = "beat"
    \/ worker.pc \in {"ready", "join", "joined", "drive"} /\ worker.kind # "fred"

Started == Outside => worker.id \in DOMAIN jobs /\ jobs[worker.id].state \in Running

(* A worker that stays in its job sees the job go on.                      *)
LEMMA SameStreamsStarted ==
    ASSUME Started, SameStreams, Outside' => Outside /\ worker'.id = worker.id
    PROVE  Started'
BY DEF Started, SameStreams

LEMMA NewStateStarted ==
    ASSUME NEW st \in Running, NewState(st), worker'.id = active
    PROVE  Started'
BY DEF Started, NewState, OnlyTheActive

LEMMA CancelShownStarted ==
    ASSUME Started, CancelShown, UNCHANGED worker
    PROVE  Started'
<1>1. CASE worker.id = active
  BY <1>1 DEF Started, Outside, CancelShown, OnlyTheActive
<1>2. CASE worker.id # active
  <2>1. Running \cap Terminal = {}
    BY DEF Running, Terminal
  <2> QED
    BY <1>2, <2>1 DEF Started, Outside, CancelShown, OnlyTheActive
<1> QED
  BY <1>1, <1>2

(* Where the worker's moves leave it.                                      *)
LEMMA MovesOutside ==
    ASSUME TypeOK
    PROVE  /\ \A pc \in {"check", "take", "begin", "ready", "join", "joined", "drive", "beat",
                         "judge", "settle", "teardown"} :
                 GoTo(pc) => worker'.pc = pc /\ worker'.id = worker.id
                             /\ worker'.kind = worker.kind
           /\ \A v \in Terminal : SettleWith(v) => worker'.pc = "settle"
           /\ AtRest.pc = "recv"
<1>1. worker \in WorkerStates
  BY DEF TypeOK
<1> QED
  BY <1>1 DEF WorkerStates, GoTo, SettleWith, AtRest

StreamStep ==
    \/ NewJob
    \/ \E st \in Running \cup Terminal : NewState(st)
    \/ CancelShown
    \/ SameStreams

LEMMA StreamSteps ==
    ASSUME RegistryInv, Started, [Next]_vars
    PROVE  StreamStep /\ Started'
<1>0. /\ TypeOK /\ RegistryPart /\ Custody /\ VerdictPart /\ SlotMatchesJobs
      /\ \A st \in Running : st \in JobStates \ Terminal
      /\ DriverSteps \subseteq Running /\ {"Joining", "Writing"} \subseteq Running
      /\ {"Done", "Failed", "Cancelled"} \subseteq Terminal
  BY Parts DEF RegistryPart, JobStates, Running, Terminal, DriverSteps
<1>1. ASSUME NEW c \in Clients, NEW kind \in Kinds, Submit(c, kind)
      PROVE  NewJob /\ Started'
  <2>1. seq + 1 \notin DOMAIN jobs
    BY <1>0, RegistryAssumption DEF TypeOK
  <2>2. NewJob
    BY <1>1, <2>1 DEF Submit, NewJob, Fresh
  <2>3. UNCHANGED worker
    BY <1>1 DEF Submit
  <2> QED
    BY <2>2, <2>3 DEF NewJob, Started, Outside
<1>2. ASSUME NEW c \in Clients, Send(c)
      PROVE  SameStreams /\ Started'
  <2>1. SameStreams /\ UNCHANGED worker
    BY <1>2, QuietStreams DEF Send
  <2> QED
    BY <2>1, SameStreamsStarted DEF Outside
<1>3. ASSUME NEW c \in Clients, SendFails(c)
      PROVE  NewState("Failed") /\ Started'
  <2>1. client[c].pc = "send" /\ client[c] # Idle
    BY <1>3, IdleIsNotSending DEF SendFails
  <2>2. active # NoJob /\ client[c].id = active
    BY <1>0, <2>1 DEF Custody, NobodyHolds, QueueHolds, WorkerHolds, ClientHolds
  <2>3. NewState("Failed")
    BY <1>0, <1>3, <2>2, EndStreams DEF SendFails, Terminal
  <2>4. worker'.pc = "stopped"
    BY <1>3 DEF SendFails
  <2> QED
    BY <2>3, <2>4 DEF Started, Outside
<1>4. ASSUME NEW id \in DOMAIN jobs, CancelLive(id)
      PROVE  CancelShown /\ Started'
  <2>1. active # NoJob /\ id = active
    BY <1>0, <1>4 DEF CancelLive, IsPending, SlotMatchesJobs, Pending
  <2>2. /\ active \in DOMAIN jobs /\ jobs[active] \in Job
        /\ jobs[active].state \in JobStates \ Terminal
    BY <1>0, <2>1, ActiveIsPending
  <2>3. /\ Announced(jobs[active]).state = jobs[active].state
        /\ Announced(jobs[active]).frames
              = Append(jobs[active].frames, CancelFrame(jobs[active].state))
    BY <2>2 DEF Announced, Job
  <2>4. CancelShown /\ UNCHANGED worker
    BY <1>0, <1>4, <2>1, <2>2, <2>3 DEF CancelLive, CancelShown, OnlyTheActive, TypeOK
  <2> QED
    BY <2>4, CancelShownStarted
<1>5. ASSUME NEW id \in DOMAIN jobs, CancelEnded(id)
      PROVE  SameStreams /\ Started'
  <2>1. Flagged(jobs[id]).state = jobs[id].state /\ Flagged(jobs[id]).frames = jobs[id].frames
    BY <1>0 DEF Flagged, TypeOK, Job
  <2>2. SameStreams /\ UNCHANGED worker
    BY <1>0, <1>5, <2>1 DEF CancelEnded, SameStreams, TypeOK
  <2> QED
    BY <2>2, SameStreamsStarted DEF Outside
<1>6. ASSUME \/ WorkerReceive \/ WorkerCheckBeforeStart \/ WorkerPreflightFails
             \/ WorkerCheckBeforeJoin \/ WorkerJoinFails \/ WorkerCheckAfterJoin
             \/ WorkerJudge \/ WorkerTeardown \/ WorkerStops \/ WorkerBeatDue
             \/ UNCHANGED vars
             \/ \E verdict \in {"Done", "Failed"} : WorkerDriverReturns(verdict)
      PROVE  SameStreams /\ Started'
  <2>1. SameStreams
    BY <1>6, QuietStreams
    DEF WorkerReceive, WorkerCheckBeforeStart, WorkerPreflightFails, WorkerCheckBeforeJoin,
        WorkerJoinFails, WorkerCheckAfterJoin, WorkerJudge, WorkerTeardown, WorkerStops,
        WorkerBeatDue, WorkerDriverReturns, vars
  <2>2. worker \in WorkerStates /\ worker.verdict \in Terminal
    BY <1>0 DEF TypeOK, WorkerStates
  <2>3. CASE WorkerReceive \/ WorkerTeardown \/ WorkerStops
    <3>1. worker'.pc \in {"check", "recv", "stopped"}
      <4>1. CASE WorkerReceive
        BY <4>1 DEF WorkerReceive, AtRest
      <4>2. CASE WorkerTeardown
        BY <4>2 DEF WorkerTeardown, AtRest
      <4>3. CASE WorkerStops
        BY <4>3 DEF WorkerStops, AtRest
      <4> QED
        BY <2>3, <4>1, <4>2, <4>3
    <3> QED
      BY <2>1, <3>1 DEF Started, Outside
  <2>4. CASE WorkerCheckBeforeStart \/ WorkerPreflightFails \/ WorkerJudge
    <3>1. worker'.pc \in {"settle", "take"}
      BY <1>0, <2>2, <2>4, MovesOutside
      DEF WorkerCheckBeforeStart, WorkerPreflightFails, WorkerJudge
    <3> QED
      BY <2>1, <3>1 DEF Started, Outside
  <2>5. CASE WorkerJoinFails \/ \E verdict \in {"Done", "Failed"} : WorkerDriverReturns(verdict)
    <3>1. worker'.pc \in {"settle", "judge"}
      BY <2>2, <2>5 DEF WorkerJoinFails, WorkerDriverReturns, WorkerStates
    <3> QED
      BY <2>1, <3>1 DEF Started, Outside
  <2>6. CASE WorkerCheckBeforeJoin \/ WorkerCheckAfterJoin \/ WorkerBeatDue
    <3>1. \/ worker'.pc = "settle"
          \/ /\ worker'.id = worker.id /\ worker'.kind = worker.kind
             /\ worker.pc \in {"ready", "joined", "drive"}
             /\ worker'.pc = "beat" => worker.kind # "fred"
      BY <1>0, <2>6, MovesOutside DEF WorkerCheckBeforeJoin, WorkerCheckAfterJoin, WorkerBeatDue, At
    <3>2. Outside' => Outside /\ worker'.id = worker.id
      BY <3>1 DEF Outside
    <3> QED
      BY <2>1, <3>2, SameStreamsStarted
  <2>7. CASE UNCHANGED vars
    BY <2>1, <2>7, SameStreamsStarted DEF vars, Outside
  <2> QED
    BY <1>6, <2>1, <2>3, <2>4, <2>5, <2>6, <2>7
<1>7. CASE WorkerTakePayload
  <2>1. CASE worker.id \in DOMAIN jobs /\ jobs[worker.id].payload # NoKind
    <3>1. /\ UNCHANGED seq /\ jobs[worker.id] \in Job
          /\ worker' = [worker EXCEPT !.pc = "begin", !.kind = jobs[worker.id].payload]
          /\ jobs' = [jobs EXCEPT ![worker.id] = Emptied(jobs[worker.id])]
      BY <1>0, <1>7, <2>1 DEF WorkerTakePayload, TypeOK
    <3>2. /\ Emptied(jobs[worker.id]).state = jobs[worker.id].state
          /\ Emptied(jobs[worker.id]).frames = jobs[worker.id].frames
      BY <3>1 DEF Emptied, Job
    <3>3. SameStreams
      BY <1>0, <2>1, <3>1, <3>2 DEF SameStreams, TypeOK
    <3>4. worker'.pc = "begin"
      BY <1>0, <3>1 DEF TypeOK, WorkerStates
    <3> QED
      BY <3>3, <3>4 DEF Started, Outside, StreamStep
  <2>2. CASE ~(worker.id \in DOMAIN jobs /\ jobs[worker.id].payload # NoKind)
    <3>1. UNCHANGED <<jobs, seq>> /\ SettleWith("Failed")
      BY <1>7, <2>2 DEF WorkerTakePayload
    <3>2. worker'.pc = "settle"
      BY <1>0, <3>1, MovesOutside
    <3> QED
      BY <3>1, <3>2, QuietStreams DEF Started, Outside, StreamStep
  <2> QED
    BY <2>1, <2>2
<1>8. ASSUME \/ WorkerBegin \/ WorkerFirmwareStarts \/ WorkerJoinSucceeds
      PROVE  StreamStep /\ Started'
  <2>1. Working /\ UNCHANGED seq /\ worker'.id = worker.id /\ worker'.kind = worker.kind
    BY <1>0, <1>8, MovesOutside
    DEF WorkerBegin, WorkerFirmwareStarts, WorkerJoinSucceeds, At, Working
  <2>2. worker.id = active
    BY <1>0, <2>1, WorkerJob
  <2>3. ASSUME NEW st \in {"Joining", "Writing"}, Transition(worker.id, st)
        PROVE  StreamStep /\ Started'
    <3>1. NewState(st) /\ st \in Running
      BY <1>0, <2>1, <2>3, RunStreams
    <3> QED
      BY <2>1, <2>2, <3>1, NewStateStarted DEF StreamStep
  <2>4. CASE WorkerBegin /\ worker.kind = "fred"
    <3>1. UNCHANGED <<jobs, seq>> /\ worker'.pc = "ready" /\ worker'.kind = "fred"
      BY <1>0, <2>1, <2>4, MovesOutside DEF WorkerBegin
    <3> QED
      BY <3>1, QuietStreams DEF StreamStep, Started, Outside
  <2>5. CASE WorkerJoinSucceeds /\ worker.kind = "program" /\ GoTo("joined") /\ UNCHANGED jobs
    <3>1. SameStreams /\ Outside
      BY <2>1, <2>5, QuietStreams DEF WorkerJoinSucceeds, Outside, At
    <3> QED
      BY <2>1, <3>1, SameStreamsStarted DEF StreamStep
  <2>6. \/ WorkerBegin /\ worker.kind = "fred"
        \/ WorkerJoinSucceeds /\ worker.kind = "program" /\ GoTo("joined") /\ UNCHANGED jobs
        \/ \E st \in {"Joining", "Writing"} : Transition(worker.id, st)
    BY <1>8 DEF WorkerBegin, WorkerFirmwareStarts, WorkerJoinSucceeds
  <2> QED
    BY <2>3, <2>4, <2>5, <2>6
<1>9. ASSUME NEW st \in DriverSteps, WorkerDriverStep(st)
      PROVE  NewState(st) /\ Started'
  <2>1. Working /\ UNCHANGED <<seq, worker>> /\ Transition(worker.id, st) /\ st \in Running
    BY <1>0, <1>9 DEF WorkerDriverStep, At, Working
  <2>2. NewState(st) /\ worker.id = active
    BY <1>0, <2>1, RunStreams, WorkerJob
  <2> QED
    BY <2>1, <2>2, NewStateStarted
<1>10. CASE WorkerAssociating \/ WorkerBeat
  <2> DEFINE st == jobs[worker.id].state
  <2>1. Working /\ UNCHANGED seq /\ Transition(worker.id, st) /\ worker'.id = worker.id
    BY <1>0, <1>10, MovesOutside DEF WorkerAssociating, WorkerBeat, At, Working
  <2>2. Outside
    BY <1>10 DEF WorkerAssociating, WorkerBeat, At, Outside
  <2>3. st \in Running
    BY <2>2 DEF Started
  <2>4. NewState(st) /\ worker.id = active
    BY <1>0, <2>1, <2>3, RunStreams, WorkerJob
  <2> HIDE DEF st
  <2> QED
    BY <2>1, <2>3, <2>4, NewStateStarted DEF StreamStep
<1>11. CASE WorkerSettle
  <2>1. Working /\ UNCHANGED seq /\ Transition(worker.id, worker.verdict)
    BY <1>11 DEF WorkerSettle, At, Working
  <2>2. active # NoJob /\ worker.id = active /\ worker.verdict \in Terminal
    BY <1>0, <2>1, WorkerJob, WorkerType
  <2>3. worker.verdict = "Cancelled" => ShowsCancel(jobs[active])
    BY <1>0, <1>11, <2>2 DEF VerdictPart, WorkerSettle, At
  <2>4. NewState(worker.verdict)
    BY <1>0, <2>1, <2>2, <2>3, EndStreams
  <2>5. worker'.pc \in {"teardown", "recv"}
    BY <1>0, <1>11, MovesOutside DEF WorkerSettle
  <2> QED
    BY <2>2, <2>4, <2>5 DEF StreamStep, Started, Outside
<1> QED
  BY <1>0, <1>1, <1>2, <1>3, <1>4, <1>5, <1>6, <1>7, <1>8, <1>9, <1>10, <1>11
  DEF Next, ClientNext, WorkerNext, StreamStep

(* Every job is a JobStream: what a watcher sees of it starts unknown, and *)
(* each step of the registry accepts it, adds one frame with its state, or *)
(* forgets it after its end (jobs.rs transition, cancel, evict_old_jobs).  *)
THEOREM RegistryImplementsStreams == Spec => ImplementsJobStream
<1>1. Init => Started /\ \A id \in 1..MaxSubmits : Stream(id)!Init
  <2> SUFFICES ASSUME Init
               PROVE  Started /\ \A id \in 1..MaxSubmits : Stream(id)!Init
    OBVIOUS
  <2>1. DOMAIN jobs = {} /\ seq = 0 /\ worker.pc = "recv"
    BY DEF Init, AtRest
  <2> QED
    BY <2>1 DEF Started, Outside, Stream!Init
<1>2. RegistryInv /\ Started /\ [Next]_vars => Started'
  BY StreamSteps
<1>3. RegistryInv /\ Started /\ [Next]_vars =>
        \A id \in 1..MaxSubmits : [Stream(id)!Next]_(Stream(id)!streamVars)
  <2> SUFFICES ASSUME RegistryInv, Started, [Next]_vars, NEW id \in 1..MaxSubmits
               PROVE  [Stream(id)!Next]_(Stream(id)!streamVars)
    OBVIOUS
  <2>1. StreamStep /\ TypeOK /\ id \in Nat
    BY StreamSteps, RegistryAssumption DEF RegistryInv
  <2> QED
    BY <2>1, NewJobStreams, NewStateStreams, CancelShownStreams, SameStreamsStutter
    DEF StreamStep
<1> QED
  BY <1>1, <1>2, <1>3, RegistryInvariant, PTL DEF Spec, ImplementsJobStream

-----------------------------------------------------------------------------
(* A job cancelled in the queue                                            *)

(* A job that was cancelled before the worker had it is forgotten, or has  *)
(* ended without being done, or still waits, flag set; the worker that has *)
(* it stands before its first look at the flag or has given it up.         *)
GivenUp ==
    \/ worker.pc = "check"
    \/ worker.pc = "settle" /\ worker.verdict # "Done"

WaitsCancelled(id) ==
    /\ jobs[id].state = "Queued" /\ jobs[id].cancel
    /\ Working => GivenUp

NeverStarted(id) ==
    /\ id \in 1..seq
    /\ id \in DOMAIN jobs => jobs[id].state \in {"Failed", "Cancelled"} \/ WaitsCancelled(id)

(* The job that waits is the one in the slot, and so the worker's if it    *)
(* has one.                                                                *)
LEMMA WaitingIsActive ==
    ASSUME RegistryInv, NEW id \in DOMAIN jobs, jobs[id].state = "Queued"
    PROVE  id = active /\ active # NoJob /\ (Working => worker.id = id)
<1>1. TypeOK /\ RegistryPart /\ Custody /\ SlotMatchesJobs /\ "Queued" \notin Terminal
  BY Parts DEF RegistryPart, Terminal
<1>2. id = active /\ active # NoJob
  BY <1>1 DEF SlotMatchesJobs, Pending
<1> QED
  BY <1>1, <1>2, WorkerJob

LEMMA CancelledInQueueIsNeverStarted ==
    ASSUME RegistryInv, NEW id \in 1..MaxSubmits, IsCancelled(id),
           jobs[id].state = "Queued", worker.id # id
    PROVE  NeverStarted(id)
BY WaitingIsActive DEF IsCancelled, NeverStarted, WaitsCancelled, RegistryInv, TypeOK

LEMMA WaitingSteps ==
    ASSUME RegistryInv, [Next]_vars, NEW id \in DOMAIN jobs, WaitsCancelled(id)
    PROVE  id \in DOMAIN jobs' => jobs'[id].state \in {"Failed", "Cancelled"} \/ WaitsCancelled(id)'
<1>0. /\ TypeOK /\ RegistryPart /\ Custody /\ VerdictPart /\ SlotMatchesJobs
      /\ id = active /\ active # NoJob /\ (Working => worker.id = id)
      /\ jobs[id].state = "Queued" /\ jobs[id].cancel /\ IsCancelled(id)
      /\ Working => GivenUp
      /\ {"Done", "Failed", "Cancelled"} = Terminal
  BY Parts, WaitingIsActive DEF RegistryPart, WaitsCancelled, IsCancelled, Terminal
<1>1. ASSUME UNCHANGED jobs, Working' => GivenUp'
      PROVE  WaitsCancelled(id)'
  BY <1>0, <1>1 DEF WaitsCancelled
<1>2. ASSUME NEW c \in Clients, NEW kind \in Kinds, Submit(c, kind)
      PROVE  FALSE
  BY <1>0, <1>2 DEF Submit
<1>3. ASSUME NEW c \in Clients, Send(c)
      PROVE  WaitsCancelled(id)'
  <2>1. UNCHANGED <<jobs, worker>>
    BY <1>3 DEF Send
  <2> QED
    BY <1>0, <1>1, <2>1 DEF Working, GivenUp
<1>4. ASSUME NEW st \in {"Failed", "Cancelled"}, UNCHANGED seq, Transition(active, st),
             st = "Cancelled" => ShowsCancel(jobs[active])
      PROVE  jobs'[id].state \in {"Failed", "Cancelled"}
  <2>1. NewState(st)
    BY <1>0, <1>4, EndStreams
  <2> QED
    BY <1>0, <2>1 DEF NewState
<1>5. ASSUME NEW c \in Clients, SendFails(c)
      PROVE  jobs'[id].state \in {"Failed", "Cancelled"}
  <2>1. client[c].pc = "send" /\ client[c] # Idle
    BY <1>5, IdleIsNotSending DEF SendFails
  <2>2. client[c].id = active
    BY <1>0, <2>1 DEF Custody, NobodyHolds, QueueHolds, WorkerHolds, ClientHolds
  <2> QED
    BY <1>4, <1>5, <2>2 DEF SendFails
<1>6. ASSUME NEW j \in DOMAIN jobs, CancelLive(j)
      PROVE  WaitsCancelled(id)'
  <2>1. j = id
    BY <1>0, <1>6 DEF CancelLive, IsPending, SlotMatchesJobs, Pending
  <2>2. jobs[id] \in Job
    BY <1>0 DEF TypeOK
  <2>3. Announced(jobs[id]).state = "Queued" /\ Announced(jobs[id]).cancel
    BY <1>0, <2>2 DEF Announced, Job
  <2>4. UNCHANGED worker /\ jobs'[id] = Announced(jobs[id])
    BY <1>0, <1>6, <2>1 DEF CancelLive, TypeOK
  <2> QED
    BY <1>0, <2>3, <2>4 DEF WaitsCancelled, Working, GivenUp
<1>7. ASSUME NEW j \in DOMAIN jobs, CancelEnded(j)
      PROVE  WaitsCancelled(id)'
  <2>1. j # id
    BY <1>0, <1>7 DEF CancelEnded
  <2>2. UNCHANGED worker /\ jobs'[id] = jobs[id]
    BY <1>0, <1>7, <2>1 DEF CancelEnded, TypeOK
  <2> QED
    BY <1>0, <2>2 DEF WaitsCancelled, Working, GivenUp
<1>8. CASE WorkerReceive \/ WorkerTeardown \/ WorkerStops
  <2>1. worker'.pc \in {"check", "recv", "stopped"}
    <3>1. WorkerReceive => worker'.pc = "check"
      BY DEF WorkerReceive, AtRest
    <3>2. WorkerTeardown => worker'.pc = "recv"
      BY DEF WorkerTeardown, AtRest
    <3>3. WorkerStops => worker'.pc = "stopped"
      BY DEF WorkerStops, AtRest
    <3> QED
      BY <1>8, <3>1, <3>2, <3>3
  <2>2. UNCHANGED jobs
    BY <1>8 DEF WorkerReceive, WorkerTeardown, WorkerStops
  <2> QED
    BY <1>1, <2>1, <2>2 DEF Working, GivenUp
<1>9. CASE WorkerCheckBeforeStart
  <2>1. worker.id = id
    BY <1>0, <1>9 DEF WorkerCheckBeforeStart, At, Working
  <2>2. SettleWith("Cancelled") /\ UNCHANGED jobs
    BY <1>0, <1>9, <2>1 DEF WorkerCheckBeforeStart
  <2>3. worker'.pc = "settle" /\ worker'.verdict = "Cancelled"
    BY <1>0, <2>2 DEF TypeOK, WorkerStates, SettleWith
  <2> QED
    BY <1>1, <2>2, <2>3 DEF GivenUp
<1>10. CASE WorkerSettle
  <2>1. At("settle") /\ Working /\ UNCHANGED seq /\ Transition(worker.id, worker.verdict)
    BY <1>10 DEF WorkerSettle, At, Working
  <2>2. worker.id = active /\ worker.verdict \in {"Failed", "Cancelled"}
    BY <1>0, <2>1, WorkerType DEF GivenUp, At
  <2>3. worker.verdict = "Cancelled" => ShowsCancel(jobs[active])
    BY <1>0, <2>1, <2>2 DEF VerdictPart, At
  <2> QED
    BY <1>4, <2>1, <2>2, <2>3
<1>11. ASSUME worker.pc \in {"take", "begin", "ready", "join", "joined", "drive", "beat", "judge"}
       PROVE  FALSE
  BY <1>0, <1>11 DEF Working, GivenUp
<1>12. ASSUME \/ WorkerTakePayload \/ WorkerPreflightFails \/ WorkerBegin
              \/ WorkerCheckBeforeJoin \/ WorkerFirmwareStarts \/ WorkerJoinFails
              \/ WorkerJoinSucceeds \/ WorkerCheckAfterJoin \/ WorkerBeat \/ WorkerJudge
              \/ \E verdict \in {"Done", "Failed"} : WorkerDriverReturns(verdict)
              \/ \E st \in DriverSteps : WorkerDriverStep(st)
              \/ WorkerAssociating \/ WorkerBeatDue
       PROVE  FALSE
  BY <1>11, <1>12
  DEF WorkerTakePayload, WorkerPreflightFails, WorkerBegin, WorkerCheckBeforeJoin,
      WorkerFirmwareStarts, WorkerJoinFails, WorkerJoinSucceeds, WorkerCheckAfterJoin,
      WorkerBeat, WorkerJudge, WorkerDriverReturns, WorkerDriverStep, WorkerAssociating,
      WorkerBeatDue, At
<1>13. CASE UNCHANGED vars
  BY <1>0, <1>1, <1>13 DEF vars, Working, GivenUp
<1> QED
  BY <1>2, <1>3, <1>5, <1>6, <1>7, <1>8, <1>9, <1>10, <1>12, <1>13
  DEF Next, ClientNext, WorkerNext

LEMMA NeverStartedSteps ==
    ASSUME RegistryInv, Started, [Next]_vars, NEW id \in Nat, NeverStarted(id)
    PROVE  NeverStarted(id)'
<1>1. StreamStep /\ TypeOK /\ seq \in Nat
  BY StreamSteps, RegistryAssumption DEF RegistryInv, TypeOK
<1>2. /\ id \in 1..seq'
      /\ id \in DOMAIN jobs' => id \in DOMAIN jobs
  BY <1>1 DEF StreamStep, NewJob, NewState, CancelShown, OnlyTheActive, SameStreams, NeverStarted
<1>3. CASE id \notin DOMAIN jobs
  BY <1>2, <1>3 DEF NeverStarted
<1>4. CASE id \in DOMAIN jobs /\ jobs[id].state \in {"Failed", "Cancelled"}
  <2>1. id \in DOMAIN jobs' => jobs'[id].state = jobs[id].state
    BY <1>1, <1>4
    DEF StreamStep, NewJob, NewState, CancelShown, OnlyTheActive, SameStreams, Terminal
  <2> QED
    BY <1>2, <1>4, <2>1 DEF NeverStarted
<1>5. CASE id \in DOMAIN jobs /\ WaitsCancelled(id)
  BY <1>2, <1>5, WaitingSteps DEF NeverStarted
<1> QED
  BY <1>3, <1>4, <1>5 DEF NeverStarted

(* A job that was cancelled before the worker received it is never started *)
(* and never reported as done: run_job looks at the flag before it takes   *)
(* the payload (runtime.rs run_job, worker_loop; jobs.rs cancel).          *)
THEOREM CancelIsSeenInQueue == Spec => CancelledInQueueNeverStarts
<1> SUFFICES ASSUME NEW id \in 1..MaxSubmits
             PROVE  Spec => [](IsCancelled(id) /\ jobs[id].state = "Queued" /\ worker.id # id
                       => [](id \in DOMAIN jobs => jobs[id].state \notin Running \cup {"Done"}))
  BY DEF CancelledInQueueNeverStarts
<1>1. Init => Started
  BY DEF Init, AtRest, Started, Outside
<1>2. RegistryInv /\ Started /\ [Next]_vars => Started'
  BY StreamSteps
<1>3. RegistryInv /\ IsCancelled(id) /\ jobs[id].state = "Queued" /\ worker.id # id
        => NeverStarted(id)
  BY CancelledInQueueIsNeverStarted
<1>4. RegistryInv /\ Started /\ NeverStarted(id) /\ [Next]_vars => NeverStarted(id)'
  BY NeverStartedSteps, RegistryAssumption
<1>5. NeverStarted(id) => (id \in DOMAIN jobs => jobs[id].state \notin Running \cup {"Done"})
  BY DEF NeverStarted, WaitsCancelled, Running
<1> QED
  BY <1>1, <1>2, <1>3, <1>4, <1>5, RegistryInvariant, PTL DEF Spec

-----------------------------------------------------------------------------
(* The worker's turns at the radio                                         *)

(* Only a job that goes through a Soft-AP, or one that is dispatched,      *)
(* reaches "join", and only a failed join leaves a release to be done.     *)
TurnReady ==
    /\ worker.release => worker.pc \in {"settle", "teardown"}
    /\ worker.pc = "join" => ThroughAp \/ worker.kind = "fred"

(* What a step does to the slot: submit takes it, an end gives it up.      *)
SlotKept == active' = NoJob <=> active = NoJob
SlotFreed == active # NoJob /\ active' = NoJob

LEMMA StayInSlot ==
    ASSUME TypeOK, RegistryPart, Custody, Working, UNCHANGED seq,
           \/ UNCHANGED active
           \/ \E st \in JobStates \ Terminal : Transition(worker.id, st)
    PROVE  SlotKept /\ active # NoJob
<1>1. active # NoJob /\ worker.id = active /\ active \in DOMAIN jobs
  BY WorkerJob
<1> QED
  BY <1>1 DEF SlotKept, Transition

(* A step of the registry is a step of the turn, or none.                  *)
LEMMA TurnSteps ==
    ASSUME RegistryInv, TurnReady, [Next]_vars
    PROVE  [Turn!TurnNext]_(Turn!turnVars) /\ TurnReady'
<1>0. /\ TypeOK /\ RegistryPart /\ Custody /\ SlotMatchesJobs /\ VerdictPart
      /\ worker \in WorkerStates
      /\ \A st \in Running : st \in JobStates \ Terminal
      /\ {"Joining", "Writing"} \subseteq Running /\ DriverSteps \subseteq Running
      /\ {"Failed", "Cancelled"} \subseteq Terminal
  BY Parts DEF RegistryPart, TypeOK, JobStates, Running, Terminal, DriverSteps
<1>1. ASSUME SlotKept, UNCHANGED worker
      PROVE  [Turn!TurnNext]_(Turn!turnVars) /\ TurnReady'
  BY <1>1 DEF SlotKept, Turn!turnVars, Stage, ThroughAp, TurnReady
<1>2. ASSUME NEW c \in Clients, NEW kind \in Kinds, Submit(c, kind)
      PROVE  [Turn!TurnNext]_(Turn!turnVars) /\ TurnReady'
  <2>1. active = NoJob /\ active' # NoJob /\ UNCHANGED worker
    BY <1>0, <1>2, RegistryAssumption DEF Submit, TypeOK, NoJob
  <2> QED
    BY <2>1 DEF Turn!TurnNext, Turn!Accept, Stage, ThroughAp, TurnReady
<1>3. ASSUME NEW c \in Clients, Send(c)
      PROVE  [Turn!TurnNext]_(Turn!turnVars) /\ TurnReady'
  BY <1>1, <1>3 DEF Send, SlotKept
<1>4. ASSUME NEW c \in Clients, SendFails(c)
      PROVE  [Turn!TurnNext]_(Turn!turnVars) /\ TurnReady'
  <2>1. client[c].pc = "send" /\ client[c] # Idle
    BY <1>4, IdleIsNotSending DEF SendFails
  <2>2. active # NoJob /\ client[c].id = active
    BY <1>0, <2>1 DEF Custody, NobodyHolds, QueueHolds, WorkerHolds, ClientHolds
  <2>3. active \in DOMAIN jobs
    BY <1>0, <2>2 DEF TypeOK
  <2>4. SlotFreed /\ worker.pc = "stopped" /\ UNCHANGED worker
    BY <1>0, <1>4, <2>2, <2>3 DEF SendFails, Transition, SlotFreed
  <2> QED
    BY <2>4 DEF SlotFreed, Turn!TurnNext, Turn!Fail, Stage, TurnReady
<1>5. ASSUME NEW id \in DOMAIN jobs, CancelLive(id) \/ CancelEnded(id)
      PROVE  [Turn!TurnNext]_(Turn!turnVars) /\ TurnReady'
  BY <1>1, <1>5 DEF CancelLive, CancelEnded, SlotKept
<1>6. CASE WorkerReceive
  <2>1. UNCHANGED active /\ worker.pc = "recv" /\ worker'.pc = "check" /\ ~worker'.release
    BY <1>6 DEF WorkerReceive, At, AtRest
  <2> QED
    BY <2>1 DEF Turn!turnVars, Stage, ThroughAp, TurnReady
<1>7. CASE WorkerTeardown
  <2>1. UNCHANGED active /\ worker.pc = "teardown" /\ worker'.pc = "recv" /\ ~worker'.release
    BY <1>7 DEF WorkerTeardown, At, AtRest
  <2> QED
    BY <2>1 DEF Turn!TurnNext, Turn!TornDown, Turn!Moves, Stage, ThroughAp, TurnReady
<1>8. CASE WorkerStops
  <2>1. UNCHANGED active /\ worker.pc # "stopped" /\ worker'.pc = "stopped" /\ ~worker'.release
    BY <1>8 DEF WorkerStops, At, AtRest
  <2> QED
    BY <2>1 DEF Turn!TurnNext, Turn!Die, Stage, ThroughAp, TurnReady
<1>9. ASSUME Working, SlotKept, active # NoJob, NEW v \in Terminal, SettleWith(v),
             ~worker.release,
             worker.pc \notin {"settle", "join"} /\ (ThroughAp => worker.pc \notin {"drive", "beat"})
      PROVE  [Turn!TurnNext]_(Turn!turnVars) /\ TurnReady'
  <2>1. /\ worker'.pc = "settle" /\ worker'.release = worker.release
    BY <1>0, <1>9 DEF SettleWith, WorkerStates
  <2>2. Stage \in {"away", "inside", "back"} /\ Stage' = "closing"
    BY <1>9, <2>1 DEF Stage, ThroughAp, Working
  <2> QED
    BY <1>9, <2>1, <2>2 DEF SlotKept, Turn!TurnNext, Turn!Decide, Turn!Moves, TurnReady
<1>10. ASSUME Working, SlotKept, active # NoJob, ~worker.release,
              NEW pc \in {"take", "ready", "join", "joined", "drive", "beat"}, GoTo(pc),
              \/ pc \in {"take", "ready"} /\ worker.pc \in {"check", "begin"}
              \/ pc = "join" /\ worker.pc = "ready" /\ (ThroughAp \/ worker.kind = "fred")
              \/ pc = "joined" /\ worker.pc = "join"
              \/ pc = "drive" /\ worker.pc \in {"join", "joined", "beat"}
              \/ pc = "drive" /\ worker.pc = "ready" /\ ~ThroughAp
              \/ pc = "beat" /\ worker.pc = "drive"
       PROVE  [Turn!TurnNext]_(Turn!turnVars) /\ TurnReady'
  <2>1. /\ worker'.pc = pc /\ worker'.release = worker.release /\ worker'.kind = worker.kind
    BY <1>0, <1>10 DEF GoTo, WorkerStates
  <2>2. \/ Stage' = Stage
        \/ Stage = "away" /\ Stage' = "inside"
        \/ Stage = "inside" /\ Stage' = "talking"
    BY <1>10, <2>1 DEF Stage, ThroughAp
  <2>3. TurnReady'
    BY <1>10, <2>1 DEF TurnReady, ThroughAp
  <2> QED
    BY <1>10, <2>2, <2>3
    DEF SlotKept, Turn!TurnNext, Turn!Enter, Turn!Talk, Turn!Moves, Turn!turnVars
<1>11. CASE WorkerCheckBeforeStart \/ WorkerCheckBeforeJoin \/ WorkerCheckAfterJoin
  <2>1. /\ Working /\ UNCHANGED <<active, seq>>
        /\ worker.pc \in {"check", "ready", "joined"} /\ ~worker.release
    BY <1>11 DEF WorkerCheckBeforeStart, WorkerCheckBeforeJoin, WorkerCheckAfterJoin, At, Working,
                 TurnReady
  <2>2. SlotKept /\ active # NoJob
    BY <1>0, <2>1, StayInSlot
  <2>3. CASE SettleWith("Cancelled")
    BY <1>0, <1>9, <2>1, <2>2, <2>3
  <2>4. CASE ~SettleWith("Cancelled")
    <3>1. \/ GoTo("take") /\ worker.pc = "check"
          \/ GoTo("join") /\ worker.pc = "ready" /\ (ThroughAp \/ worker.kind = "fred")
          \/ GoTo("drive") /\ worker.pc = "joined"
      BY <1>11, <2>4
      DEF WorkerCheckBeforeStart, WorkerCheckBeforeJoin, WorkerCheckAfterJoin, At, ThroughAp
    <3> QED
      BY <1>10, <2>1, <2>2, <3>1
  <2> QED
    BY <2>3, <2>4
<1>12. CASE WorkerTakePayload
  <2>1. /\ Working /\ UNCHANGED <<active, seq>> /\ worker.pc = "take" /\ ~worker.release
    BY <1>12 DEF WorkerTakePayload, At, Working, TurnReady
  <2>2. SlotKept /\ active # NoJob
    BY <1>0, <2>1, StayInSlot
  <2>3. CASE SettleWith("Failed")
    BY <1>0, <1>9, <2>1, <2>2, <2>3
  <2>4. CASE ~SettleWith("Failed")
    <3>1. worker'.pc = "begin" /\ ~worker'.release
      BY <1>0, <1>12, <2>1, <2>4 DEF WorkerTakePayload, WorkerStates
    <3> QED
      BY <2>1, <2>2, <3>1 DEF SlotKept, Turn!turnVars, Stage, ThroughAp, TurnReady
  <2> QED
    BY <2>3, <2>4
<1>13. CASE WorkerPreflightFails
  <2>0. \/ worker.pc = "begin"
        \/ worker.pc = "ready"
        \/ worker.pc = "drive" /\ worker.kind = "fred"
    BY <1>13 DEF WorkerPreflightFails, At
  <2>1. /\ Working /\ UNCHANGED <<active, seq>> /\ SettleWith("Failed") /\ ~worker.release
        /\ worker.pc \in {"begin", "ready"} \/ (worker.pc = "drive" /\ ~ThroughAp)
    <3>1. UNCHANGED <<active, seq>> /\ SettleWith("Failed")
      BY <1>13 DEF WorkerPreflightFails
    <3>2. Working /\ ~worker.release
      BY <2>0 DEF Working, TurnReady
    <3>3. worker.kind = "fred" => ~ThroughAp
      BY DEF ThroughAp
    <3> QED
      BY <2>0, <3>1, <3>2, <3>3
  <2> QED
    BY <1>0, <1>9, <2>1, StayInSlot
<1>14. CASE WorkerJudge
  <2>1. /\ Working /\ UNCHANGED <<active, seq>> /\ worker.pc = "judge" /\ ~worker.release
        /\ SettleWith("Cancelled") \/ SettleWith(worker.verdict)
    BY <1>14 DEF WorkerJudge, At, Working, TurnReady
  <2>2. worker.verdict \in Terminal
    BY <1>0, WorkerType
  <2> QED
    BY <1>0, <1>9, <2>1, <2>2, StayInSlot
<1>15. CASE WorkerBegin \/ WorkerFirmwareStarts \/ WorkerJoinSucceeds
  <2>1. /\ Working /\ UNCHANGED seq /\ ~worker.release
        /\ worker.pc \in {"begin", "ready", "join"}
    BY <1>15 DEF WorkerBegin, WorkerFirmwareStarts, WorkerJoinSucceeds, At, Working, TurnReady
  <2>2. \/ UNCHANGED active
        \/ Transition(worker.id, "Joining") \/ Transition(worker.id, "Writing")
    BY <1>15 DEF WorkerBegin, WorkerFirmwareStarts, WorkerJoinSucceeds
  <2>3. SlotKept /\ active # NoJob
    BY <1>0, <2>1, <2>2, StayInSlot
  <2>4. CASE WorkerBegin
    BY <1>10, <2>1, <2>3, <2>4 DEF WorkerBegin, At
  <2>5. CASE WorkerFirmwareStarts
    BY <1>10, <2>1, <2>3, <2>5 DEF WorkerFirmwareStarts, At, ThroughAp
  <2>6. CASE WorkerJoinSucceeds
    BY <1>10, <2>1, <2>3, <2>6 DEF WorkerJoinSucceeds, At
  <2> QED
    BY <1>15, <2>4, <2>5, <2>6
<1>16. CASE WorkerJoinFails
  <2>1. /\ UNCHANGED active /\ worker.pc = "join" /\ ThroughAp /\ ~worker.release
    BY <1>16 DEF WorkerJoinFails, At, TurnReady
  <2>2. worker'.pc = "settle" /\ worker'.release
    BY <1>0, <1>16 DEF WorkerJoinFails, WorkerStates
  <2> QED
    BY <2>1, <2>2 DEF Turn!TurnNext, Turn!JoinFailed, Turn!Moves, Stage, TurnReady
<1>17. CASE WorkerBeat \/ WorkerBeatDue
  <2>1. /\ Working /\ UNCHANGED seq /\ ~worker.release
        /\ \/ worker.pc = "beat" /\ GoTo("drive")
           \/ worker.pc = "drive" /\ GoTo("beat")
        /\ UNCHANGED active \/ Transition(worker.id, jobs[worker.id].state)
    BY <1>17 DEF WorkerBeat, WorkerBeatDue, At, Working, TurnReady
  <2>2. jobs[worker.id].state \in JobStates \ Terminal
    BY <1>0, <2>1, WorkerJob DEF Job
  <2>3. SlotKept /\ active # NoJob
    BY <1>0, <2>1, <2>2, StayInSlot
  <2> QED
    BY <1>10, <2>1, <2>3
<1>18. CASE WorkerAssociating
  <2>1. Working /\ UNCHANGED <<seq, worker>> /\ Transition(worker.id, jobs[worker.id].state)
    BY <1>18 DEF WorkerAssociating, At, Working
  <2>2. jobs[worker.id].state \in JobStates \ Terminal
    BY <1>0, <2>1, WorkerJob DEF Job
  <2> QED
    BY <1>0, <1>1, <2>1, <2>2, StayInSlot
<1>19. ASSUME NEW st \in DriverSteps, WorkerDriverStep(st)
       PROVE  [Turn!TurnNext]_(Turn!turnVars) /\ TurnReady'
  <2>1. Working /\ UNCHANGED <<seq, worker>> /\ Transition(worker.id, st)
    BY <1>19 DEF WorkerDriverStep, At, Working
  <2> QED
    BY <1>0, <1>1, <2>1, StayInSlot
<1>20. ASSUME NEW verdict \in {"Done", "Failed"}, WorkerDriverReturns(verdict)
       PROVE  [Turn!TurnNext]_(Turn!turnVars) /\ TurnReady'
  <2>1. /\ UNCHANGED active /\ worker.pc = "drive" /\ ~worker.release
        /\ worker'.pc = "judge" /\ worker'.kind = worker.kind /\ ~worker'.release
    BY <1>0, <1>20 DEF WorkerDriverReturns, At, TurnReady, WorkerStates
  <2> QED
    BY <2>1 DEF Turn!TurnNext, Turn!Return, Turn!Moves, Turn!turnVars, Stage, ThroughAp, TurnReady
<1>21. CASE WorkerSettle
  <2>1. Working /\ Transition(worker.id, worker.verdict) /\ worker.pc = "settle"
    BY <1>21 DEF WorkerSettle, At, Working
  <2>2. active # NoJob /\ active \in DOMAIN jobs /\ worker.id = active /\ worker.verdict \in Terminal
    BY <1>0, <2>1, WorkerJob, WorkerType
  <2>3. SlotFreed
    BY <2>1, <2>2 DEF Transition, SlotFreed
  <2>4. CASE worker.release
    <3>1. worker'.pc = "teardown" /\ worker'.release
      BY <1>0, <1>21, <2>4 DEF WorkerSettle, GoTo, WorkerStates
    <3> QED
      BY <2>1, <2>3, <2>4, <3>1 DEF SlotFreed, Turn!TurnNext, Turn!End, Stage, TurnReady
  <2>5. CASE ~worker.release
    <3>1. worker'.pc = "recv" /\ ~worker'.release
      BY <1>21, <2>5 DEF WorkerSettle, AtRest
    <3> QED
      BY <2>1, <2>3, <2>5, <3>1 DEF SlotFreed, Turn!TurnNext, Turn!End, Stage, ThroughAp, TurnReady
  <2> QED
    BY <2>4, <2>5
<1>22. CASE UNCHANGED vars
  BY <1>1, <1>22 DEF vars, SlotKept
<1> QED
  BY <1>2, <1>3, <1>4, <1>5, <1>6, <1>7, <1>8, <1>11, <1>12, <1>13, <1>14, <1>15, <1>16,
     <1>17, <1>18, <1>19, <1>20, <1>21, <1>22
  DEF Next, ClientNext, WorkerNext

(* The worker gives each job one turn at the radio, with the slot taken    *)
(* until the verdict, and only what follows a failed join is left for      *)
(* after it: what Daemon takes for granted of the registry                 *)
(* (runtime.rs run_program_job, run_firmware_job; jobs.rs transition).     *)
THEOREM RegistryImplementsTurns == Spec => ImplementsJobTurn
<1>1. Init => TurnReady /\ Turn!TurnInit
  BY DEF Init, AtRest, TurnReady, Turn!TurnInit, Stage, ThroughAp
<1>2. RegistryInv /\ TurnReady /\ [Next]_vars => TurnReady'
  BY TurnSteps
<1>3. RegistryInv /\ TurnReady /\ [Next]_vars => [Turn!TurnNext]_(Turn!turnVars)
  BY TurnSteps
<1> QED
  BY <1>1, <1>2, <1>3, RegistryInvariant, PTL DEF Spec, ImplementsJobTurn, Turn!TurnSpec

=============================================================================
