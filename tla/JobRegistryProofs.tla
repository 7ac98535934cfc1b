-------------------------- MODULE JobRegistryProofs --------------------------
(***************************************************************************)
(* Theorems about JobRegistry, for any number of threads, any history      *)
(* limit, any channel capacity and any bounds.                             *)
(***************************************************************************)
EXTENDS JobRegistry, FiniteSetTheorems, TLAPS

-----------------------------------------------------------------------------
(* Type correctness                                                        *)

(* What the registry's updates make of a job is a job.                     *)
LEMMA JobUpdates ==
    ASSUME NEW job \in Job
    PROVE  /\ \A st \in JobStates : Advanced(job, st) \in Job
           /\ Flagged(job) \in Job
           /\ Announced(job) \in Job
           /\ Emptied(job) \in Job
<1>1. \A st \in JobStates : Frame(st) \in Frames /\ CancelFrame(st) \in Frames
  BY DEF Frame, CancelFrame, Frames
<1>2. job.frames \in Seq(Frames) /\ job.state \in JobStates
  BY DEF Job
<1>3. \A st \in JobStates : /\ Append(job.frames, Frame(st)) \in Seq(Frames)
                           /\ Append(job.frames, CancelFrame(st)) \in Seq(Frames)
  BY <1>1, <1>2
<1>4. \A st \in JobStates : Advanced(job, st) \in Job
  BY <1>3 DEF Advanced, Job
<1>5. Announced(job) \in Job
  BY <1>2, <1>3 DEF Announced, Job
<1>6. Flagged(job) \in Job /\ Emptied(job) \in Job
  BY DEF Flagged, Emptied, Job, Payloads, NoKind
<1> QED
  BY <1>4, <1>5, <1>6

LEMMA RecordedType ==
    ASSUME TypeOK, NEW id \in DOMAIN jobs, NEW st \in JobStates
    PROVE  /\ DOMAIN Recorded(id, st) = DOMAIN jobs
           /\ Recorded(id, st) \in [DOMAIN jobs -> Job]
<1>1. Advanced(jobs[id], st) \in Job
  BY JobUpdates DEF TypeOK
<1> QED
  BY <1>1 DEF Recorded, TypeOK

(* transition keeps the registry's types and only ever shrinks its domain. *)
LEMMA TransitionType ==
    ASSUME TypeOK, NEW id, NEW st \in JobStates, Transition(id, st)
    PROVE  /\ DOMAIN jobs' \subseteq DOMAIN jobs
           /\ jobs' \in [DOMAIN jobs' -> Job]
           /\ active' \in DOMAIN jobs' \cup {NoJob}
<1>1. CASE id \notin DOMAIN jobs
  BY <1>1 DEF Transition, TypeOK
<1>2. CASE id \in DOMAIN jobs /\ st \in Terminal
  <2>1. active' = NoJob /\ jobs' = Evict(Recorded(id, st))
    BY <1>2 DEF Transition
  <2>2. DOMAIN Recorded(id, st) = DOMAIN jobs /\ Recorded(id, st) \in [DOMAIN jobs -> Job]
    BY <1>2, RecordedType
  <2>3. PICK gone : Evict(Recorded(id, st)) =
                        [j \in DOMAIN Recorded(id, st) \ gone |-> Recorded(id, st)[j]]
    BY DEF Evict
  <2> QED
    BY <2>1, <2>2, <2>3
<1>3. CASE id \in DOMAIN jobs /\ st \notin Terminal
  <2>1. active' = active /\ jobs' = Recorded(id, st)
    BY <1>3 DEF Transition
  <2> QED
    BY <1>3, <2>1, RecordedType DEF TypeOK
<1> QED
  BY <1>1, <1>2, <1>3

(* An id that was given out stays one.                                     *)
LEMMA SeqGrows == \A n \in Nat : 1..n \subseteq 1..(n + 1) /\ n + 1 \in 1..(n + 1)
  OBVIOUS

LEMMA SubmitType ==
    ASSUME TypeOK, NEW c \in Clients, NEW kind \in Kinds, Submit(c, kind)
    PROVE  TypeOK'
<1>1. seq \in Nat /\ seq' = seq + 1 /\ seq' \in 0..MaxSubmits
  BY RegistryAssumption DEF Submit, TypeOK
<1>2. Fresh(kind) \in Job
  BY DEF Fresh, Job, JobStates, Payloads
<1>3. DOMAIN jobs' = DOMAIN jobs \cup {seq + 1}
  BY DEF Submit
<1>4. DOMAIN jobs' \subseteq 1..seq'
  BY <1>1, <1>3 DEF TypeOK
<1>5. jobs' \in [DOMAIN jobs' -> Job]
  BY <1>2, <1>3 DEF Submit, TypeOK
<1>6. active' \in DOMAIN jobs' \cup {NoJob}
  BY <1>3 DEF Submit
<1>7. client' \in [Clients -> {Idle} \cup [pc : {"send"}, id : 1..seq']]
  <2>1. [pc |-> "send", id |-> seq + 1] \in [pc : {"send"}, id : 1..seq']
    BY <1>1
  <2>2. [pc : {"send"}, id : 1..seq] \subseteq [pc : {"send"}, id : 1..seq']
    BY <1>1
  <2> QED
    BY <2>1, <2>2 DEF Submit, TypeOK
<1>8. queue' \in Seq(1..seq')
  BY <1>1 DEF Submit, TypeOK
<1>9. worker' \in WorkerStates'
  BY <1>1 DEF Submit, TypeOK, WorkerStates
<1> QED
  BY <1>1, <1>4, <1>5, <1>6, <1>7, <1>8, <1>9 DEF TypeOK

(* A step that leaves the registry alone keeps the types as long as its    *)
(* thread's own state stays typed, and so does one that transitions a job. *)
LEMMA UseType ==
    ASSUME TypeOK,
           UNCHANGED <<jobs, active, seq>>,
           client' \in [Clients -> {Idle} \cup [pc : {"send"}, id : 1..seq]],
           queue' \in Seq(1..seq),
           worker' \in WorkerStates
    PROVE  TypeOK'
BY DEF TypeOK, WorkerStates

LEMMA TransitionUse ==
    ASSUME TypeOK,
           UNCHANGED seq,
           NEW id, NEW st \in JobStates, Transition(id, st),
           client' \in [Clients -> {Idle} \cup [pc : {"send"}, id : 1..seq]],
           queue' \in Seq(1..seq),
           worker' \in WorkerStates
    PROVE  TypeOK'
BY TransitionType DEF TypeOK, WorkerStates

LEMMA CancelType ==
    ASSUME TypeOK, NEW id \in DOMAIN jobs, CancelLive(id) \/ CancelEnded(id)
    PROVE  TypeOK'
<1>1. Announced(jobs[id]) \in Job /\ Flagged(jobs[id]) \in Job
  BY JobUpdates DEF TypeOK
<1>2. DOMAIN jobs' = DOMAIN jobs /\ jobs' \in [DOMAIN jobs -> Job]
  BY <1>1 DEF CancelLive, CancelEnded, TypeOK
<1> QED
  BY <1>2 DEF CancelLive, CancelEnded, TypeOK, WorkerStates

(* The ways the worker's own state changes.                                *)
LEMMA WorkerType ==
    ASSUME TypeOK
    PROVE  /\ worker.id \in 0..seq /\ worker.verdict \in Terminal
           /\ AtRest \in WorkerStates
           /\ \A pc \in WorkerPcs : GoTo(pc) => worker' \in WorkerStates
           /\ \A v \in Terminal : SettleWith(v) => worker' \in WorkerStates
<1>1. worker \in WorkerStates
  BY DEF TypeOK
<1>2. AtRest \in WorkerStates
  BY DEF TypeOK, AtRest, WorkerStates, WorkerPcs, Payloads, Terminal, NoJob, NoKind
<1>3. worker.id \in 0..seq /\ worker.verdict \in Terminal
  BY <1>1 DEF WorkerStates
<1>4. \A pc \in WorkerPcs : GoTo(pc) => worker' \in WorkerStates
  BY <1>1 DEF GoTo, WorkerStates
<1>5. \A v \in Terminal : SettleWith(v) => worker' \in WorkerStates
  BY <1>1 DEF SettleWith, WorkerStates, WorkerPcs
<1> QED
  BY <1>2, <1>3, <1>4, <1>5

(* Each step of a connection thread or of the worker keeps the types.      *)
LEMMA StepType == TypeOK /\ [Next]_vars => TypeOK'
<1> SUFFICES ASSUME TypeOK, [Next]_vars
             PROVE  TypeOK'
  OBVIOUS
<1>0. /\ \A st \in {"Queued", "Joining", "Probing", "Writing", "Verifying", "Restarting",
                      "Done", "Failed", "Cancelled"} : st \in JobStates
      /\ \A v \in {"Done", "Failed", "Cancelled"} : v \in Terminal
      /\ \A pc \in {"recv", "check", "take", "begin", "ready", "join", "joined", "drive",
                    "beat", "judge", "settle", "teardown", "stopped"} : pc \in WorkerPcs
  BY DEF JobStates, Terminal, Running, WorkerPcs
<1>1. ASSUME NEW c \in Clients, NEW kind \in Kinds, Submit(c, kind)
      PROVE  TypeOK'
  BY <1>1, SubmitType
<1>2. ASSUME NEW c \in Clients, Send(c)
      PROVE  TypeOK'
  <2>1. client[c] \in {Idle} \cup [pc : {"send"}, id : 1..seq] /\ client[c] # Idle
    BY <1>2 DEF Send, TypeOK, Idle
  <2>2. client[c].id \in 1..seq
    BY <2>1
  <2>3. queue' \in Seq(1..seq)
    BY <1>2, <2>2 DEF Send, TypeOK
  <2>4. client' \in [Clients -> {Idle} \cup [pc : {"send"}, id : 1..seq]]
    BY <1>2 DEF Send, TypeOK
  <2> QED
    BY <1>2, <2>3, <2>4, UseType DEF Send, TypeOK
<1>3. ASSUME NEW c \in Clients, SendFails(c)
      PROVE  TypeOK'
  <2>1. client' \in [Clients -> {Idle} \cup [pc : {"send"}, id : 1..seq]]
    BY <1>3 DEF SendFails, TypeOK
  <2> QED
    BY <1>0, <1>3, <2>1, TransitionUse DEF SendFails, TypeOK
<1>4. ASSUME NEW id \in DOMAIN jobs, CancelLive(id) \/ CancelEnded(id)
      PROVE  TypeOK'
  BY <1>4, CancelType
<1>5. CASE WorkerReceive
  <2>1. Head(queue) \in 1..seq /\ Tail(queue) \in Seq(1..seq)
    BY <1>5 DEF WorkerReceive, TypeOK
  <2>2. Head(queue) \in 0..seq
    BY <2>1 DEF TypeOK
  <2>3. [AtRest EXCEPT !.pc = "check", !.id = Head(queue)] \in WorkerStates
    BY <1>0, <2>2, WorkerType DEF WorkerStates
  <2> QED
    BY <1>5, <2>1, <2>3, UseType DEF WorkerReceive, TypeOK
<1>6. CASE WorkerCheckBeforeStart
  <2>1. worker' \in WorkerStates
    BY <1>0, <1>6, WorkerType DEF WorkerCheckBeforeStart
  <2> QED
    BY <1>6, <2>1, UseType DEF WorkerCheckBeforeStart, TypeOK
<1>7. CASE WorkerTakePayload
  <2>1. CASE worker.id \in DOMAIN jobs /\ jobs[worker.id].payload # NoKind
    <3>1. Emptied(jobs[worker.id]) \in Job /\ jobs[worker.id].payload \in Payloads
      BY <2>1, JobUpdates DEF TypeOK, Job
    <3>2. worker' = [worker EXCEPT !.pc = "begin", !.kind = jobs[worker.id].payload]
      BY <1>7, <2>1 DEF WorkerTakePayload
    <3>3. worker' \in WorkerStates
      BY <1>0, <3>1, <3>2 DEF TypeOK, WorkerStates
    <3>4. DOMAIN jobs' = DOMAIN jobs /\ jobs' \in [DOMAIN jobs -> Job]
      BY <1>7, <2>1, <3>1 DEF WorkerTakePayload, TypeOK
    <3> QED
      BY <1>7, <3>3, <3>4 DEF WorkerTakePayload, TypeOK, WorkerStates
  <2>2. CASE ~(worker.id \in DOMAIN jobs /\ jobs[worker.id].payload # NoKind)
    <3>1. worker' \in WorkerStates /\ UNCHANGED <<jobs, active, seq, client, queue>>
      BY <1>0, <1>7, <2>2, WorkerType DEF WorkerTakePayload
    <3> QED
      BY <3>1, UseType DEF TypeOK
  <2> QED
    BY <2>1, <2>2
<1>8. CASE WorkerPreflightFails
  <2>1. worker' \in WorkerStates
    BY <1>0, <1>8, WorkerType DEF WorkerPreflightFails
  <2> QED
    BY <1>8, <2>1, UseType DEF WorkerPreflightFails, TypeOK
<1>9. CASE WorkerBegin
  <2>1. worker' \in WorkerStates
    BY <1>0, <1>9, WorkerType DEF WorkerBegin
  <2>2. \/ UNCHANGED <<jobs, active>>
        \/ Transition(worker.id, "Joining")
        \/ Transition(worker.id, "Writing")
    BY <1>9 DEF WorkerBegin
  <2> QED
    BY <1>0, <1>9, <2>1, <2>2, UseType, TransitionUse DEF WorkerBegin, TypeOK
<1>10. CASE WorkerCheckBeforeJoin
  <2>1. worker' \in WorkerStates
    BY <1>0, <1>10, WorkerType DEF WorkerCheckBeforeJoin
  <2> QED
    BY <1>10, <2>1, UseType DEF WorkerCheckBeforeJoin, TypeOK
<1>11. CASE WorkerFirmwareStarts
  <2>1. worker' \in WorkerStates
    BY <1>0, <1>11, WorkerType DEF WorkerFirmwareStarts
  <2> QED
    BY <1>0, <1>11, <2>1, TransitionUse DEF WorkerFirmwareStarts, TypeOK
<1>12. CASE WorkerJoinFails
  <2>1. worker' \in WorkerStates
    BY <1>0, <1>12 DEF WorkerJoinFails, TypeOK, WorkerStates
  <2> QED
    BY <1>12, <2>1, UseType DEF WorkerJoinFails, TypeOK
<1>13. CASE WorkerJoinSucceeds
  <2>1. worker' \in WorkerStates
    BY <1>0, <1>13, WorkerType DEF WorkerJoinSucceeds
  <2> QED
    BY <1>0, <1>13, <2>1, UseType, TransitionUse DEF WorkerJoinSucceeds, TypeOK
<1>14. CASE WorkerCheckAfterJoin
  <2>1. worker' \in WorkerStates
    BY <1>0, <1>14, WorkerType DEF WorkerCheckAfterJoin
  <2> QED
    BY <1>14, <2>1, UseType DEF WorkerCheckAfterJoin, TypeOK
<1>15. ASSUME NEW st \in DriverSteps, WorkerDriverStep(st)
       PROVE  TypeOK'
  BY <1>0, <1>15, TransitionUse DEF WorkerDriverStep, DriverSteps, TypeOK
<1>16. CASE WorkerAssociating \/ WorkerBeat
  <2>1. /\ Transition(worker.id, jobs[worker.id].state)
        /\ worker' = worker \/ GoTo("drive")
        /\ UNCHANGED <<seq, client, queue>>
    BY <1>16 DEF WorkerAssociating, WorkerBeat
  <2>2. worker' \in WorkerStates
    BY <1>0, <2>1, WorkerType DEF TypeOK
  <2>3. CASE worker.id \in DOMAIN jobs
    <3>1. jobs[worker.id].state \in JobStates
      BY <2>3 DEF TypeOK, Job
    <3> QED
      BY <2>1, <2>2, <3>1, TransitionUse DEF TypeOK
  <2>4. CASE worker.id \notin DOMAIN jobs
    BY <2>1, <2>2, <2>4, UseType DEF Transition, TypeOK
  <2> QED
    BY <2>3, <2>4
<1>23. CASE WorkerBeatDue
  <2>1. worker' \in WorkerStates
    BY <1>0, <1>23, WorkerType DEF WorkerBeatDue
  <2> QED
    BY <1>23, <2>1, UseType DEF WorkerBeatDue, TypeOK
<1>17. ASSUME NEW verdict \in {"Done", "Failed"}, WorkerDriverReturns(verdict)
       PROVE  TypeOK'
  <2>1. worker' \in WorkerStates
    BY <1>0, <1>17 DEF WorkerDriverReturns, TypeOK, WorkerStates
  <2> QED
    BY <1>17, <2>1, UseType DEF WorkerDriverReturns, TypeOK
<1>18. CASE WorkerJudge
  <2>1. worker' \in WorkerStates
    BY <1>0, <1>18, WorkerType DEF WorkerJudge
  <2> QED
    BY <1>18, <2>1, UseType DEF WorkerJudge, TypeOK
<1>19. CASE WorkerSettle
  <2>1. worker' \in WorkerStates
    BY <1>0, <1>19, WorkerType DEF WorkerSettle
  <2>2. worker.verdict \in JobStates
    BY WorkerType DEF JobStates
  <2> QED
    BY <1>19, <2>1, <2>2, TransitionUse DEF WorkerSettle, TypeOK
<1>20. CASE WorkerTeardown
  BY <1>20, UseType, WorkerType DEF WorkerTeardown, TypeOK
<1>21. CASE WorkerStops
  <2>3. Stranded \in 0..seq
    <3>1. queue # <<>> => Head(queue) \in 1..seq
      BY <1>0 DEF TypeOK
    <3>2. NoJob \in 0..seq /\ worker.id \in 0..seq
      BY <1>0, WorkerType DEF NoJob, TypeOK
    <3> QED
      BY <1>0, <3>1, <3>2 DEF Stranded, TypeOK
  <2>1. [AtRest EXCEPT !.pc = "stopped", !.id = Stranded] \in WorkerStates
    BY <1>0, <2>3, WorkerType DEF WorkerStates
  <2>2. queue' \in Seq(1..seq)
    BY <1>21 DEF WorkerStops
  <2> QED
    BY <1>21, <2>1, <2>2, UseType DEF WorkerStops, TypeOK
<1>22. CASE UNCHANGED vars
  BY <1>22, UseType DEF vars, TypeOK
<1> QED
  BY <1>1, <1>2, <1>3, <1>4, <1>5, <1>6, <1>7, <1>8, <1>9, <1>10, <1>11, <1>12, <1>13,
     <1>14, <1>15, <1>16, <1>17, <1>18, <1>19, <1>20, <1>21, <1>22, <1>23
  DEF Next, ClientNext, WorkerNext

(* The types of JobRegistry hold always: in particular the slot never      *)
(* names a job the registry has forgotten.                                 *)
THEOREM TypeCorrect == Spec => []TypeOK
<1>1. Init => TypeOK
  BY RegistryAssumption
  DEF Init, TypeOK, AtRest, WorkerStates, WorkerPcs, Payloads, Terminal, NoJob, NoKind
<1> QED
  BY <1>1, StepType, PTL DEF Spec

-----------------------------------------------------------------------------
(* What a registry update does to one job                                  *)

LEMMA FrameUpdates ==
    ASSUME NEW job \in Job, FramesOf(job), job.state \notin Terminal,
           NEW st \in JobStates
    PROVE  /\ FramesOf(Advanced(job, st)) /\ Advanced(job, st).state = st
           /\ FramesOf(Announced(job)) /\ ShowsCancel(Announced(job))
           /\ Announced(job).state = job.state
           /\ ShowsCancel(job) => ShowsCancel(Advanced(job, st))
           /\ Advanced(job, st).cancel = job.cancel
<1> DEFINE n == Len(job.frames)
<1>1. job.frames \in Seq(Frames) /\ n \in Nat /\ job.state \in JobStates
  BY DEF Job
<1>2. \A i \in 1..n : job.frames[i].state \notin Terminal
  BY <1>1 DEF FramesOf
<1>3. ASSUME NEW f \in Frames
      PROVE  /\ Len(Append(job.frames, f)) = n + 1
             /\ \A i \in 1..n : Append(job.frames, f)[i] = job.frames[i]
             /\ Append(job.frames, f)[n + 1] = f
  BY <1>1
<1>4. Frame(st) \in Frames /\ CancelFrame(job.state) \in Frames
  BY <1>1 DEF Frame, CancelFrame, Frames
<1>5. /\ Advanced(job, st).frames = Append(job.frames, Frame(st))
      /\ Advanced(job, st).state = st
      /\ Advanced(job, st).cancel = job.cancel
  BY DEF Advanced, Job
<1>6. /\ Announced(job).frames = Append(job.frames, CancelFrame(job.state))
      /\ Announced(job).state = job.state
  BY DEF Announced, Job
<1>7. Frame(st).state = st /\ CancelFrame(job.state).state = job.state
      /\ CancelFrame(job.state).cancel = TRUE
  BY DEF Frame, CancelFrame
<1>8. FramesOf(Advanced(job, st))
  BY <1>1, <1>2, <1>3, <1>4, <1>5, <1>7 DEF FramesOf
<1>9. FramesOf(Announced(job))
  BY <1>1, <1>2, <1>3, <1>4, <1>6, <1>7 DEF FramesOf
<1>10. ShowsCancel(Announced(job))
  <2>1. n + 1 \in 1..Len(Announced(job).frames)
    BY <1>1, <1>3, <1>4, <1>6
  <2>2. Announced(job).frames[n + 1].cancel
    BY <1>3, <1>4, <1>6, <1>7
  <2> QED
    BY <2>1, <2>2 DEF ShowsCancel
<1>11. ASSUME ShowsCancel(job)
       PROVE  ShowsCancel(Advanced(job, st))
  <2>1. PICK i \in 1..n : job.frames[i].cancel
    BY <1>11 DEF ShowsCancel
  <2>2. i \in 1..Len(Advanced(job, st).frames) /\ Advanced(job, st).frames[i].cancel
    BY <1>1, <1>3, <1>4, <1>5, <2>1
  <2> QED
    BY <2>2 DEF ShowsCancel
<1> QED
  BY <1>5, <1>6, <1>8, <1>9, <1>10, <1>11

(* The flag and the payload are not part of a job's stream.                *)
LEMMA QuietUpdates ==
    ASSUME NEW job \in Job
    PROVE  /\ FramesOf(Flagged(job)) <=> FramesOf(job)
           /\ FramesOf(Emptied(job)) <=> FramesOf(job)
           /\ ShowsCancel(Flagged(job)) <=> ShowsCancel(job)
           /\ ShowsCancel(Emptied(job)) <=> ShowsCancel(job)
           /\ Flagged(job).state = job.state /\ Emptied(job).state = job.state
           /\ Emptied(job).cancel = job.cancel
<1>1. /\ Flagged(job).state = job.state /\ Flagged(job).frames = job.frames
      /\ Emptied(job).state = job.state /\ Emptied(job).frames = job.frames
      /\ Emptied(job).cancel = job.cancel
  BY DEF Flagged, Emptied, Job
<1> QED
  BY <1>1 DEF FramesOf, ShowsCancel

(* Once every job has ended and the limit is exceeded by at most one, the  *)
(* eviction drops the oldest job or none.                                  *)
LEMMA EvictOldest ==
    ASSUME NEW js, NEW lo \in Nat, NEW n \in Nat, lo <= n,
           DOMAIN js = lo..n,
           \A id \in DOMAIN js : js[id].state \in Terminal,
           n - lo < MaxHistory + 1
    PROVE  \E low \in {lo, lo + 1} :
               /\ low <= n
               /\ n - low < MaxHistory
               /\ Evict(js) = [id \in low..n |-> js[id]]
<1> DEFINE ended == {id \in DOMAIN js : js[id].state \in Terminal}
           over == Cardinality(DOMAIN js) - MaxHistory
           gone == {id \in ended : Cardinality({j \in ended : j < id}) < over}
<1>1. ended = lo..n
  OBVIOUS
<1>2. over = n - lo + 1 - MaxHistory
  <2>1. Cardinality(lo..n) = IF lo > n THEN 0 ELSE n - lo + 1
    BY lo \in Int, n \in Int, FS_Interval
  <2>2. Cardinality(lo..n) = n - lo + 1
    BY <2>1
  <2>3. Cardinality(DOMAIN js) = n - lo + 1
    BY <2>2, Zenon
  <2> QED
    BY <2>3, RegistryAssumption
<1>3. ASSUME NEW id \in lo..n
      PROVE  Cardinality({j \in ended : j < id}) = id - lo
  <2>1. {j \in ended : j < id} = lo..(id - 1)
    BY <1>1
  <2>2. Cardinality(lo..(id - 1)) = IF lo > id - 1 THEN 0 ELSE id - 1 - lo + 1
    <3>1. id - 1 \in Int /\ lo \in Int
      OBVIOUS
    <3> QED
      BY <3>1, FS_Interval
  <2>3. Cardinality(lo..(id - 1)) = id - lo
    BY <2>2
  <2> QED
    BY <2>1, <2>3, Zenon
<1>4. gone = {id \in lo..n : id - lo < over}
  BY <1>1, <1>3
<1>5. Evict(js) = [id \in DOMAIN js \ gone |-> js[id]]
  BY DEF Evict
<1>6. CASE over <= 0
  <2>1. DOMAIN js \ gone = lo..n
    BY <1>2, <1>4, <1>6, RegistryAssumption
  <2>2. n - lo < MaxHistory
    BY <1>2, <1>6, RegistryAssumption
  <2> QED
    BY <1>5, <2>1, <2>2
<1>7. CASE over = 1
  <2>1. DOMAIN js \ gone = (lo + 1)..n
    BY <1>4, <1>7
  <2>2. n - (lo + 1) < MaxHistory /\ lo + 1 <= n
    BY <1>2, <1>7, RegistryAssumption
  <2> QED
    BY <1>5, <2>1, <2>2
<1> QED
  BY <1>2, <1>6, <1>7, RegistryAssumption

-----------------------------------------------------------------------------
(* The part of the invariant that speaks of the registry alone, and each   *)
(* way its methods change it.                                              *)
RegistryPart ==
    /\ SlotMatchesJobs
    /\ TerminalFrameLast
    /\ CancelledOnRequest
    /\ RemembersLatest
    /\ active # NoJob => active = seq
    /\ \A id \in Pending : jobs[id].cancel => ShowsCancel(jobs[id])

LEMMA ActiveIsPending ==
    ASSUME TypeOK, SlotMatchesJobs, active # NoJob
    PROVE  /\ active \in DOMAIN jobs /\ jobs[active] \in Job
           /\ jobs[active].state \notin Terminal /\ jobs[active].state \in JobStates
           /\ \A id \in DOMAIN jobs \ {active} : jobs[id].state \in Terminal
<1>1. Pending = {active}
  BY DEF SlotMatchesJobs
<1>2. active \in DOMAIN jobs /\ jobs[active] \in Job
  BY <1>1 DEF Pending, TypeOK
<1> QED
  BY <1>1, <1>2 DEF Pending, Job

LEMMA SubmitPart ==
    ASSUME TypeOK, RegistryPart, NEW c \in Clients, NEW kind \in Kinds, Submit(c, kind)
    PROVE  RegistryPart'
<1>1. /\ active = NoJob /\ active' = seq + 1 /\ seq' = seq + 1 /\ seq \in Nat
      /\ DOMAIN jobs' = DOMAIN jobs \cup {seq + 1}
      /\ jobs'[seq + 1] = Fresh(kind)
      /\ \A id \in DOMAIN jobs : id # seq + 1 /\ jobs'[id] = jobs[id]
  BY RegistryAssumption DEF Submit, TypeOK
<1>2. \A id \in DOMAIN jobs : jobs[id].state \in Terminal
  BY <1>1 DEF RegistryPart, SlotMatchesJobs, Pending
<1>3. /\ Fresh(kind).state = "Queued" /\ Fresh(kind).cancel = FALSE
      /\ Fresh(kind).frames = <<>> /\ "Queued" \notin Terminal
  BY DEF Fresh, Terminal
<1>4. SlotMatchesJobs'
  BY <1>1, <1>2, <1>3 DEF SlotMatchesJobs, Pending, NoJob
<1>5. FramesOf(Fresh(kind))
  BY <1>3 DEF FramesOf
<1>6. TerminalFrameLast'
  BY <1>1, <1>5 DEF TerminalFrameLast, RegistryPart
<1>7. CancelledOnRequest'
  BY <1>1, <1>3 DEF CancelledOnRequest, RegistryPart
<1>8. RemembersLatest'
  <2>1. PICK oldest \in 1..(seq + 1) : DOMAIN jobs = oldest..seq /\ seq - oldest < MaxHistory
    BY <1>1, RegistryAssumption DEF RegistryPart, RemembersLatest
  <2>2. DOMAIN jobs' = oldest..(seq + 1)
    BY <1>1, <2>1
  <2>3. oldest \in 1..(seq' + 1) /\ seq' - oldest < MaxHistory + 1
    BY <1>1, <2>1, RegistryAssumption
  <2> QED
    BY <1>1, <2>2, <2>3 DEF RemembersLatest, NoJob
<1>9. \A id \in Pending' : jobs'[id].cancel => ShowsCancel(jobs'[id])
  BY <1>1, <1>2, <1>3 DEF Pending
<1> QED
  BY <1>1, <1>4, <1>6, <1>7, <1>8, <1>9 DEF RegistryPart

(* A step that rewrites the job in the slot without ending it.             *)
LEMMA RewritePart ==
    ASSUME TypeOK, RegistryPart, active # NoJob, NEW job,
           jobs' = [jobs EXCEPT ![active] = job], UNCHANGED <<active, seq>>,
           FramesOf(job), job.state \notin Terminal,
           job.cancel => ShowsCancel(job)
    PROVE  RegistryPart'
<1>1. /\ active \in DOMAIN jobs
      /\ \A id \in DOMAIN jobs \ {active} : jobs[id].state \in Terminal
  BY ActiveIsPending DEF RegistryPart
<1>2. /\ DOMAIN jobs' = DOMAIN jobs /\ jobs'[active] = job
      /\ \A id \in DOMAIN jobs \ {active} : jobs'[id] = jobs[id]
  BY <1>1 DEF TypeOK
<1>3. SlotMatchesJobs'
  BY <1>1, <1>2 DEF SlotMatchesJobs, Pending
<1>4. TerminalFrameLast'
  BY <1>1, <1>2 DEF TerminalFrameLast, RegistryPart
<1>5. CancelledOnRequest'
  BY <1>1, <1>2 DEF CancelledOnRequest, RegistryPart, Terminal
<1>6. RemembersLatest'
  BY <1>2 DEF RemembersLatest, RegistryPart
<1>7. \A id \in Pending' : jobs'[id].cancel => ShowsCancel(jobs'[id])
  BY <1>1, <1>2 DEF Pending
<1> QED
  BY <1>3, <1>4, <1>5, <1>6, <1>7 DEF RegistryPart

LEMMA RunPart ==
    ASSUME TypeOK, RegistryPart, active # NoJob, NEW st \in JobStates \ Terminal,
           Transition(active, st), UNCHANGED seq
    PROVE  RegistryPart' /\ active' = active
<1>1. /\ active \in DOMAIN jobs /\ jobs[active] \in Job /\ jobs[active].state \notin Terminal
  BY ActiveIsPending DEF RegistryPart
<1>2. jobs' = [jobs EXCEPT ![active] = Advanced(jobs[active], st)] /\ active' = active
  BY <1>1 DEF Transition, Recorded
<1>3. FramesOf(jobs[active]) /\ (jobs[active].cancel => ShowsCancel(jobs[active]))
  BY <1>1 DEF RegistryPart, TerminalFrameLast, Pending
<1>4. /\ FramesOf(Advanced(jobs[active], st)) /\ Advanced(jobs[active], st).state = st
      /\ Advanced(jobs[active], st).cancel = jobs[active].cancel
      /\ ShowsCancel(jobs[active]) => ShowsCancel(Advanced(jobs[active], st))
  BY <1>1, <1>3, FrameUpdates
<1> QED
  BY <1>2, <1>3, <1>4, RewritePart

LEMMA EndPart ==
    ASSUME TypeOK, RegistryPart, active # NoJob, NEW st \in Terminal,
           st = "Cancelled" => ShowsCancel(jobs[active]),
           Transition(active, st), UNCHANGED seq
    PROVE  /\ RegistryPart'
           /\ active' = NoJob
           /\ active \in DOMAIN jobs' /\ jobs'[active] = Advanced(jobs[active], st)
           /\ DOMAIN jobs' \subseteq DOMAIN jobs
           /\ \A id \in DOMAIN jobs' \ {active} : jobs'[id] = jobs[id]
<1> DEFINE js == Recorded(active, st)
<1>1. /\ active \in DOMAIN jobs /\ jobs[active] \in Job /\ jobs[active].state \notin Terminal
      /\ \A id \in DOMAIN jobs \ {active} : jobs[id].state \in Terminal
  BY ActiveIsPending DEF RegistryPart
<1>2. jobs' = Evict(js) /\ active' = NoJob
  BY <1>1 DEF Transition
<1>3. /\ DOMAIN js = DOMAIN jobs /\ js[active] = Advanced(jobs[active], st)
      /\ \A id \in DOMAIN jobs \ {active} : js[id] = jobs[id]
  BY <1>1 DEF Recorded, TypeOK
<1>4. st \in JobStates /\ FramesOf(jobs[active])
  BY <1>1 DEF JobStates, RegistryPart, TerminalFrameLast
<1>5. /\ FramesOf(js[active]) /\ js[active].state = st
      /\ ShowsCancel(jobs[active]) => ShowsCancel(js[active])
  BY <1>1, <1>3, <1>4, FrameUpdates
<1>6. \A id \in DOMAIN js : js[id].state \in Terminal
  BY <1>1, <1>3, <1>5
<1>7. PICK oldest \in 1..(seq + 1) : DOMAIN jobs = oldest..seq /\ seq - oldest < MaxHistory + 1
  BY RegistryAssumption DEF RegistryPart, RemembersLatest
<1>8. oldest \in Nat /\ seq \in Nat /\ oldest <= seq /\ active = seq
  BY <1>1, <1>7, RegistryAssumption DEF RegistryPart, TypeOK
<1>9. PICK low \in {oldest, oldest + 1} :
          low <= seq /\ seq - low < MaxHistory /\ Evict(js) = [id \in low..seq |-> js[id]]
  BY <1>3, <1>6, <1>7, <1>8, EvictOldest
<1>10. /\ DOMAIN jobs' = low..seq /\ low..seq \subseteq DOMAIN jobs /\ active \in DOMAIN jobs'
       /\ \A id \in DOMAIN jobs' : jobs'[id] = js[id]
  BY <1>2, <1>7, <1>8, <1>9
<1>11. Pending' = {}
  BY <1>3, <1>6, <1>10 DEF Pending
<1>12. SlotMatchesJobs'
  BY <1>2, <1>11 DEF SlotMatchesJobs
<1>13. TerminalFrameLast'
  BY <1>3, <1>5, <1>10 DEF TerminalFrameLast, RegistryPart
<1>14. CancelledOnRequest'
  BY <1>3, <1>5, <1>10 DEF CancelledOnRequest, RegistryPart
<1>15. RemembersLatest'
  <2>1. low \in 1..(seq' + 1) /\ seq' - low < MaxHistory + 0
    BY <1>7, <1>8, <1>9, RegistryAssumption
  <2> QED
    BY <1>2, <1>10, <2>1 DEF RemembersLatest
<1> QED
  BY <1>2, <1>3, <1>10, <1>11, <1>12, <1>13, <1>14, <1>15 DEF RegistryPart

LEMMA CancelPart ==
    ASSUME TypeOK, RegistryPart, NEW id \in DOMAIN jobs, CancelLive(id) \/ CancelEnded(id)
    PROVE  RegistryPart'
<1>1. CASE CancelLive(id)
  <2>1. active # NoJob /\ id = active
    BY <1>1 DEF CancelLive, IsPending, RegistryPart, SlotMatchesJobs, Pending
  <2>2. jobs[active] \in Job /\ jobs[active].state \notin Terminal /\ FramesOf(jobs[active])
    BY <2>1, ActiveIsPending DEF RegistryPart, TerminalFrameLast
  <2>3. "Done" \in JobStates
    BY DEF JobStates, Terminal
  <2>4. /\ FramesOf(Announced(jobs[active])) /\ ShowsCancel(Announced(jobs[active]))
        /\ Announced(jobs[active]).state \notin Terminal
    BY <2>2, <2>3, FrameUpdates
  <2> QED
    BY <1>1, <2>1, <2>4, RewritePart DEF CancelLive
<1>2. CASE CancelEnded(id)
  <2>1. /\ DOMAIN jobs' = DOMAIN jobs /\ jobs'[id] = Flagged(jobs[id])
        /\ \A j \in DOMAIN jobs \ {id} : jobs'[j] = jobs[j]
        /\ UNCHANGED <<active, seq>> /\ jobs[id].state \in Terminal /\ jobs[id] \in Job
    BY <1>2 DEF CancelEnded, TypeOK
  <2>2. /\ Flagged(jobs[id]).state = jobs[id].state
        /\ FramesOf(Flagged(jobs[id])) <=> FramesOf(jobs[id])
        /\ ShowsCancel(Flagged(jobs[id])) <=> ShowsCancel(jobs[id])
    BY <2>1, QuietUpdates
  <2>3. Pending' = Pending
    BY <2>1, <2>2 DEF Pending
  <2>4. SlotMatchesJobs'
    BY <2>1, <2>3 DEF SlotMatchesJobs, RegistryPart
  <2>5. TerminalFrameLast' /\ CancelledOnRequest'
    BY <2>1, <2>2 DEF TerminalFrameLast, CancelledOnRequest, RegistryPart
  <2>6. RemembersLatest'
    BY <2>1 DEF RemembersLatest, RegistryPart
  <2>7. \A j \in Pending' : jobs'[j].cancel => ShowsCancel(jobs'[j])
    BY <2>1, <2>3 DEF Pending, RegistryPart
  <2> QED
    BY <2>1, <2>4, <2>5, <2>6, <2>7 DEF RegistryPart
<1> QED
  BY <1>1, <1>2

-----------------------------------------------------------------------------
(* The part that speaks of the worker's decision, and the inductive step   *)
VerdictPart ==
    /\ worker.pc = "judge" => worker.verdict # "Cancelled"
    /\ worker.pc = "settle" /\ worker.verdict = "Cancelled" => ShowsCancel(jobs[worker.id])

LEMMA Parts == RegistryInv <=> TypeOK /\ RegistryPart /\ Custody /\ VerdictPart
BY DEF RegistryInv, RegistryPart, VerdictPart, Strengthening

LEMMA NextParts == TypeOK' /\ RegistryPart' /\ Custody' /\ VerdictPart' => RegistryInv'
BY DEF RegistryInv, RegistryPart, VerdictPart, Strengthening

LEMMA IdleIsNotSending == Idle.pc = "idle" /\ \A id : [pc |-> "send", id |-> id] # Idle
BY DEF Idle

(* While the worker is in a job, that job is the one in the slot.          *)
LEMMA WorkerJob ==
    ASSUME TypeOK, RegistryPart, Custody, Working
    PROVE  /\ WorkerHolds /\ active # NoJob /\ worker.id = active
           /\ active \in DOMAIN jobs /\ jobs[active] \in Job
           /\ jobs[active].state \notin Terminal /\ FramesOf(jobs[active])
           /\ IsCancelled(active) => ShowsCancel(jobs[active])
<1>1. WorkerHolds /\ active # NoJob
  BY DEF Custody, NobodyHolds, ClientHolds, QueueHolds
<1>2. active \in DOMAIN jobs /\ jobs[active] \in Job /\ jobs[active].state \notin Terminal
  BY <1>1, ActiveIsPending DEF RegistryPart
<1> QED
  BY <1>1, <1>2 DEF WorkerHolds, RegistryPart, TerminalFrameLast, IsCancelled, Pending

(* A step inside the worker's job, from one working point to the next.     *)
LEMMA StaysAtWork ==
    ASSUME WorkerHolds, active # NoJob, UNCHANGED <<client, queue, active>>,
           worker'.id = worker.id, Working'
    PROVE  Custody'
BY DEF WorkerHolds, Custody

(* A step that touches neither the registry nor its own verdict's grounds. *)
LEMMA RegistryUntouched ==
    ASSUME RegistryPart, UNCHANGED <<jobs, active, seq>>
    PROVE  RegistryPart'
BY DEF RegistryPart, SlotMatchesJobs, Pending, TerminalFrameLast, CancelledOnRequest,
       RemembersLatest

(* GoTo and SettleWith, seen from the invariant.                           *)
LEMMA WorkerMoves ==
    ASSUME TypeOK
    PROVE  /\ \A pc \in WorkerPcs : GoTo(pc) =>
                  worker'.pc = pc /\ worker'.id = worker.id /\ worker'.verdict = worker.verdict
           /\ \A v \in Terminal : SettleWith(v) =>
                  worker'.pc = "settle" /\ worker'.id = worker.id /\ worker'.verdict = v
<1>1. worker \in WorkerStates
  BY DEF TypeOK
<1> QED
  BY <1>1 DEF GoTo, SettleWith, WorkerStates

LEMMA ClientSteps ==
    ASSUME RegistryInv, TypeOK', ClientNext
    PROVE  RegistryInv'
<1>0. TypeOK /\ RegistryPart /\ Custody /\ VerdictPart
  BY Parts
<1>1. ASSUME NEW c \in Clients, NEW kind \in Kinds, Submit(c, kind)
      PROVE  RegistryInv'
  <2>1. RegistryPart'
    BY <1>0, <1>1, SubmitPart
  <2>2. active = NoJob /\ active' = seq + 1 /\ seq \in Nat
    BY <1>0, <1>1, RegistryAssumption DEF Submit, TypeOK
  <2>3. NobodyHolds
    BY <1>0, <2>2 DEF Custody
  <2>4. /\ client'[c] = [pc |-> "send", id |-> active']
        /\ \A d \in Clients \ {c} : client'[d] = client[d]
        /\ UNCHANGED <<queue, worker>>
    BY <1>0, <1>1, <2>2 DEF Submit, TypeOK
  <2>5. ClientHolds(c)'
    BY <2>3, <2>4 DEF ClientHolds, NobodyHolds, Working
  <2>6. Custody'
    BY <2>2, <2>5 DEF Custody, NoJob
  <2>7. VerdictPart'
    BY <1>0, <2>3, <2>4 DEF VerdictPart, NobodyHolds, Working
  <2> QED
    BY <2>1, <2>6, <2>7, NextParts
<1>2. ASSUME NEW c \in Clients, Send(c)
      PROVE  RegistryInv'
  <2>1. client[c].pc = "send" /\ client[c] # Idle
    BY <1>2, IdleIsNotSending DEF Send
  <2>2. active # NoJob /\ ClientHolds(c)
    BY <1>0, <2>1 DEF Custody, NobodyHolds, QueueHolds, WorkerHolds, ClientHolds
  <2>3. /\ queue' = <<active>>
        /\ \A d \in Clients : client'[d] = Idle
        /\ UNCHANGED <<jobs, active, seq, worker>>
    BY <1>0, <1>2, <2>2 DEF Send, ClientHolds, TypeOK
  <2>4. Custody'
    BY <2>2, <2>3 DEF Custody, QueueHolds, ClientHolds, Working
  <2>5. RegistryPart' /\ VerdictPart'
    BY <1>0, <2>3, RegistryUntouched DEF VerdictPart
  <2> QED
    BY <2>4, <2>5, NextParts
<1>3. ASSUME NEW c \in Clients, SendFails(c)
      PROVE  RegistryInv'
  <2>1. client[c].pc = "send" /\ client[c] # Idle
    BY <1>3, IdleIsNotSending DEF SendFails
  <2>2. active # NoJob /\ ClientHolds(c)
    BY <1>0, <2>1 DEF Custody, NobodyHolds, QueueHolds, WorkerHolds, ClientHolds
  <2>3. /\ Transition(active, "Failed")
        /\ \A d \in Clients : client'[d] = Idle
        /\ UNCHANGED <<seq, queue, worker>>
    BY <1>0, <1>3, <2>2 DEF SendFails, ClientHolds, TypeOK
  <2>4. RegistryPart' /\ active' = NoJob
    BY <1>0, <2>2, <2>3, EndPart DEF Terminal
  <2>5. Custody'
    BY <2>2, <2>3, <2>4 DEF Custody, NobodyHolds, ClientHolds, Working
  <2>6. VerdictPart'
    BY <1>3, <2>3 DEF SendFails, VerdictPart
  <2> QED
    BY <2>4, <2>5, <2>6, NextParts
<1>4. ASSUME NEW id \in DOMAIN jobs, CancelLive(id) \/ CancelEnded(id)
      PROVE  RegistryInv'
  <2>1. RegistryPart'
    BY <1>0, <1>4, CancelPart
  <2>2. UNCHANGED <<active, seq, client, queue, worker>>
    BY <1>4 DEF CancelLive, CancelEnded
  <2>3. Custody'
    BY <1>0, <2>2 DEF Custody, NobodyHolds, ClientHolds, QueueHolds, WorkerHolds, Working
  <2>4. VerdictPart'
    <3>1. SUFFICES ASSUME worker.pc = "settle", worker.verdict = "Cancelled"
                   PROVE  ShowsCancel(jobs'[worker.id])
      BY <1>0, <2>2 DEF VerdictPart
    <3>2. ShowsCancel(jobs[worker.id]) /\ Working
      BY <1>0, <3>1 DEF VerdictPart, Working
    <3>3. worker.id \in DOMAIN jobs /\ jobs[worker.id] \in Job
      BY <1>0, <3>2, WorkerJob
    <3>4. CASE CancelLive(id) /\ id = worker.id
      <4>1. jobs'[id] = Announced(jobs[id])
        BY <1>0, <3>4 DEF CancelLive, TypeOK
      <4>2. /\ jobs[id].state \notin Terminal /\ FramesOf(jobs[id]) /\ "Done" \in JobStates
        BY <1>0, <3>2, <3>4, WorkerJob DEF JobStates, Terminal
      <4> QED
        BY <3>3, <3>4, <4>1, <4>2, FrameUpdates
    <3>5. CASE CancelEnded(id) /\ id = worker.id
      <4>1. jobs'[id] = Flagged(jobs[id])
        BY <1>0, <3>5 DEF CancelEnded, TypeOK
      <4> QED
        BY <3>2, <3>3, <3>5, <4>1, QuietUpdates
    <3>6. CASE id # worker.id
      <4>1. jobs'[worker.id] = jobs[worker.id]
        BY <1>0, <1>4, <3>3, <3>6 DEF CancelLive, CancelEnded, TypeOK
      <4> QED
        BY <3>2, <4>1
    <3> QED
      BY <1>4, <3>4, <3>5, <3>6
  <2> QED
    BY <2>1, <2>3, <2>4, NextParts
<1> QED
  BY <1>1, <1>2, <1>3, <1>4 DEF ClientNext

(* A step of the worker inside its job that leaves the registry alone.     *)
LEMMA QuietWork ==
    ASSUME TypeOK, RegistryPart, Custody, Working,
           UNCHANGED <<jobs, active, seq, client, queue>>,
           worker'.id = worker.id, Working', VerdictPart', TypeOK'
    PROVE  RegistryInv'
<1>1. WorkerHolds /\ active # NoJob
  BY WorkerJob
<1> QED
  BY <1>1, RegistryUntouched, StaysAtWork, NextParts

(* A step of the worker inside its job that takes the job to another state.*)
LEMMA RunningWork ==
    ASSUME TypeOK, RegistryPart, Custody, Working,
           NEW st \in JobStates \ Terminal, Transition(worker.id, st),
           UNCHANGED <<seq, client, queue>>,
           worker'.id = worker.id, Working', worker'.pc \notin {"judge", "settle"}, TypeOK'
    PROVE  RegistryInv'
<1>1. WorkerHolds /\ active # NoJob /\ worker.id = active
  BY WorkerJob
<1>2. RegistryPart' /\ active' = active
  BY <1>1, RunPart
<1>3. VerdictPart'
  BY DEF VerdictPart
<1> QED
  BY <1>1, <1>2, <1>3, StaysAtWork, NextParts

(* A verdict to cancel is given on the word of the job's own flag.         *)
LEMMA SettleGrounds ==
    ASSUME TypeOK, RegistryPart, Custody, Working, NEW v \in Terminal, SettleWith(v),
           v = "Cancelled" => IsCancelled(worker.id),
           UNCHANGED jobs
    PROVE  /\ VerdictPart' /\ Working' /\ worker'.id = worker.id
<1>1. worker'.pc = "settle" /\ worker'.id = worker.id /\ worker'.verdict = v
  BY WorkerMoves
<1>2. worker.id = active /\ (IsCancelled(active) => ShowsCancel(jobs[active]))
  BY WorkerJob
<1> QED
  BY <1>1, <1>2 DEF VerdictPart, Working

(* Every step of the worker keeps the invariant.                           *)
LEMMA WorkerSteps ==
    ASSUME RegistryInv, TypeOK',
           \/ WorkerNext
           \/ \E st \in DriverSteps : WorkerDriverStep(st)
           \/ WorkerAssociating \/ WorkerBeatDue
           \/ WorkerStops
    PROVE  RegistryInv'
<1>0. TypeOK /\ RegistryPart /\ Custody /\ VerdictPart
  BY Parts
<1>a. /\ \A v \in {"Done", "Failed", "Cancelled"} : v \in Terminal
      /\ \A st \in {"Joining", "Probing", "Writing", "Verifying", "Restarting"} :
            st \in JobStates \ Terminal
      /\ \A pc \in {"check", "take", "begin", "ready", "join", "joined", "drive", "beat"} :
            /\ pc \in WorkerPcs
            /\ GoTo(pc) => /\ worker'.pc = pc /\ worker'.id = worker.id
                          /\ Working' /\ VerdictPart' /\ worker'.pc \notin {"judge", "settle"}
  <2>1. \A pc \in {"check", "take", "begin", "ready", "join", "joined", "drive", "beat"} :
            pc \in WorkerPcs
    BY DEF WorkerPcs
  <2>2. ASSUME NEW pc \in {"check", "take", "begin", "ready", "join", "joined", "drive", "beat"},
               GoTo(pc)
        PROVE  /\ worker'.pc = pc /\ worker'.id = worker.id
               /\ Working' /\ VerdictPart' /\ worker'.pc \notin {"judge", "settle"}
    <3>1. worker'.pc = pc /\ worker'.id = worker.id
      BY <1>0, <2>1, <2>2, WorkerMoves
    <3> QED
      BY <3>1 DEF Working, VerdictPart
  <2>3. \A v \in {"Done", "Failed", "Cancelled"} : v \in Terminal
    BY DEF Terminal
  <2>4. \A st \in {"Joining", "Probing", "Writing", "Verifying", "Restarting"} :
            st \in JobStates \ Terminal
    BY DEF JobStates, Running, Terminal
  <2> QED
    BY <2>1, <2>2, <2>3, <2>4
<1>b. \A pc \in {"check", "take", "begin", "ready", "join", "joined", "drive", "beat",
                "judge", "settle"} :
          worker.pc = pc => Working
  BY DEF Working
<1>1. CASE WorkerReceive
  <2>1. ~Working /\ queue # <<>> /\ worker.pc # "stopped"
    BY <1>1 DEF WorkerReceive, At, Working
  <2>2. active # NoJob /\ QueueHolds
    BY <1>0, <2>1 DEF Custody, NobodyHolds, ClientHolds, WorkerHolds
  <2>3. Head(queue) = active /\ Tail(queue) = <<>>
    BY <2>2 DEF QueueHolds
  <2>4. /\ worker'.pc = "check" /\ worker'.id = active
        /\ queue' = <<>> /\ UNCHANGED <<jobs, active, seq, client>>
    BY <1>1, <2>3 DEF WorkerReceive, AtRest
  <2>5. Custody'
    BY <2>2, <2>4 DEF QueueHolds, Custody, WorkerHolds, Working
  <2>6. RegistryPart' /\ VerdictPart'
    BY <1>0, <2>4, RegistryUntouched DEF VerdictPart
  <2> QED
    BY <2>5, <2>6, NextParts
<1>2. CASE WorkerCheckBeforeStart
  <2>1. Working /\ UNCHANGED <<jobs, active, seq, client, queue>>
    BY <1>2, <1>b DEF WorkerCheckBeforeStart, At
  <2>2. (SettleWith("Cancelled") /\ IsCancelled(worker.id)) \/ GoTo("take")
    BY <1>2 DEF WorkerCheckBeforeStart
  <2>3. VerdictPart' /\ Working' /\ worker'.id = worker.id
    BY <1>0, <1>a, <2>1, <2>2, SettleGrounds
  <2> QED
    BY <1>0, <2>1, <2>3, QuietWork
<1>3. CASE WorkerTakePayload
  <2>1. Working /\ UNCHANGED <<active, seq, client, queue>>
    BY <1>3, <1>b DEF WorkerTakePayload, At
  <2>2. CASE worker.id \in DOMAIN jobs /\ jobs[worker.id].payload # NoKind
    <3>1. /\ worker' = [worker EXCEPT !.pc = "begin", !.kind = jobs[worker.id].payload]
          /\ jobs' = [jobs EXCEPT ![worker.id] = Emptied(jobs[worker.id])]
      BY <1>3, <2>2 DEF WorkerTakePayload
    <3>2. worker'.pc = "begin" /\ worker'.id = worker.id
      BY <1>0, <3>1 DEF TypeOK, WorkerStates
    <3>3. /\ WorkerHolds /\ active # NoJob /\ worker.id = active
          /\ jobs[active] \in Job /\ active \in DOMAIN jobs
          /\ jobs[active].state \notin Terminal /\ FramesOf(jobs[active])
          /\ IsCancelled(active) => ShowsCancel(jobs[active])
      BY <1>0, <2>1, WorkerJob
    <3>4. /\ FramesOf(Emptied(jobs[active])) /\ Emptied(jobs[active]).state \notin Terminal
          /\ Emptied(jobs[active]).cancel => ShowsCancel(Emptied(jobs[active]))
      BY <3>3, QuietUpdates DEF IsCancelled
    <3>5. RegistryPart'
      BY <1>0, <2>1, <3>1, <3>3, <3>4, RewritePart
    <3>6. Custody' /\ VerdictPart'
      BY <2>1, <3>2, <3>3, StaysAtWork DEF Working, VerdictPart
    <3> QED
      BY <3>5, <3>6, NextParts
  <2>3. CASE ~(worker.id \in DOMAIN jobs /\ jobs[worker.id].payload # NoKind)
    <3>1. SettleWith("Failed") /\ UNCHANGED jobs
      BY <1>3, <2>3 DEF WorkerTakePayload
    <3>2. VerdictPart' /\ Working' /\ worker'.id = worker.id
      BY <1>0, <1>a, <2>1, <3>1, SettleGrounds
    <3> QED
      BY <1>0, <2>1, <3>1, <3>2, QuietWork
  <2> QED
    BY <2>2, <2>3
<1>4. CASE WorkerPreflightFails
  <2>1. Working /\ UNCHANGED <<jobs, active, seq, client, queue>> /\ SettleWith("Failed")
    BY <1>4, <1>b DEF WorkerPreflightFails, At
  <2>2. VerdictPart' /\ Working' /\ worker'.id = worker.id
    BY <1>0, <1>a, <2>1, SettleGrounds
  <2> QED
    BY <1>0, <2>1, <2>2, QuietWork
<1>5. CASE WorkerBegin
  <2>1. Working /\ UNCHANGED <<seq, client, queue>> /\ GoTo("ready")
    BY <1>5, <1>b DEF WorkerBegin, At
  <2>2. \/ UNCHANGED <<jobs, active>>
        \/ Transition(worker.id, "Joining")
        \/ Transition(worker.id, "Writing")
    BY <1>5 DEF WorkerBegin
  <2> QED
    BY <1>0, <1>a, <2>1, <2>2, QuietWork, RunningWork
<1>6. CASE WorkerCheckBeforeJoin
  <2>1. Working /\ UNCHANGED <<jobs, active, seq, client, queue>>
    BY <1>6, <1>b DEF WorkerCheckBeforeJoin, At
  <2>2. (SettleWith("Cancelled") /\ IsCancelled(worker.id)) \/ GoTo("join")
    BY <1>6 DEF WorkerCheckBeforeJoin
  <2>3. VerdictPart' /\ Working' /\ worker'.id = worker.id
    BY <1>0, <1>a, <2>1, <2>2, SettleGrounds
  <2> QED
    BY <1>0, <2>1, <2>3, QuietWork
<1>7. CASE WorkerFirmwareStarts
  <2>1. Working /\ UNCHANGED <<seq, client, queue>> /\ (GoTo("join") \/ GoTo("drive"))
    BY <1>7, <1>b DEF WorkerFirmwareStarts, At
  <2>2. Transition(worker.id, "Joining") \/ Transition(worker.id, "Writing")
    BY <1>7 DEF WorkerFirmwareStarts
  <2> QED
    BY <1>0, <1>a, <2>1, <2>2, RunningWork
<1>8. CASE WorkerJoinFails
  <2>1. Working /\ UNCHANGED <<jobs, active, seq, client, queue>>
    BY <1>8, <1>b DEF WorkerJoinFails, At
  <2>2. worker'.pc = "settle" /\ worker'.id = worker.id /\ worker'.verdict = "Failed"
    BY <1>0, <1>8 DEF WorkerJoinFails, TypeOK, WorkerStates
  <2>3. VerdictPart' /\ Working'
    BY <2>2 DEF VerdictPart, Working
  <2> QED
    BY <1>0, <2>1, <2>2, <2>3, QuietWork
<1>9. CASE WorkerJoinSucceeds
  <2>1. Working /\ UNCHANGED <<seq, client, queue>> /\ (GoTo("joined") \/ GoTo("drive"))
    BY <1>9, <1>b DEF WorkerJoinSucceeds, At
  <2>2. UNCHANGED <<jobs, active>> \/ Transition(worker.id, "Writing")
    BY <1>9 DEF WorkerJoinSucceeds
  <2> QED
    BY <1>0, <1>a, <2>1, <2>2, QuietWork, RunningWork
<1>10. CASE WorkerCheckAfterJoin
  <2>1. Working /\ UNCHANGED <<jobs, active, seq, client, queue>>
    BY <1>10, <1>b DEF WorkerCheckAfterJoin, At
  <2>2. (SettleWith("Cancelled") /\ IsCancelled(worker.id)) \/ GoTo("drive")
    BY <1>10 DEF WorkerCheckAfterJoin
  <2>3. VerdictPart' /\ Working' /\ worker'.id = worker.id
    BY <1>0, <1>a, <2>1, <2>2, SettleGrounds
  <2> QED
    BY <1>0, <2>1, <2>3, QuietWork
<1>11. ASSUME NEW st \in DriverSteps, WorkerDriverStep(st)
       PROVE  RegistryInv'
  <2>1. /\ Working /\ UNCHANGED <<seq, client, queue, worker>>
        /\ Working' /\ worker'.pc \notin {"judge", "settle"}
    BY <1>11 DEF WorkerDriverStep, At, Working
  <2>2. Transition(worker.id, st) /\ st \in JobStates \ Terminal
    BY <1>a, <1>11 DEF WorkerDriverStep, DriverSteps
  <2> QED
    BY <1>0, <2>1, <2>2, RunningWork
<1>12. CASE WorkerAssociating \/ WorkerBeat
  <2>1. /\ Working /\ UNCHANGED <<seq, client, queue>>
        /\ Transition(worker.id, jobs[worker.id].state)
        /\ (worker' = worker /\ worker.pc = "join") \/ GoTo("drive")
    BY <1>12, <1>b DEF WorkerAssociating, WorkerBeat, At
  <2>2. worker'.id = worker.id /\ Working' /\ worker'.pc \notin {"judge", "settle"}
    BY <1>a, <2>1 DEF Working
  <2>3. jobs[worker.id].state \in JobStates \ Terminal
    BY <1>0, <2>1, WorkerJob DEF Job
  <2> QED
    BY <1>0, <2>1, <2>2, <2>3, RunningWork
<1>18. CASE WorkerBeatDue
  <2>1. Working /\ UNCHANGED <<jobs, active, seq, client, queue>> /\ GoTo("beat")
    BY <1>18, <1>b DEF WorkerBeatDue, At
  <2> QED
    BY <1>0, <1>a, <2>1, QuietWork
<1>13. ASSUME NEW verdict \in {"Done", "Failed"}, WorkerDriverReturns(verdict)
       PROVE  RegistryInv'
  <2>1. Working /\ UNCHANGED <<jobs, active, seq, client, queue>>
    BY <1>13, <1>b DEF WorkerDriverReturns, At
  <2>2. worker'.pc = "judge" /\ worker'.id = worker.id /\ worker'.verdict # "Cancelled"
    BY <1>0, <1>13 DEF WorkerDriverReturns, TypeOK, WorkerStates
  <2>3. VerdictPart' /\ Working'
    BY <2>2 DEF VerdictPart, Working
  <2> QED
    BY <1>0, <2>1, <2>2, <2>3, QuietWork
<1>14. CASE WorkerJudge
  <2>1. Working /\ UNCHANGED <<jobs, active, seq, client, queue>> /\ worker.verdict \in Terminal
    BY <1>0, <1>14, <1>b, WorkerType DEF WorkerJudge, At
  <2>2. worker.verdict # "Cancelled"
    BY <1>0, <1>14 DEF WorkerJudge, At, VerdictPart
  <2>3. CASE IsCancelled(worker.id)
    <3>1. SettleWith("Cancelled")
      BY <1>14, <2>3 DEF WorkerJudge
    <3>2. VerdictPart' /\ Working' /\ worker'.id = worker.id
      BY <1>0, <1>a, <2>1, <2>3, <3>1, SettleGrounds
    <3> QED
      BY <1>0, <2>1, <3>2, QuietWork
  <2>4. CASE ~IsCancelled(worker.id)
    <3>1. SettleWith(worker.verdict)
      BY <1>14, <2>4 DEF WorkerJudge
    <3>2. VerdictPart' /\ Working' /\ worker'.id = worker.id
      BY <1>0, <2>1, <2>2, <3>1, SettleGrounds
    <3> QED
      BY <1>0, <2>1, <3>2, QuietWork
  <2> QED
    BY <2>3, <2>4
<1>15. CASE WorkerSettle
  <2>1. Working /\ UNCHANGED <<seq, client, queue>> /\ Transition(worker.id, worker.verdict)
    BY <1>15, <1>b DEF WorkerSettle, At
  <2>2. WorkerHolds /\ active # NoJob /\ worker.id = active /\ worker.verdict \in Terminal
    BY <1>0, <2>1, WorkerJob, WorkerType
  <2>3. worker.verdict = "Cancelled" => ShowsCancel(jobs[active])
    BY <1>0, <1>15, <2>2 DEF VerdictPart, WorkerSettle, At
  <2>4. RegistryPart' /\ active' = NoJob
    BY <1>0, <2>1, <2>2, <2>3, EndPart
  <2>5. worker'.pc \in {"teardown", "recv"}
    BY <1>0, <1>15 DEF WorkerSettle, GoTo, AtRest, TypeOK, WorkerStates
  <2>6. Custody' /\ VerdictPart'
    BY <2>1, <2>2, <2>4, <2>5 DEF Custody, NobodyHolds, WorkerHolds, Working, VerdictPart
  <2> QED
    BY <2>4, <2>6, NextParts
<1>16. CASE WorkerTeardown
  <2>1. /\ ~Working /\ worker'.pc = "recv" /\ worker.pc # "stopped"
        /\ UNCHANGED <<jobs, active, seq, client, queue>>
    BY <1>16 DEF WorkerTeardown, At, AtRest, Working
  <2>2. Custody' /\ VerdictPart'
    BY <1>0, <2>1 DEF Custody, NobodyHolds, ClientHolds, QueueHolds, WorkerHolds, Working,
                      VerdictPart
  <2> QED
    BY <1>0, <2>1, <2>2, RegistryUntouched, NextParts
<1>17. CASE WorkerStops
  <2>1. /\ worker'.pc = "stopped" /\ queue' = <<>> /\ worker.pc # "stopped"
        /\ worker'.id = Stranded
        /\ UNCHANGED <<jobs, active, seq, client>>
    BY <1>17 DEF WorkerStops, At, AtRest
  <2>3. QueueHolds \/ WorkerHolds => Stranded = active
    BY <1>0 DEF QueueHolds, WorkerHolds, Working, Stranded, At, TypeOK
  <2>2. Custody' /\ VerdictPart'
    BY <1>0, <2>1, <2>3 DEF Custody, NobodyHolds, ClientHolds, QueueHolds, WorkerHolds, Working,
                      VerdictPart
  <2> QED
    BY <1>0, <2>1, <2>2, RegistryUntouched, NextParts
<1> QED
  BY <1>1, <1>2, <1>3, <1>4, <1>5, <1>6, <1>7, <1>8, <1>9, <1>10, <1>11, <1>12, <1>13,
     <1>14, <1>15, <1>16, <1>17, <1>18 DEF WorkerNext

LEMMA InitInv == Init => RegistryInv
<1> SUFFICES ASSUME Init PROVE RegistryInv
  OBVIOUS
<1>1. TypeOK
  BY RegistryAssumption
  DEF Init, TypeOK, AtRest, WorkerStates, WorkerPcs, Payloads, Terminal, NoJob, NoKind
<1>2. DOMAIN jobs = {} /\ active = NoJob /\ seq = 0 /\ Pending = {}
  BY DEF Init, Pending
<1>3. RemembersLatest
  <2>1. 1 \in 1..(seq + 1) /\ DOMAIN jobs = 1..seq /\ seq - 1 < MaxHistory + 0
    BY <1>2, RegistryAssumption
  <2> QED
    BY <1>2, <2>1 DEF RemembersLatest
<1>4. Custody
  BY DEF Init, Custody, NobodyHolds, Working, AtRest
<1>5. SlotMatchesJobs /\ TerminalFrameLast /\ CancelledOnRequest
  BY <1>2 DEF SlotMatchesJobs, TerminalFrameLast, CancelledOnRequest
<1>6. Strengthening
  BY <1>2 DEF Init, Strengthening, AtRest
<1> QED
  BY <1>1, <1>3, <1>4, <1>5, <1>6 DEF RegistryInv

LEMMA RegistryStep == RegistryInv /\ [Next]_vars => RegistryInv'
<1> SUFFICES ASSUME RegistryInv, [Next]_vars
             PROVE  RegistryInv'
  OBVIOUS
<1>1. TypeOK /\ TypeOK'
  BY StepType DEF RegistryInv
<1>2. CASE UNCHANGED vars
  <2>1. TypeOK /\ RegistryPart /\ Custody /\ VerdictPart
    BY Parts
  <2>2. RegistryPart' /\ VerdictPart' /\ Custody'
    BY <1>2, <2>1, RegistryUntouched
    DEF vars, VerdictPart, Custody, NobodyHolds, ClientHolds, QueueHolds, WorkerHolds, Working
  <2> QED
    BY <1>1, <2>2, NextParts
<1> QED
  BY <1>1, <1>2, ClientSteps, WorkerSteps DEF Next

(* The inductive invariant: SlotMatchesJobs alone is not inductive, since  *)
(* transition clears the slot for whatever job it is called; that the call *)
(* is always for the job in the slot is what Custody says of the threads,  *)
(* and that the eviction takes one old job, and never the one that ended,  *)
(* needs the shape of the history in RemembersLatest.                      *)
THEOREM RegistryInvariant == Spec => []RegistryInv
<1> QED
  BY InitInv, RegistryStep, PTL DEF Spec

(* submit answers Busy exactly while a job has not ended, and at most one  *)
(* job has not ended (jobs.rs submit, transition, is_busy).                *)
THEOREM SlotIsExact == Spec => []SlotMatchesJobs
<1>1. RegistryInv => SlotMatchesJobs
  BY DEF RegistryInv
<1> QED
  BY <1>1, RegistryInvariant, PTL

(* No accepted job is lost between the thread that submitted it, the       *)
(* channel and the worker, and none is in two places                       *)
(* (runtime.rs submit_program, submit_firmware, worker_loop).              *)
THEOREM CustodyIsKept == Spec => []Custody
<1>1. RegistryInv => Custody
  BY DEF RegistryInv
<1> QED
  BY <1>1, RegistryInvariant, PTL

(* A job's stream of frames ends with its terminal frame, and has one only *)
(* once the job has ended (jobs.rs transition, cancel).                    *)
THEOREM StreamsEndOnce == Spec => []TerminalFrameLast
<1>1. RegistryInv => TerminalFrameLast
  BY DEF RegistryInv
<1> QED
  BY <1>1, RegistryInvariant, PTL

(* A job that ended as Cancelled shows the request in its stream           *)
(* (jobs.rs cancel; runtime.rs run_job, finish_firmware_job).              *)
THEOREM CancelledWasRequested == Spec => []CancelledOnRequest
<1>1. RegistryInv => CancelledOnRequest
  BY DEF RegistryInv
<1> QED
  BY <1>1, RegistryInvariant, PTL

(* The registry knows the latest jobs without a gap, MaxHistory ended ones *)
(* and the running one at most (jobs.rs evict_old_jobs).                   *)
THEOREM HistoryIsBounded == Spec => []RemembersLatest
<1>1. RegistryInv => RemembersLatest
  BY DEF RegistryInv
<1> QED
  BY <1>1, RegistryInvariant, PTL

-----------------------------------------------------------------------------
(* What the steps do to the slot                                           *)

(* Seen from the slot, a step accepts a job, ends the job in the slot, or  *)
(* leaves every job pending or ended as it was.                            *)
Accepts ==
    /\ active = NoJob /\ active' = seq + 1 /\ seq' = seq + 1
    /\ DOMAIN jobs' = DOMAIN jobs \cup {seq + 1} /\ seq + 1 \notin DOMAIN jobs
    /\ jobs'[seq + 1].state \notin Terminal
    /\ \A id \in DOMAIN jobs : jobs'[id] = jobs[id]

Finishes ==
    /\ active # NoJob /\ active' = NoJob /\ seq' = seq
    /\ active \in DOMAIN jobs' /\ jobs'[active].state \in Terminal
    /\ DOMAIN jobs' \subseteq DOMAIN jobs
    /\ \A id \in DOMAIN jobs' \ {active} : jobs'[id] = jobs[id]

SameOutcomes ==
    /\ active' = active /\ seq' = seq
    /\ DOMAIN jobs' = DOMAIN jobs
    /\ \A id \in DOMAIN jobs :
          IF jobs[id].state \in Terminal
          THEN jobs'[id].state = jobs[id].state /\ jobs'[id].frames = jobs[id].frames
          ELSE jobs'[id].state \notin Terminal

LEMMA QuietSlot == UNCHANGED <<jobs, active, seq>> => SameOutcomes
BY DEF SameOutcomes

LEMMA RewriteSlot ==
    ASSUME TypeOK, SlotMatchesJobs, active # NoJob, NEW job, job.state \notin Terminal,
           jobs' = [jobs EXCEPT ![active] = job], UNCHANGED <<active, seq>>
    PROVE  SameOutcomes
<1>1. active \in DOMAIN jobs /\ jobs[active].state \notin Terminal
  BY ActiveIsPending
<1> QED
  BY <1>1 DEF SameOutcomes, TypeOK

LEMMA RunSlot ==
    ASSUME TypeOK, RegistryPart, Custody, Working, UNCHANGED seq,
           NEW st \in JobStates \ Terminal, Transition(worker.id, st)
    PROVE  SameOutcomes
<1>1. /\ worker.id = active /\ active # NoJob /\ active \in DOMAIN jobs
      /\ jobs[active] \in Job /\ FramesOf(jobs[active]) /\ jobs[active].state \notin Terminal
  BY WorkerJob
<1>2. jobs' = [jobs EXCEPT ![active] = Advanced(jobs[active], st)] /\ active' = active
  BY <1>1 DEF Transition, Recorded
<1>3. Advanced(jobs[active], st).state = st
  BY <1>1, FrameUpdates
<1> QED
  BY <1>1, <1>2, <1>3, RewriteSlot DEF RegistryPart

LEMMA EndSlot ==
    ASSUME TypeOK, RegistryPart, active # NoJob, UNCHANGED seq,
           NEW st \in Terminal, st = "Cancelled" => ShowsCancel(jobs[active]),
           Transition(active, st)
    PROVE  Finishes
<1>1. /\ active' = NoJob /\ active \in DOMAIN jobs'
      /\ jobs'[active] = Advanced(jobs[active], st)
      /\ DOMAIN jobs' \subseteq DOMAIN jobs
      /\ \A id \in DOMAIN jobs' \ {active} : jobs'[id] = jobs[id]
  BY EndPart
<1>2. /\ jobs[active] \in Job /\ jobs[active].state \notin Terminal /\ FramesOf(jobs[active])
      /\ st \in JobStates
  BY ActiveIsPending DEF RegistryPart, TerminalFrameLast, JobStates
<1>3. Advanced(jobs[active], st).state = st
  BY <1>2, FrameUpdates
<1> QED
  BY <1>1, <1>3 DEF Finishes

LEMMA SlotSteps ==
    ASSUME RegistryInv, [Next]_vars
    PROVE  Accepts \/ Finishes \/ SameOutcomes
<1>0. /\ TypeOK /\ RegistryPart /\ Custody /\ VerdictPart /\ SlotMatchesJobs
      /\ \A st \in {"Joining", "Probing", "Writing", "Verifying", "Restarting"} :
            st \in JobStates \ Terminal
  BY Parts DEF RegistryPart, JobStates, Running, Terminal
<1>1. ASSUME NEW c \in Clients, NEW kind \in Kinds, Submit(c, kind)
      PROVE  Accepts
  <2>1. seq + 1 \notin DOMAIN jobs
    BY <1>0, RegistryAssumption DEF TypeOK
  <2> QED
    BY <1>1, <2>1 DEF Submit, Accepts, Fresh, Terminal
<1>2. ASSUME NEW c \in Clients, Send(c)
      PROVE  SameOutcomes
  BY <1>2, QuietSlot DEF Send
<1>3. ASSUME NEW c \in Clients, SendFails(c)
      PROVE  Finishes
  <2>1. client[c].pc = "send" /\ client[c] # Idle
    BY <1>3, IdleIsNotSending DEF SendFails
  <2>2. active # NoJob /\ client[c].id = active
    BY <1>0, <2>1 DEF Custody, NobodyHolds, QueueHolds, WorkerHolds, ClientHolds
  <2> QED
    BY <1>0, <1>3, <2>2, EndSlot DEF SendFails, Terminal
<1>4. ASSUME NEW id \in DOMAIN jobs, CancelLive(id)
      PROVE  SameOutcomes
  <2>1. active # NoJob /\ id = active
    BY <1>0, <1>4 DEF CancelLive, IsPending, SlotMatchesJobs, Pending
  <2>2. jobs[active] \in Job /\ jobs[active].state \notin Terminal
    BY <1>0, <2>1, ActiveIsPending
  <2>3. Announced(jobs[active]).state \notin Terminal
    BY <2>2 DEF Announced, Job
  <2> QED
    BY <1>0, <1>4, <2>1, <2>3, RewriteSlot DEF CancelLive
<1>5. ASSUME NEW id \in DOMAIN jobs, CancelEnded(id)
      PROVE  SameOutcomes
  <2>1. /\ Flagged(jobs[id]).state = jobs[id].state /\ Flagged(jobs[id]).frames = jobs[id].frames
    BY <1>0 DEF Flagged, TypeOK, Job
  <2> QED
    BY <1>0, <1>5, <2>1 DEF CancelEnded, SameOutcomes, TypeOK
<1>6. ASSUME \/ WorkerReceive \/ WorkerCheckBeforeStart \/ WorkerPreflightFails
             \/ WorkerCheckBeforeJoin \/ WorkerJoinFails \/ WorkerCheckAfterJoin
             \/ WorkerJudge \/ WorkerTeardown \/ WorkerStops \/ WorkerBeatDue
             \/ UNCHANGED vars
             \/ \E verdict \in {"Done", "Failed"} : WorkerDriverReturns(verdict)
      PROVE  SameOutcomes
  <2>1. UNCHANGED <<jobs, active, seq>>
    BY <1>6 DEF WorkerReceive, WorkerCheckBeforeStart, WorkerPreflightFails,
                WorkerCheckBeforeJoin, WorkerJoinFails, WorkerCheckAfterJoin, WorkerJudge,
                WorkerTeardown, WorkerStops, WorkerBeatDue, WorkerDriverReturns, vars
  <2> QED
    BY <2>1, QuietSlot
<1>7. CASE WorkerTakePayload
  <2>1. CASE worker.id \in DOMAIN jobs /\ jobs[worker.id].payload # NoKind
    <3>1. Working /\ UNCHANGED <<active, seq>>
          /\ jobs' = [jobs EXCEPT ![worker.id] = Emptied(jobs[worker.id])]
      BY <1>7, <2>1 DEF WorkerTakePayload, At, Working
    <3>2. /\ worker.id = active /\ active # NoJob
          /\ jobs[active] \in Job /\ jobs[active].state \notin Terminal
      BY <1>0, <3>1, WorkerJob
    <3>3. Emptied(jobs[active]).state \notin Terminal
      BY <3>2, QuietUpdates
    <3> QED
      BY <1>0, <3>1, <3>2, <3>3, RewriteSlot
  <2>2. CASE ~(worker.id \in DOMAIN jobs /\ jobs[worker.id].payload # NoKind)
    BY <1>7, <2>2, QuietSlot DEF WorkerTakePayload
  <2> QED
    BY <2>1, <2>2
<1>8. ASSUME \/ WorkerBegin \/ WorkerFirmwareStarts \/ WorkerJoinSucceeds
      PROVE  SameOutcomes
  <2>1. Working /\ UNCHANGED seq
    BY <1>8 DEF WorkerBegin, WorkerFirmwareStarts, WorkerJoinSucceeds, At, Working
  <2>2. \/ UNCHANGED <<jobs, active>>
        \/ \E st \in {"Joining", "Writing"} : Transition(worker.id, st)
    BY <1>8 DEF WorkerBegin, WorkerFirmwareStarts, WorkerJoinSucceeds
  <2> QED
    BY <1>0, <2>1, <2>2, QuietSlot, RunSlot
<1>9. ASSUME NEW st \in DriverSteps, WorkerDriverStep(st)
      PROVE  SameOutcomes
  <2>1. Working /\ UNCHANGED seq /\ Transition(worker.id, st) /\ st \in JobStates \ Terminal
    BY <1>0, <1>9 DEF WorkerDriverStep, DriverSteps, At, Working
  <2> QED
    BY <1>0, <2>1, RunSlot
<1>10. CASE WorkerAssociating \/ WorkerBeat
  <2>1. Working /\ UNCHANGED seq /\ Transition(worker.id, jobs[worker.id].state)
    BY <1>10 DEF WorkerAssociating, WorkerBeat, At, Working
  <2>2. jobs[worker.id].state \in JobStates \ Terminal
    BY <1>0, <2>1, WorkerJob DEF Job
  <2> QED
    BY <1>0, <2>1, <2>2, RunSlot
<1>11. CASE WorkerSettle
  <2>1. Working /\ UNCHANGED seq /\ Transition(worker.id, worker.verdict)
    BY <1>11 DEF WorkerSettle, At, Working
  <2>2. active # NoJob /\ worker.id = active /\ worker.verdict \in Terminal
    BY <1>0, <2>1, WorkerJob, WorkerType
  <2>3. worker.verdict = "Cancelled" => ShowsCancel(jobs[active])
    BY <1>0, <1>11, <2>2 DEF VerdictPart, WorkerSettle, At
  <2>4. Finishes
    BY <1>0, <2>1, <2>2, <2>3, EndSlot
  <2> QED
    BY <2>4
<1> QED
  BY <1>1, <1>2, <1>3, <1>4, <1>5, <1>6, <1>7, <1>8, <1>9, <1>10, <1>11
  DEF Next, ClientNext, WorkerNext

(* How a job ended, and its stream, never change while the registry knows  *)
(* the job (jobs.rs transition, cancel).                                   *)
THEOREM OutcomesAreFinal == Spec => OutcomeFinal
<1>1. RegistryInv /\ [Next]_vars =>
        \A id \in DOMAIN jobs \cap DOMAIN jobs' :
            jobs[id].state \in Terminal =>
                /\ jobs'[id].state = jobs[id].state
                /\ jobs'[id].frames = jobs[id].frames
  <2> SUFFICES ASSUME RegistryInv, [Next]_vars, NEW id \in DOMAIN jobs \cap DOMAIN jobs',
                      jobs[id].state \in Terminal
               PROVE  jobs'[id].state = jobs[id].state /\ jobs'[id].frames = jobs[id].frames
    OBVIOUS
  <2>1. TypeOK /\ SlotMatchesJobs
    BY DEF RegistryInv
  <2>2. active # NoJob => id # active
    BY <2>1, ActiveIsPending
  <2> QED
    BY <2>2, SlotSteps DEF Accepts, Finishes, SameOutcomes
<1> QED
  BY <1>1, RegistryInvariant, PTL DEF Spec, OutcomeFinal

(* The eviction that ends a job's transition never takes that job          *)
(* (jobs.rs evict_old_jobs).                                               *)
THEOREM EndedJobsAreKept == Spec => EndedJobIsRemembered
<1>1. RegistryInv /\ [Next]_vars => \A id \in Pending : id \in DOMAIN jobs'
  <2> SUFFICES ASSUME RegistryInv, [Next]_vars, NEW id \in Pending
               PROVE  id \in DOMAIN jobs'
    OBVIOUS
  <2>1. id \in DOMAIN jobs /\ active # NoJob /\ id = active
    BY DEF RegistryInv, SlotMatchesJobs, Pending
  <2> QED
    BY <2>1, SlotSteps DEF Accepts, Finishes, SameOutcomes
<1> QED
  BY <1>1, RegistryInvariant, PTL DEF Spec, EndedJobIsRemembered

(* The registry implements ExclusiveSlot: whatever the threads do, a       *)
(* client that looks only at the jobs accepted, pending and ended sees one *)
(* exclusive slot.                                                         *)
THEOREM RegistryImplementsSlot == Spec => ImplementsExclusiveSlot
<1> DEFINE outcome == [id \in DOMAIN jobs \ Pending |-> jobs[id].state]
<1>1. Init => Slot!Init
  <2> SUFFICES ASSUME Init PROVE Slot!Init
    OBVIOUS
  <2>1. DOMAIN jobs = {} /\ seq = 0 /\ Pending = {}
    BY DEF Init, Pending
  <2> QED
    BY <2>1 DEF Slot!Init
<1>2. RegistryInv /\ RegistryInv' /\ [Next]_vars => [Slot!Next]_(Slot!slotVars)
  <2> SUFFICES ASSUME RegistryInv, RegistryInv', [Next]_vars
               PROVE  [Slot!Next]_(Slot!slotVars)
    OBVIOUS
  <2>1. /\ Pending = (IF active = NoJob THEN {} ELSE {active})
        /\ Pending' = (IF active' = NoJob THEN {} ELSE {active'})
        /\ TypeOK /\ SlotMatchesJobs
    BY DEF RegistryInv, SlotMatchesJobs
  <2>2. CASE Accepts
    <3>1. seq \in Nat /\ active' # NoJob
      BY <2>1, <2>2, RegistryAssumption DEF Accepts, TypeOK, NoJob
    <3>2. Pending = {} /\ Pending' = {seq + 1} /\ seq' = seq + 1
      BY <2>1, <2>2, <3>1 DEF Accepts
    <3>3. outcome' = outcome
      BY <2>2, <3>2 DEF Accepts
    <3> QED
      BY <3>2, <3>3 DEF Slot!Next, Slot!Accept
  <2>3. CASE Finishes
    <3>0. PICK id : id = active
      OBVIOUS
    <3>1. Pending = {id} /\ Pending' = {} /\ seq' = seq
      BY <2>1, <2>3, <3>0 DEF Finishes
    <3> DEFINE kept == DOMAIN jobs' \ {id}
               o == jobs'[id].state
    <3>2. kept \in SUBSET DOMAIN outcome /\ o \in Terminal
      BY <2>3, <3>0, <3>1 DEF Finishes
    <3>3. outcome' = [j \in DOMAIN jobs' |-> jobs'[j].state]
      BY <3>1
    <3>4. outcome' = [j \in kept \cup {id} |-> IF j = id THEN o ELSE outcome[j]]
      <4>1. kept \cup {id} = DOMAIN jobs'
        BY <2>3, <3>0 DEF Finishes
      <4>2. \A j \in kept : jobs'[j].state = outcome[j]
        BY <2>3, <3>0, <3>2 DEF Finishes
      <4> QED
        BY <3>3, <4>1, <4>2
    <3>5. id \in Pending
      BY <3>1
    <3>6. Slot!Finish(id)
      BY <3>1, <3>2, <3>4 DEF Slot!Finish
    <3>7. Slot!Next
      BY <3>5, <3>6 DEF Slot!Next
    <3> QED
      BY <3>7
  <2>4. CASE SameOutcomes
    <3>1. Pending' = Pending /\ seq' = seq /\ DOMAIN jobs' = DOMAIN jobs
      BY <2>1, <2>4 DEF SameOutcomes
    <3>2. \A id \in DOMAIN jobs \ Pending : jobs'[id].state = jobs[id].state
      BY <2>4 DEF SameOutcomes, Pending
    <3>3. outcome' = outcome
      BY <3>1, <3>2
    <3> QED
      BY <3>1, <3>3 DEF Slot!slotVars
  <2> QED
    BY <2>2, <2>3, <2>4, SlotSteps
<1> QED
  BY <1>1, <1>2, RegistryInvariant, PTL DEF Spec, ImplementsExclusiveSlot, Slot!Spec

=============================================================================
