------------------------------ MODULE DaemonProofs ------------------------------
(***************************************************************************)
(* Proofs about Daemon, for every number of connection threads and every   *)
(* set of Soft-APs: it is RadioSession and JobTurn at once, so what holds  *)
(* of each holds of it; and a job whose end can be seen has left the radio.*)
(***************************************************************************)
EXTENDS Daemon, RadioSessionProofs

-----------------------------------------------------------------------------
(* Its parts                                                               *)

(* What the daemon does at the radio is what RadioSession lets it do.      *)
LEMMA DaemonAtRadio ==
    ASSUME DaemonNext \/ UNCHANGED daemonVars PROVE [Next]_vars
<1>1. CASE Accepts
  BY <1>1 DEF Accepts
<1>2. ASSUME NEW ap \in Aps, NEW image \in BOOLEAN, Begins(ap, image) PROVE Next
  BY <1>2 DEF Begins, Next
<1>3. CASE WorkerAtRadio
  <2>1. CASE Decides \/ Ends
    BY <2>1 DEF Decides, Ends
  <2>2. CASE GoesOn \/ CannotJoin \/ StartsTalking \/ DriverReturns
    BY <2>2 DEF GoesOn, CannotJoin, StartsTalking, DriverReturns, Next, WorkerNext
  <2>3. CASE Releases \/ Unlocks \/ Leaves
    BY <2>3 DEF Releases, Unlocks, Leaves, Next, WorkerNext
  <2> QED
    BY <1>3, <2>1, <2>2, <2>3 DEF WorkerAtRadio
<1>4. ASSUME NEW t \in Threads, Thread(t) PROVE Next
  BY <1>4 DEF Thread, Next
<1>5. CASE UNCHANGED daemonVars
  BY <1>5 DEF daemonVars
<1> QED
  BY <1>1, <1>2, <1>3, <1>4, <1>5 DEF DaemonNext

(* And what it does to the slot and the job, JobTurn.                      *)
LEMMA DaemonTakesTurns ==
    ASSUME DaemonNext \/ UNCHANGED daemonVars PROVE [TurnNext]_turnVars
<1>1. CASE Accepts
  BY <1>1 DEF Accepts, TurnNext
<1>2. ASSUME NEW ap \in Aps, NEW image \in BOOLEAN, Begins(ap, image) PROVE TurnNext
  BY <1>2 DEF Begins, TurnNext
<1>3. CASE WorkerAtRadio
  <2>1. CASE GoesOn \/ Releases \/ Unlocks
    BY <2>1 DEF GoesOn, Releases, Unlocks
  <2>2. CASE CannotJoin \/ StartsTalking \/ DriverReturns \/ Decides \/ Ends \/ Leaves
    BY <2>2 DEF CannotJoin, StartsTalking, DriverReturns, Decides, Ends, Leaves, TurnNext
  <2> QED
    BY <1>3, <2>1, <2>2 DEF WorkerAtRadio
<1>4. ASSUME NEW t \in Threads, Thread(t) PROVE UNCHANGED turnVars
  BY <1>4 DEF Thread
<1>5. CASE UNCHANGED daemonVars
  BY <1>5 DEF daemonVars
<1> QED
  BY <1>1, <1>2, <1>3, <1>4, <1>5 DEF DaemonNext

(* The daemon is RadioSession with a worker that keeps to its turns: what  *)
(* was proved of the radio for jobs that start at any time holds of jobs   *)
(* that the registry hands out (runtime.rs run_program_job,                *)
(* run_firmware_job).                                                      *)
THEOREM DaemonIsRadioSession == DaemonSpec => Init /\ [][Next]_vars
<1>1. DaemonInit => Init
  BY DEF DaemonInit
<1>2. [DaemonNext]_daemonVars => [Next]_vars
  BY DaemonAtRadio
<1> QED
  BY <1>1, <1>2, PTL DEF DaemonSpec

(* Nothing at the radio takes the worker out of its turn, and the turn is  *)
(* all the daemon needs of the registry (jobs.rs submit, transition).      *)
THEOREM DaemonKeepsTurns == DaemonSpec => TurnSpec
<1>1. DaemonInit => TurnInit
  BY DEF DaemonInit
<1>2. [DaemonNext]_daemonVars => [TurnNext]_turnVars
  BY DaemonTakesTurns
<1> QED
  BY <1>1, <1>2, PTL DEF DaemonSpec, TurnSpec

-----------------------------------------------------------------------------
(* The inductive invariant                                                 *)

(* How far the job is with its turn says where the worker can be.          *)
InStep ==
    /\ At(Worker, "idle") => stage \in {"away", "closing", "back"}
    /\ pc[Worker] \in {"lock", "join", "address", "up", "ready"} => stage = "inside"
    /\ At(Worker, "talk") => stage = "talking"
    /\ At(Worker, "relock") => stage = "back"
    /\ At(Worker, "release") => stage \in {"failed", "closing", "back", "teardown"}
    /\ pc[Worker] \in {"unlock", "drop"} => stage \in {"closing", "back", "away", "teardown"}

(* A job that cannot join keeps the mutex until it has released the radio. *)
StillInside ==
    stage \in {"failed", "teardown"} /\ pc[Worker] \in {"release", "unlock"} => HasLock(Worker)

TurnInv == TurnTypeOK /\ TurnHoldsSlot

DaemonInv == RadioInv /\ TurnInv /\ firmware \in BOOLEAN /\ InStep /\ StillInside

LEMMA TurnKept ==
    ASSUME TurnInv, [TurnNext]_turnVars PROVE TurnInv'
BY DEF TurnInv, TurnTypeOK, TurnHoldsSlot, Stages, TurnNext, turnVars, Accept, Enter, Decide,
       JoinFailed, Talk, Return, End, TornDown, Die, Fail, Moves

(* The others leave the worker where it is, and the head of the line to    *)
(* whoever has it.                                                         *)
LEMMA ThreadsLeaveWorker ==
    ASSUME RadioInv, NEW t \in Threads, Thread(t)
    PROVE  /\ pc'[Worker] = pc[Worker]
           /\ HasLock(Worker) => HasLock(Worker)'
<1> USE RadioAssumption DEF Procs, GoTo, At
<1>0. pc \in [Procs -> Points] /\ line \in Seq(Procs) /\ t # Worker
  BY DEF RadioInv, Types
<1>1. /\ pc'[Worker] = pc[Worker]
      /\ line' = line \/ line' = Append(line, t) \/ (At(t, "unlock") /\ line' = Tail(line))
  <2>1. CASE \E kind \in {"probe", "identify"}, ap \in Aps : ThreadStarts(t, kind, ap)
    BY <1>0, <2>1 DEF ThreadStarts
  <2>2. CASE ScanStarts(t) \/ ThreadHold(t) \/ ThreadTalks(t) \/ Lock(t)
    BY <1>0, <2>2 DEF ScanStarts, ThreadHold, ThreadTalks, Lock
  <2>3. CASE Join(t) \/ JoinFails(t) \/ SetAddress(t) \/ LinkUpFails(t)
    BY <1>0, <2>3 DEF Join, JoinFails, SetAddress, LinkUpFails, GivesUp
  <2>4. CASE PrepareSoftap(t) \/ Release(t) \/ Unlock(t) \/ DropHold(t)
    BY <1>0, <2>4 DEF PrepareSoftap, Release, Unlock, DropHold
  <2> QED
    BY <2>1, <2>2, <2>3, <2>4 DEF Thread, ThreadNext
<1>2. ASSUME HasLock(Worker) PROVE HasLock(Worker)'
  <2>1. line # <<>> /\ line[1] = Worker /\ Len(line) \in Nat \ {0}
    BY <1>0, <1>2 DEF HasLock
  <2>2. ~At(t, "unlock")
    BY <1>0, <2>1 DEF RadioInv, LineInv, Holding, HasLock
  <2>3. CASE line' = line
    BY <1>2, <2>3 DEF HasLock
  <2>4. CASE line' = Append(line, t)
    <3>1. line' \in Seq(Procs) /\ line'[1] = Worker /\ Len(line') = Len(line) + 1
      BY <1>0, <2>1, <2>4
    <3>2. line' # <<>>
      BY <2>1, <3>1
    <3> QED
      BY <3>1, <3>2 DEF HasLock
  <2> QED
    BY <1>1, <2>2, <2>3, <2>4
<1> QED
  BY <1>1, <1>2

(* The worker's own steps.                                                 *)
LEMMA WorkerKeeps ==
    ASSUME DaemonInv, WorkerAtRadio
    PROVE  InStep' /\ StillInside'
<1> USE DEF At
<1>0. /\ pc \in [Procs -> Points] /\ Worker \in Procs /\ InStep /\ StillInside
      /\ pc[Worker] # "idle" => want[Worker].kind = "job"
      /\ pc[Worker] \in Holding => HasLock(Worker)
  BY DEF DaemonInv, RadioInv, Types, KindInv, LineInv, Procs
<1>1. ASSUME GivesUp(Worker), pc[Worker] \in {"join", "address", "up"}
      PROVE  pc'[Worker] = "release"
  BY <1>0, <1>1 DEF GivesUp, GoTo
<1>2. CASE GoesOn
  <2>1. /\ stage' = stage
        /\ \/ pc[Worker] = "lock" /\ pc'[Worker] = "join"
           \/ pc[Worker] = "relock" /\ pc'[Worker] = "release"
           \/ pc[Worker] = "join" /\ pc'[Worker] = "address"
           \/ pc[Worker] = "up" /\ pc'[Worker] = "ready"
           \/ pc[Worker] = "address" /\ pc'[Worker] = "up"
    <3>1. CASE Lock(Worker)
      BY <1>0, <1>2, <3>1 DEF GoesOn, turnVars, Lock, GoTo
    <3>2. CASE Join(Worker)
      BY <1>0, <1>2, <3>2 DEF GoesOn, turnVars, Join, GoTo
    <3>3. CASE PrepareSoftap(Worker)
      BY <1>0, <1>2, <3>3 DEF GoesOn, turnVars, PrepareSoftap, GoTo
    <3>4. CASE SetAddress(Worker) /\ pc'[Worker] = "up"
      BY <1>0, <1>2, <3>4 DEF GoesOn, turnVars, SetAddress
    <3> QED
      BY <1>2, <3>1, <3>2, <3>3, <3>4 DEF GoesOn
  <2> QED
    BY <1>0, <2>1 DEF InStep, StillInside
<1>3. CASE CannotJoin
  <2>1. /\ stage' = "failed" /\ pc[Worker] \in {"join", "address", "up"}
        /\ pc'[Worker] = "release" /\ line' = line /\ HasLock(Worker)
    <3>1. stage' = "failed"
      BY <1>3 DEF CannotJoin, JoinFailed, Moves
    <3>2. CASE JoinFails(Worker)
      BY <1>1, <3>1, <3>2 DEF JoinFails
    <3>3. CASE LinkUpFails(Worker)
      BY <1>1, <3>1, <3>3 DEF LinkUpFails
    <3>4. CASE SetAddress(Worker) /\ pc'[Worker] = "release"
      BY <3>1, <3>4 DEF SetAddress
    <3> QED
      BY <1>3, <3>2, <3>3, <3>4 DEF CannotJoin
  <2> QED
    BY <2>1 DEF InStep, StillInside, HasLock
<1>4. CASE StartsTalking
  <2>1. \/ pc'[Worker] = "talk" /\ stage' = "talking"
        \/ pc'[Worker] = "release" /\ stage' = "closing"
    BY <1>4 DEF StartsTalking, Talk, Decide, Moves
  <2> QED
    BY <2>1 DEF InStep, StillInside
<1>5. CASE DriverReturns
  <2>1. pc'[Worker] = "relock" /\ stage' = "back"
    BY <1>0, <1>5 DEF DriverReturns, JobTalks, GoTo, Return, Moves
  <2> QED
    BY <2>1 DEF InStep, StillInside
<1>6. CASE Releases
  <2>1. /\ pc[Worker] = "release" /\ pc'[Worker] = "unlock" /\ stage' = stage
        /\ stage # "failed" /\ line' = line /\ HasLock(Worker)
    BY <1>0, <1>6 DEF Releases, Release, GoTo, turnVars
  <2> QED
    BY <1>0, <2>1 DEF InStep, StillInside, HasLock
<1>7. CASE Unlocks
  <2>1. pc[Worker] = "unlock" /\ pc'[Worker] = "drop" /\ stage' = stage
    BY <1>0, <1>7 DEF Unlocks, Unlock, GoTo, turnVars
  <2> QED
    BY <1>0, <2>1 DEF InStep, StillInside
<1>8. CASE Decides
  <2>1. /\ pc' = pc /\ line' = line /\ stage' = "closing"
        /\ pc[Worker] \in {"idle", "drop"}
    BY <1>8 DEF Decides, Decide, Moves, vars
  <2> QED
    BY <2>1 DEF InStep, StillInside
<1>9. CASE Ends
  <2>1. /\ pc' = pc /\ line' = line
        /\ \/ stage = "failed" /\ stage' = "teardown"
           \/ stage = "closing" /\ stage' = "away" /\ pc[Worker] # "release"
    BY <1>9 DEF Ends, End, vars
  <2> QED
    BY <1>0, <2>1 DEF InStep, StillInside, HasLock
<1>10. CASE Leaves
  <2>1. pc[Worker] = "drop" /\ pc'[Worker] = "idle" /\ stage' \in {"away", "back"}
    BY <1>0, <1>10 DEF Leaves, DropHold, GoTo, TornDown, Moves, turnVars
  <2> QED
    BY <2>1 DEF InStep, StillInside
<1> QED
  BY <1>2, <1>3, <1>4, <1>5, <1>6, <1>7, <1>8, <1>9, <1>10 DEF WorkerAtRadio

LEMMA DaemonStep ==
    ASSUME DaemonInv, [DaemonNext]_daemonVars PROVE DaemonInv'
<1>1. RadioInv'
  BY DaemonAtRadio, RadioStep DEF DaemonInv
<1>2. TurnInv'
  BY DaemonTakesTurns, TurnKept DEF DaemonInv
<1>3. CASE Accepts
  BY <1>1, <1>2, <1>3 DEF Accepts, Accept, DaemonInv, InStep, StillInside, At, HasLock, vars
<1>4. ASSUME NEW ap \in Aps, NEW image \in BOOLEAN, Begins(ap, image) PROVE DaemonInv'
  <2>1. pc'[Worker] = "lock" /\ stage' = "inside"
    BY <1>4 DEF DaemonInv, RadioInv, Types, Procs, Begins, JobStarts, GoTo, Enter, Moves
  <2> QED
    BY <1>1, <1>2, <1>4, <2>1 DEF DaemonInv, InStep, StillInside, At, Begins
<1>5. CASE WorkerAtRadio
  <2>1. firmware' = firmware
    BY <1>5 DEF WorkerAtRadio, GoesOn, CannotJoin, StartsTalking, DriverReturns, Releases,
                Unlocks, Decides, Ends, Leaves
  <2> QED
    BY <1>1, <1>2, <1>5, <2>1, WorkerKeeps DEF DaemonInv
<1>6. ASSUME NEW t \in Threads, Thread(t) PROVE DaemonInv'
  <2>1. UNCHANGED <<stage, firmware>>
    BY <1>6 DEF Thread, turnVars
  <2>2. pc'[Worker] = pc[Worker] /\ (HasLock(Worker) => HasLock(Worker)')
    BY <1>6, ThreadsLeaveWorker DEF DaemonInv
  <2> QED
    BY <1>1, <1>2, <2>1, <2>2 DEF DaemonInv, InStep, StillInside, At
<1>7. CASE UNCHANGED daemonVars
  BY <1>1, <1>2, <1>7 DEF daemonVars, vars, turnVars, DaemonInv, InStep, StillInside, At, HasLock
<1> QED
  BY <1>3, <1>4, <1>5, <1>6, <1>7 DEF DaemonNext

(* The inductive invariant: that of the radio, that of the turn, and how   *)
(* the two stand to each other.                                            *)
THEOREM DaemonInvariant == DaemonSpec => []DaemonInv
<1>1. DaemonInit => DaemonInv
  <2> SUFFICES ASSUME DaemonInit PROVE DaemonInv
    OBVIOUS
  <2>1. RadioInv
    BY RadioInit DEF DaemonInit
  <2>2. pc[Worker] = "idle" /\ stage = "away" /\ slot = "free" /\ firmware = FALSE
    BY DEF DaemonInit, Init, TurnInit, Procs
  <2> QED
    BY <2>1, <2>2
    DEF DaemonInv, TurnInv, TurnTypeOK, TurnHoldsSlot, Stages, InStep, StillInside, At
<1>2. DaemonInv /\ [DaemonNext]_daemonVars => DaemonInv'
  BY DaemonStep
<1> QED
  BY <1>1, <1>2, PTL DEF DaemonSpec

-----------------------------------------------------------------------------
(* What it shows                                                           *)

(* Types hold always in the daemon (runtime.rs, jobs.rs).                  *)
THEOREM DaemonTypeCorrect == DaemonSpec => []DaemonTypeOK
<1>1. DaemonInv => DaemonTypeOK
  BY RadioTypes DEF DaemonInv, TurnInv, DaemonTypeOK
<1> QED
  BY <1>1, DaemonInvariant, PTL

(* A client that sees a job's end finds its radio session over, or one     *)
(* that has the mutex until the radio is released: whoever it asks next    *)
(* gets the radio after it (runtime.rs run_program_job, run_firmware_job;  *)
(* jobs.rs transition).                                                    *)
THEOREM EndComesAfterRelease == DaemonSpec => []EndedMeansReleased
<1>1. DaemonInv => EndedMeansReleased
  <2> SUFFICES ASSUME DaemonInv, pc[Worker] # "idle" PROVE EndedMeansReleased
    BY DEF EndedMeansReleased
  <2>1. /\ pc \in [Procs -> Points] /\ Worker \in Procs
        /\ TurnHoldsSlot /\ InStep /\ StillInside /\ AloneInv /\ stage \in Stages
        /\ pc[Worker] \in Points \ {"idle", "hold"}
    BY DEF DaemonInv, RadioInv, Types, KindInv, TurnInv, TurnTypeOK, Procs
  <2>2. pc[Worker] \in {"unlock", "drop"} => (alone => Clean)
    BY <2>1 DEF AloneInv
  <2>3. CASE stage \in {"inside", "talking", "back", "closing", "failed"}
    BY <2>1, <2>3 DEF TurnHoldsSlot, EndedMeansReleased
  <2>4. CASE stage = "away"
    <3>1. pc[Worker] \in {"unlock", "drop"}
      BY <2>1, <2>4 DEF InStep, At, Points
    <3> QED
      BY <2>2, <2>4, <3>1 DEF EndedMeansReleased
  <2>5. CASE stage = "teardown"
    <3>1. pc[Worker] \in {"release", "unlock", "drop"}
      BY <2>1, <2>5 DEF InStep, At, Points
    <3>2. pc[Worker] \in {"release", "unlock"} => HasLock(Worker)
      BY <2>1, <2>5 DEF StillInside
    <3> QED
      BY <2>2, <2>5, <3>1, <3>2 DEF EndedMeansReleased
  <2>6. stage # "dead"
    BY <2>1 DEF InStep, At, Points
  <2> QED
    BY <2>1, <2>3, <2>4, <2>5, <2>6 DEF Stages
<1> QED
  BY <1>1, DaemonInvariant, PTL

(* While a job of the daemon has the mutex, nobody else is at the radio    *)
(* (runtime.rs probe, identify, scan, run_program_job).                    *)
THEOREM DaemonRadioIsExclusive == DaemonSpec => []OneInTheRadio
<1>1. DaemonInv => OneInTheRadio
  BY RadioExclusive DEF DaemonInv
<1> QED
  BY <1>1, DaemonInvariant, PTL

(* A job that began alone keeps its Soft-AP while it talks to its device   *)
(* (runtime.rs RadioHold).                                                 *)
THEOREM DaemonJobKeepsItsRadio == DaemonSpec => []JobAloneIsUndisturbed
<1>1. DaemonInv => JobAloneIsUndisturbed
  BY RadioUndisturbed DEF DaemonInv
<1> QED
  BY <1>1, DaemonInvariant, PTL

(* And it leaves the host as it found it (radio.rs release).               *)
THEOREM DaemonJobCleansUp == DaemonSpec => []JobAloneLeavesClean
<1>1. DaemonInv => JobAloneLeavesClean
  BY RadioLeftClean DEF DaemonInv
<1> QED
  BY <1>1, DaemonInvariant, PTL

(* With no request under way the flag is clear (runtime.rs                 *)
(* RadioHold::drop).                                                       *)
THEOREM DaemonIsNotLeftBusy == DaemonSpec => []QuietMeansFree
<1>1. DaemonInv => QuietMeansFree
  BY RadioFree DEF DaemonInv
<1> QED
  BY <1>1, DaemonInvariant, PTL

=============================================================================
