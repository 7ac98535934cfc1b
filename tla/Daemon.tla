-------------------------------- MODULE Daemon --------------------------------
(***************************************************************************)
(* The worker's jobs at the radio: RadioSession, whose worker runs what    *)
(* the registry gives it (JobTurn, which JobRegistry implements).  Each    *)
(* action is a step of one, or a step of both that the code takes at once; *)
(* what is added is their order (runtime.rs run_program_job,               *)
(* run_firmware_job).                                                      *)
(***************************************************************************)
EXTENDS RadioSession, JobTurn

VARIABLE
    firmware    \* whether the job at the radio writes an image

daemonVars == <<vars, turnVars, firmware>>

DaemonInit == Init /\ TurnInit /\ firmware = FALSE

(* submit, in a connection thread.                                         *)
Accepts == Accept /\ UNCHANGED <<vars, firmware>>

(* A job reaches for the radio: it sets the flag, then waits for the mutex.*)
Begins(ap, image) == JobStarts(ap) /\ Enter /\ firmware' = image

(* The job goes on with what the registry does not see.                    *)
GoesOn ==
    /\ \/ Lock(Worker) \/ Join(Worker) \/ PrepareSoftap(Worker)
       \/ SetAddress(Worker) /\ pc'[Worker] = "up"
    /\ UNCHANGED <<turnVars, firmware>>

CannotJoin ==
    /\ \/ JoinFails(Worker) \/ LinkUpFails(Worker)
       \/ SetAddress(Worker) /\ pc'[Worker] = "release"
    /\ JoinFailed
    /\ UNCHANGED firmware

(* A programming job looks at its cancel flag once it has joined, one that *)
(* writes an image does not.                                               *)
StartsTalking ==
    /\ JobReady
    /\ \/ pc'[Worker] = "talk" /\ Talk
       \/ pc'[Worker] = "release" /\ ~firmware /\ Decide
    /\ UNCHANGED firmware

DriverReturns == JobTalks /\ Return /\ UNCHANGED firmware

(* A failed join is reported before the release, everything else after it. *)
Releases == Release(Worker) /\ stage # "failed" /\ UNCHANGED <<turnVars, firmware>>

(* A job cancelled after the join is reported while its guard still lives. *)
Unlocks == Unlock(Worker) /\ stage # "closing" /\ UNCHANGED <<turnVars, firmware>>

(* The verdict: of a job that never came to the radio, or does not use it; *)
(* and after the radio was given back, the busy flag of an image job too.  *)
Decides ==
    /\ \/ stage = "away" /\ At(Worker, "idle")
       \/ stage = "back" /\ At(Worker, IF firmware THEN "idle" ELSE "drop")
    /\ Decide
    /\ UNCHANGED <<vars, firmware>>

BugEndsBeforeRelease ==         \* the outcome is reported, then the radio released
    /\ End
    /\ UNCHANGED <<vars, firmware>>

Ends ==
    /\ End
    /\ stage = "closing" => ~At(Worker, "release")
    /\ UNCHANGED <<vars, firmware>>

(* The end of run_program_job, or of the branch that joined for an image.  *)
Leaves ==
    /\ DropHold(Worker)
    /\ \/ stage = "teardown" /\ TornDown
       \/ stage = "away" /\ UNCHANGED turnVars
       \/ stage = "back" /\ firmware /\ UNCHANGED turnVars
    /\ UNCHANGED firmware

WorkerAtRadio ==
    \/ GoesOn \/ CannotJoin \/ StartsTalking \/ DriverReturns \/ Releases
    \/ Unlocks \/ Decides \/ Ends \/ Leaves

(* Everything the connection threads do at the radio.                      *)
Thread(t) ==
    /\ \/ \E kind \in {"probe", "identify"}, ap \in Aps : ThreadStarts(t, kind, ap)
       \/ ScanStarts(t)
       \/ ThreadNext(t)
    /\ UNCHANGED <<turnVars, firmware>>

DaemonNext ==
    \/ Accepts
    \/ \E ap \in Aps, image \in BOOLEAN : Begins(ap, image)
    \/ WorkerAtRadio
    \/ \E t \in Threads : Thread(t)

(* As in RadioSession.  A job that was accepted need not reach for the     *)
(* radio, but it is decided.                                               *)
DaemonFairness ==
    /\ WF_daemonVars(WorkerAtRadio)
    /\ \A t \in Threads : WF_daemonVars(ThreadNext(t) /\ UNCHANGED <<turnVars, firmware>>)

DaemonSpec == DaemonInit /\ [][DaemonNext]_daemonVars /\ DaemonFairness

-----------------------------------------------------------------------------
(* Properties                                                              *)

DaemonTypeOK == TypeOK /\ TurnTypeOK /\ firmware \in BOOLEAN

(* When a client can see that a job has ended, the job's radio session is  *)
(* over: the radio was released, and if the job was alone the host is as   *)
(* before.  Only a job whose join failed is reported earlier; it has the   *)
(* mutex until it has released the radio, so nobody gets in between.       *)
(* Until then the slot is taken (runtime.rs run_program_job,               *)
(* run_firmware_job; jobs.rs submit).                                      *)
EndedMeansReleased ==
    pc[Worker] # "idle" =>
        \/ slot = "taken" /\ stage \notin {"away", "teardown", "dead"}
        \/ stage = "teardown" /\ pc[Worker] \in {"release", "unlock"} /\ HasLock(Worker)
        \/ stage \in {"away", "teardown"}
           /\ pc[Worker] \in {"unlock", "drop"} /\ (alone => Clean)

=============================================================================
