------------------------------- MODULE JobTurn -------------------------------
(***************************************************************************)
(* A job's turn at the radio, as far as the registry and the worker decide *)
(* it: the slot of the registry, and how far the worker is with the job it *)
(* runs.  JobRegistry implements this; Daemon builds the radio on it.      *)
(*                                                                         *)
(* Only a job that goes through a Soft-AP has a turn.  The worker may run  *)
(* another one, which is "away" from its start to its verdict.             *)
(***************************************************************************)

VARIABLES
    slot,       \* JobRegistryInner.active: free or taken
    stage       \* the worker's job: see Stages

turnVars == <<slot, stage>>

(* away: no job, or one that has not reached for the radio; inside: from   *)
(* there to the Soft-AP being ready; talking; back: the driver returned;   *)
(* closing: the verdict is known; failed: the join failed; teardown: the   *)
(* release after that; dead: the worker is gone.                           *)
Stages == {"away", "inside", "talking", "back", "closing", "failed", "teardown", "dead"}

TurnTypeOK == slot \in {"free", "taken"} /\ stage \in Stages

TurnInit == slot = "free" /\ stage = "away"

(* submit, whatever the worker is still busy with.                         *)
Accept ==
    /\ slot = "free"
    /\ slot' = "taken"
    /\ UNCHANGED stage

Moves(from, to) ==
    /\ stage = from
    /\ stage' = to
    /\ UNCHANGED slot

(* Only a job in the slot gets as far as the radio, and it gets there once.*)
Enter ==
    /\ slot = "taken"
    /\ Moves("away", "inside")

(* Decided before the radio was touched, after it was joined, or after the *)
(* driver returned.                                                        *)
Decide == \E from \in {"away", "inside", "back"} : slot = "taken" /\ Moves(from, "closing")

JoinFailed == Moves("inside", "failed")
Talk       == Moves("inside", "talking")
Return     == Moves("talking", "back")

(* The terminal transition frees the slot; after a failed join the radio   *)
(* is released behind it.                                                  *)
End ==
    /\ slot = "taken"
    /\ stage \in {"closing", "failed"}
    /\ slot' = "free"
    /\ stage' = IF stage = "failed" THEN "teardown" ELSE "away"

TornDown == Moves("teardown", "away")

(* The worker task is gone: jobs are accepted and fail on being enqueued.  *)
Die  == stage # "dead" /\ stage' = "dead" /\ UNCHANGED slot
Fail == stage = "dead" /\ slot = "taken" /\ slot' = "free" /\ UNCHANGED stage

TurnNext ==
    \/ Accept \/ Enter \/ Decide \/ JoinFailed \/ Talk \/ Return
    \/ End \/ TornDown \/ Die \/ Fail

TurnSpec == TurnInit /\ [][TurnNext]_turnVars

(* Every stage between entering and the verdict keeps the slot taken: no   *)
(* second job is accepted.                                                 *)
TurnHoldsSlot ==
    stage \in {"inside", "talking", "back", "closing", "failed"} => slot = "taken"

=============================================================================
