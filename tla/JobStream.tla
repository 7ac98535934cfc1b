----------------------------- MODULE JobStream ------------------------------
(***************************************************************************)
(* One job of the registry as a watcher of it sees it: the state           *)
(* JobRegistry::snapshot reports and the frames JobRegistry::frames_since  *)
(* hands out.  JobRegistry implements this for every job it numbers;       *)
(* JobWatch builds the watcher on it.                                      *)
(***************************************************************************)
EXTENDS Integers, Sequences

CONSTANT Running        \* the states between Queued and an outcome

VARIABLES
    state,              \* JobSnapshot.state; Unborn or Forgotten while not known
    frames              \* JobRecord.frames

streamVars == <<state, frames>>

Terminal == {"Done", "Failed", "Cancelled"}
Live     == {"Queued"} \cup Running
States   == {"Unborn", "Forgotten"} \cup Live \cup Terminal

Frame(st)       == [state |-> st, cancel |-> FALSE]
CancelFrame(st) == [state |-> st, cancel |-> TRUE]
Frames          == [state : Live \cup Terminal, cancel : BOOLEAN]

Known == state \in Live \cup Terminal

Init == state = "Unborn" /\ frames = <<>>

(* submit: a job is known before it has a frame.                           *)
Accept ==
    /\ state = "Unborn"
    /\ state' = "Queued"
    /\ UNCHANGED frames

(* transition: the state and its frame change together.  Nothing leads     *)
(* back to Queued and nothing out of an outcome.                           *)
Report(st) ==
    /\ state \in Live
    /\ state' = st
    /\ frames' = Append(frames, Frame(st))

(* cancel: a frame that repeats the state of a live job.                   *)
AnnounceCancel ==
    /\ state \in Live
    /\ frames' = Append(frames, CancelFrame(state))
    /\ UNCHANGED state

(* evict_old_jobs: only an ended job is forgotten, with all its frames.    *)
Forget ==
    /\ state \in Terminal
    /\ state' = "Forgotten"
    /\ frames' = <<>>

Next ==
    \/ Accept \/ AnnounceCancel \/ Forget
    \/ \E st \in Running \cup Terminal : Report(st)

Spec == Init /\ [][Next]_streamVars

=============================================================================
