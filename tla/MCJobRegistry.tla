---------------------------- MODULE MCJobRegistry ----------------------------
(***************************************************************************)
(* JobRegistry on an instance TLC can exhaust.  Two connection threads are *)
(* enough for a submit to meet a busy slot and for one thread to cancel    *)
(* the other's job; three jobs with a history of one make every eviction   *)
(* happen (none, one old job, with another job running); three frames      *)
(* before the terminal one let a step, a heartbeat and a cancel request    *)
(* come in any order.                                                      *)
(***************************************************************************)
EXTENDS JobRegistry, TLC

=============================================================================
