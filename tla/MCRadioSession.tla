---------------------------- MODULE MCRadioSession ----------------------------
(***************************************************************************)
(* RadioSession with two connection threads, for the runs that find a      *)
(* violation; what holds is checked on MCDaemon.  Two threads and the      *)
(* worker are enough for a request to wait behind two others and for a     *)
(* hold to be dropped under another's feet.  Requests come again and       *)
(* again: nothing counts, nothing is bounded.                              *)
(***************************************************************************)
EXTENDS RadioSession, TLC

=============================================================================
