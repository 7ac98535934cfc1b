------------------------------- MODULE MCDaemon -------------------------------
(***************************************************************************)
(* Daemon with two connection threads and the worker: enough for a request *)
(* to wait behind two others and for a hold to be dropped under another's  *)
(* feet.  One Soft-AP is enough: which one is joined changes no process's  *)
(* path.  Jobs and requests come again and again: nothing is bounded.      *)
(***************************************************************************)
EXTENDS Daemon, TLC

=============================================================================
