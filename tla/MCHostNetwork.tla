---------------------------- MODULE MCHostNetwork ----------------------------
(***************************************************************************)
(* HostNetwork with two sysctls, on a hub that owns the device's address.  *)
(* Sessions come again and again; supplicants that were left behind are    *)
(* counted up to MaxDaemons.                                               *)
(***************************************************************************)
EXTENDS HostNetwork, TLC

(* The commands that add a `lookup local` rule.                            *)
AddsLocal == {"park", "relocal"}

AllButLocal == Commands \ AddsLocal

=============================================================================
