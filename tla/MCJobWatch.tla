----------------------------- MODULE MCJobWatch -----------------------------
(***************************************************************************)
(* One watch of one job.  Two running states tell a repeated state from a  *)
(* new one; three frames before the terminal one and room for two messages *)
(* make batches of every size from one to four, a full socket, and a job   *)
(* that ends and is forgotten while a batch is half sent.                  *)
(***************************************************************************)
EXTENDS JobWatch

=============================================================================
