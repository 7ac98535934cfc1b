--------------------------- MODULE MCCandidateCache ---------------------------
(***************************************************************************)
(* CandidateCache with two threads and one key of each mode.  Whether a    *)
(* scan finds the key is what matters: a mix of two answers shows on one   *)
(* key.  Two threads are enough for two scans to overtake each other and   *)
(* for a scan to come between a look and what follows it.                  *)
(***************************************************************************)
EXTENDS CandidateCache, TLC

(* The threads run the same code on the same keys.                         *)
Symmetric == Permutations(Threads)

=============================================================================
