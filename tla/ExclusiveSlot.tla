---------------------------- MODULE ExclusiveSlot ----------------------------
(***************************************************************************)
(* What the job registry of the daemon promises its clients, without any   *)
(* of its machinery: jobs are numbered in the order they are accepted, one *)
(* job is pending at a time, a pending job ends with one outcome, and an   *)
(* outcome stays what it was until the registry forgets the job.           *)
(***************************************************************************)
EXTENDS Integers

CONSTANT Outcomes        \* the ways a job can end

VARIABLES
    accepted,            \* how many jobs were accepted so far
    pending,             \* the jobs accepted and not ended
    outcome              \* the outcomes still remembered, by job number

slotVars == <<accepted, pending, outcome>>

Init ==
    /\ accepted = 0
    /\ pending = {}
    /\ outcome = [id \in {} |-> CHOOSE o \in Outcomes : TRUE]

(* A job is accepted only when no other job is pending.                    *)
Accept ==
    /\ pending = {}
    /\ accepted' = accepted + 1
    /\ pending' = {accepted + 1}
    /\ UNCHANGED outcome

(* The pending job ends; the registry may forget jobs that ended earlier,  *)
(* but never the one that has just ended.                                  *)
Finish(id) ==
    /\ id \in pending
    /\ pending' = pending \ {id}
    /\ \E kept \in SUBSET DOMAIN outcome, o \in Outcomes :
           outcome' = [j \in kept \cup {id} |-> IF j = id THEN o ELSE outcome[j]]
    /\ UNCHANGED accepted

Next == Accept \/ \E id \in pending : Finish(id)

Spec == Init /\ [][Next]_slotVars

=============================================================================
