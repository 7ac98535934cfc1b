------------------------------- MODULE Delivery -------------------------------
(***************************************************************************)
(* What a request over the bounded HTTP client promises its caller,        *)
(* without connections, attempts and deadlines: the device acts on it at   *)
(* most Limit times, at least once before the caller is told of success,   *)
(* and never afterwards.  After a failure or a cancel it may still act.    *)
(***************************************************************************)
EXTENDS Integers

CONSTANT Limit          \* how often one request may reach the device

VARIABLES
    call,               \* the caller's view of the request
    times               \* how often the device acted on it

deliveryVars == <<call, times>>

Init == call = "none" /\ times = 0

Ask ==
    /\ call \in {"none", "ok"}
    /\ call' = "open"
    /\ times' = 0

Deliver ==
    /\ call \in {"open", "failed", "interrupted"}
    /\ times < Limit
    /\ times' = times + 1
    /\ UNCHANGED call

Succeed ==
    /\ call = "open"
    /\ times > 0
    /\ call' = "ok"
    /\ UNCHANGED times

GiveUp ==
    /\ call = "open"
    /\ call' \in {"failed", "interrupted"}
    /\ UNCHANGED times

Next == Ask \/ Deliver \/ Succeed \/ GiveUp

Spec == Init /\ [][Next]_deliveryVars

=============================================================================
