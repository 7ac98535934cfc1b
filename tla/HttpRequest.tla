----------------------------- MODULE HttpRequest -----------------------------
(***************************************************************************)
(* The bounded HTTP client and the way to the device and back              *)
(* (crates/wp-link/src/http.rs).  A request is tried a number of times,    *)
(* each with its own connection.  A connection may be refused, break while *)
(* the request is written, or stay silent; a request the client has given  *)
(* up may still be waiting at the device, which serves whole requests in   *)
(* the order in which they arrived.                                        *)
(*                                                                         *)
(* What a request does to the device is up to the module that extends      *)
(* this one.                                                               *)
(***************************************************************************)
EXTENDS Integers, Sequences

CONSTANTS
    Requests,       \* the requests a driver makes
    ResetOk,        \* those sent with success_on_reset_after_write
    NoRequest,
    Attempts        \* retries + 1

ASSUME RequestAssumption ==
    /\ ResetOk \subseteq Requests
    /\ NoRequest \notin Requests
    /\ Attempts \in Nat \ {0}

VARIABLES
    req,            \* the request in hand
    attempt,        \* and which attempt this is
    phase,          \* where the client is with it
    inbox,          \* whole requests at the device, not served yet
    reply,          \* what has come back on the connection in use
    fit,            \* whether what it shows is what the caller looks for
    stop,           \* the cancel flag given to the client
    up,             \* the device can be reached
    served,         \* history: how often the device acted on the request in hand
    late            \* history: requests completed after the flag was raised

httpVars == <<req, attempt, phase, inbox, reply, fit, stop, up, served, late>>

(* connect; put: connected, and the flag looked at before the last write;  *)
(* await: all is written; then the result.                                 *)
Phases == {"none", "connect", "put", "await", "ok", "failed", "interrupted"}

(* What a response looks like when it stops coming: its status, how its    *)
(* end is marked, how much of it there is - no whole header, part of the   *)
(* body, all of it - and what became of the connection.                    *)
Messages == [status : {"success", "error"}, frame : {"length", "chunked", "unmarked"},
             part : {"none", "some", "all"}, then : {"waits", "closes", "resets", "breaks"}]

(* http_message_complete                                                   *)
Complete(m) == m.frame # "unmarked" /\ m.part = "all"

(* What request_once makes of it as the response to r.  good, cut: a body  *)
(* to return, all of it or not; gone: closed or reset too soon, which is   *)
(* success for some requests; bad: what fails for all; none: it waits.     *)
Answers == {"good", "cut", "gone", "bad", "none"}

Heard(r, m) ==
    CASE Complete(m) -> IF m.status = "success" THEN "good" ELSE "bad"
      [] ~Complete(m) /\ m.then = "waits" -> "none"
      [] ~Complete(m) /\ m.then = "breaks" -> "bad"
      [] ~Complete(m) /\ m.then = "resets" -> "gone"
      [] ~Complete(m) /\ m.then = "closes" ->
            IF r \in ResetOk \/ m.part = "none" \/ (m.frame = "chunked" /\ m.part = "some")
            THEN "gone"
            ELSE IF m.status = "error" THEN "bad"
            ELSE IF m.part = "all" THEN "good" ELSE "cut"

LateCap == 2

HttpTypeOK ==
    /\ req \in Requests \cup {NoRequest}
    /\ attempt \in 1..Attempts
    /\ phase \in Phases
    /\ inbox \in Seq([req : Requests, mine : BOOLEAN])
    /\ reply \in Answers
    /\ fit \in BOOLEAN /\ stop \in BOOLEAN /\ up \in BOOLEAN
    /\ served \in 0..Attempts
    /\ late \in 0..LateCap

HttpInit ==
    /\ req = NoRequest
    /\ attempt = 1
    /\ phase = "none"
    /\ inbox = <<>>
    /\ reply = "none"
    /\ fit = FALSE
    /\ stop = FALSE
    /\ up = TRUE
    /\ served = 0
    /\ late = 0

-----------------------------------------------------------------------------
(* The client.  A definition whose name starts with Bug is the definition  *)
(* after it as a plausible mistake would have it; no action uses one.      *)

Ask(r) ==
    /\ phase \in {"none", "ok"}
    /\ req' = r
    /\ attempt' = 1
    /\ phase' = "connect"
    /\ reply' = "none"
    /\ served' = 0
    /\ UNCHANGED <<inbox, fit, stop, up, late>>

(* request: another attempt, on a connection of its own, or the last error.*)
BugAttemptFails ==                      \* the attempts are not counted
    /\ phase' = "connect"
    /\ reply' = "none"
    /\ inbox' = [i \in DOMAIN inbox |-> [inbox[i] EXCEPT !.mine = FALSE]]
    /\ UNCHANGED <<req, attempt, fit, stop, up, served, late>>

BugOneMore ==                           \* one attempt too many
    /\ \/ attempt <= Attempts /\ attempt' = attempt + 1 /\ phase' = "connect"
       \/ attempt > Attempts /\ UNCHANGED attempt /\ phase' = "failed"
    /\ reply' = "none"
    /\ inbox' = [i \in DOMAIN inbox |-> [inbox[i] EXCEPT !.mine = FALSE]]
    /\ UNCHANGED <<req, fit, stop, up, served, late>>

AttemptFails ==
    /\ \/ attempt < Attempts /\ attempt' = attempt + 1 /\ phase' = "connect"
       \/ attempt = Attempts /\ UNCHANGED attempt /\ phase' = "failed"
    /\ reply' = "none"
    /\ inbox' = [i \in DOMAIN inbox |-> [inbox[i] EXCEPT !.mine = FALSE]]
    /\ UNCHANGED <<req, fit, stop, up, served, late>>

Ends(result) ==
    /\ phase' = result
    /\ inbox' = [i \in DOMAIN inbox |-> [inbox[i] EXCEPT !.mine = FALSE]]
    /\ UNCHANGED <<req, attempt, reply, fit, stop, up, served, late>>

(* cancelled()                                                             *)
BugCancelled == FALSE                   \* the client was given no flag
Cancelled == stop

(* Refused, or the deadline of the connect; no look at the flag.           *)
ConnectFails == phase = "connect" /\ AttemptFails

(* Connected: the flag is looked at before the request is built and before *)
(* each write.                                                             *)
Connects ==
    /\ phase = "connect"
    /\ up
    /\ ~Cancelled
    /\ phase' = "put"
    /\ UNCHANGED <<req, attempt, inbox, reply, fit, stop, up, served, late>>

ConnectedButCancelled == phase = "connect" /\ up /\ Cancelled /\ Ends("interrupted")

(* The last byte is written, though the flag may have been raised since.   *)
Put ==
    /\ phase = "put"
    /\ phase' = "await"
    /\ inbox' = IF up THEN Append(inbox, [req |-> req, mine |-> TRUE]) ELSE inbox
    /\ late' = IF stop /\ late < LateCap THEN late + 1 ELSE late
    /\ UNCHANGED <<req, attempt, reply, fit, stop, up, served>>

(* An error or the deadline while writing is a failure for every request.  *)
PutFails == phase = "put" /\ AttemptFails

(* request_once once all is written.  A close without a complete message   *)
(* is success after a firmware upload to a device that reboots; otherwise  *)
(* the message is taken for what it is, and a cut body accepted.           *)
BugSucceeds == reply \in {"good", "cut", "gone"}     \* for every request
Succeeds == reply \in {"good", "cut"} \/ (req \in ResetOk /\ reply = "gone")

Answered ==
    /\ phase = "await"
    /\ reply # "none"
    /\ IF Succeeds THEN Ends("ok") ELSE AttemptFails

Deadline == phase = "await" /\ AttemptFails

Interrupted == phase = "await" /\ Cancelled /\ Ends("interrupted")

ClientNext ==
    \/ ConnectFails \/ Connects \/ ConnectedButCancelled \/ Put \/ PutFails
    \/ Answered \/ Deadline \/ Interrupted

-----------------------------------------------------------------------------
(* The device                                                              *)

(* What may come back; any of it may get lost.  Without having acted on a  *)
(* request the device reports no success.  One whose reset is taken for    *)
(* success says so in a message that arrives whole and has its end marked, *)
(* or stays silent: otherwise the client would take it for a reboot.       *)
Sends(r, acts) ==
    {m \in Messages :
        acts \/ (m.status = "error" /\ (r \in ResetOk => Complete(m) \/ m.then = "waits"))}

MayAnswer(r, acts) == {Heard(r, m) : m \in Sends(r, acts)}

(* Whether the caller finds what it looks for: never in a message of which *)
(* it has the wrong part.                                                  *)
MaySee(answer, shows) == IF answer = "cut" THEN {shows, FALSE} ELSE {shows}

(* It takes the first request from the inbox; `acts` says whether it acts  *)
(* on it, `shows` whether its answer is what the caller looks for.         *)
Takes(acts, shows) ==
    LET head == Head(inbox) IN
    /\ inbox # <<>>
    /\ inbox' = Tail(inbox)
    /\ IF head.mine
       THEN /\ reply' \in MayAnswer(head.req, acts)
            /\ fit' \in MaySee(reply', shows)
       ELSE UNCHANGED <<reply, fit>>
    /\ served' = IF acts /\ head.req = req THEN served + 1 ELSE served
    /\ UNCHANGED <<req, attempt, phase, stop, up, late>>

(* It leaves the network: what it has not served is gone with it, and the  *)
(* answer may or may not get through.                                      *)
TakesAndLeaves(shows) ==
    LET head == Head(inbox) IN
    /\ inbox # <<>>
    /\ inbox' = <<>>
    /\ up' = FALSE
    /\ IF head.mine
       THEN reply' \in Answers /\ fit' \in MaySee(reply', shows)
       ELSE reply' \in {reply, "gone"} /\ UNCHANGED fit
    /\ served' = IF head.req = req THEN served + 1 ELSE served
    /\ UNCHANGED <<req, attempt, phase, stop, late>>

(* The cancel watch of the job raises the flag.                            *)
Raised ==
    /\ ~stop
    /\ stop' = TRUE
    /\ UNCHANGED <<req, attempt, phase, inbox, reply, fit, up, served, late>>

-----------------------------------------------------------------------------
(* Properties                                                              *)

(* Each request is a Delivery: success is told only of a request the       *)
(* device acted on, nothing of it comes after, and it is acted on at most  *)
(* once per attempt (http.rs request, request_once).                       *)
Sent == INSTANCE Delivery WITH
            Limit <- Attempts,
            call <- IF phase \in {"connect", "put", "await"} THEN "open" ELSE phase,
            times <- served
ImplementsDelivery == Sent!Spec

(* Once the flag is raised one request may still reach the device, the one *)
(* whose last write was under way; the next is stopped (http.rs            *)
(* write_all_interruptible, runtime.rs spawn_cancel_watch).                *)
OneMoreAtMost == late <= 1

=============================================================================
