---------------------------- MODULE DeviceJobProofs ----------------------------
(***************************************************************************)
(* Proofs about DeviceJob, for every set of calls, requests and stations   *)
(* and every number of attempts: a request over the HTTP client is a       *)
(* Delivery, at most one more leaves after a cancel, no espflash is left   *)
(* running, and what is reported of a dispatch is true; and what the       *)
(* drivers leave behind: a device leaves programming mode, and its job is  *)
(* Done, only when each setting it is told has been taken, and those the   *)
(* driver compares are as asked.                                           *)
(***************************************************************************)
EXTENDS DeviceJob, TLAPS

-----------------------------------------------------------------------------
(* The inductive invariants                                                *)

(* The device serves whole requests in order, and the client asks for the  *)
(* next one only when it has the answer to the last: so all that waits at  *)
(* the device is the request in hand, once per attempt at most, with the   *)
(* attempt under way behind the others.                                    *)
InboxInv ==
    /\ \A i \in 1..Len(inbox) : inbox[i].req = req
    /\ \A i \in 1..Len(inbox) : inbox[i].mine => i = Len(inbox) /\ phase = "await"
    /\ phase # "none" => req \in Requests
    /\ phase \in {"none", "ok"} => inbox = <<>>
    /\ reply # "none" => inbox = <<>>

(* Each time the device acts uses up an attempt.                           *)
Begun == IF phase \in {"connect", "put"} THEN attempt - 1 ELSE attempt
ServedInv ==
    /\ served + Len(inbox) <= Begun
    /\ phase = "none" => attempt = 1 /\ served = 0

(* A reply is there only when all is written, or the device has left; and  *)
(* one that is taken for success is the answer to a request acted on.      *)
ReplyInv ==
    /\ reply # "none" /\ phase \in {"connect", "put"} => ~up
    /\ Succeeds => served > 0
    /\ phase = "ok" => served > 0
    /\ phase = "none" => reply = "none"

LateInv ==
    /\ late <= 1
    /\ late > 0 => stop /\ phase # "put"

HttpInv == HttpTypeOK /\ InboxInv /\ ServedInv /\ ReplyInv /\ LateInv

(* espflash runs only while it is being waited for.                        *)
FlashInv ==
    /\ Usb!UsbTypeOK
    /\ usb = "idle" => child = "none"
    /\ child = "running" => usb \in {"polling", "killing"}

(* What is on its way from the station was true when it was sent.          *)
StationInv ==
    /\ Z21!Z21TypeOK
    /\ "slot" \in toClient => dispatched
    /\ "serial" \in toClient => answered
    /\ "zero" \in toClient => station \in {"new", "slave"}
    /\ "unknown" \in toClient => station = "plain"
    /\ alive => answered
    /\ DispatchIsTrue

JobInv ==
    /\ job \in {"ready", "http", "usb", "z21"} \cup Terminal
    /\ asked \in BOOLEAN

DeviceInv == HttpInv /\ DriverTypeOK /\ FlashInv /\ StationInv /\ JobInv

(* The steps of the HTTP client and of what is at the other end.           *)
HttpStep ==
    \/ \E r \in Requests : Ask(r)
    \/ ClientNext
    \/ \E acts, shows \in BOOLEAN : Takes(acts, shows)
    \/ TakesAndLeaves(FALSE)
    \/ Raised
    \/ UNCHANGED httpVars

-----------------------------------------------------------------------------
(* The client                                                              *)

(* What the client gives up is no longer its own.                          *)
LEMMA GivenUp ==
    ASSUME HttpInv,
           inbox' = [i \in DOMAIN inbox |-> [inbox[i] EXCEPT !.mine = FALSE]]
    PROVE  /\ inbox' \in Seq([req : Requests, mine : BOOLEAN])
           /\ Len(inbox') = Len(inbox)
           /\ \A i \in 1..Len(inbox') : inbox'[i].req = req /\ inbox'[i].mine = FALSE
           /\ inbox = <<>> => inbox' = <<>>
<1>1. inbox \in Seq([req : Requests, mine : BOOLEAN])
  BY DEF HttpInv, HttpTypeOK
<1>2. DOMAIN inbox = 1..Len(inbox) /\ Len(inbox) \in Nat
  BY <1>1
<1>3. \A i \in 1..Len(inbox) : inbox[i] \in [req : Requests, mine : BOOLEAN]
  <2> DEFINE R == [req : Requests, mine : BOOLEAN]
  <2>1. inbox \in Seq(R)
    BY <1>1
  <2> HIDE DEF R
  <2>2. \A i \in 1..Len(inbox) : inbox[i] \in R
    BY <2>1
  <2> QED
    BY <2>2 DEF R
<1>4. \A i \in 1..Len(inbox) : [inbox[i] EXCEPT !.mine = FALSE] \in [req : Requests, mine : BOOLEAN]
  BY <1>3
<1>5. inbox' = [i \in 1..Len(inbox) |-> [inbox[i] EXCEPT !.mine = FALSE]]
  BY <1>2
<1>6. inbox' \in Seq([req : Requests, mine : BOOLEAN]) /\ Len(inbox') = Len(inbox)
  BY <1>2, <1>4, <1>5
<1>7. \A i \in 1..Len(inbox) : inbox'[i].req = inbox[i].req /\ inbox'[i].mine = FALSE
  BY <1>3, <1>5
<1>8. \A i \in 1..Len(inbox') : inbox'[i].req = req /\ inbox'[i].mine = FALSE
  BY <1>6, <1>7 DEF HttpInv, InboxInv
<1> QED
  BY <1>6, <1>8

LEMMA AskKeeps ==
    ASSUME HttpInv, NEW r \in Requests, Ask(r)
    PROVE  HttpInv'
<1>1. inbox = <<>> /\ inbox' = <<>> /\ Len(inbox') = 0
  BY DEF Ask, HttpInv, InboxInv
<1>2. HttpTypeOK'
  BY RequestAssumption DEF Ask, HttpInv, HttpTypeOK, Phases, Answers
<1>3. InboxInv'
  BY <1>1 DEF Ask, InboxInv
<1>4. ServedInv'
  BY <1>1 DEF Ask, ServedInv, Begun
<1>5. ReplyInv'
  BY DEF Ask, ReplyInv, Succeeds
<1>6. LateInv'
  BY DEF Ask, HttpInv, LateInv
<1> QED
  BY <1>2, <1>3, <1>4, <1>5, <1>6 DEF HttpInv

LEMMA AttemptFailsKeeps ==
    ASSUME HttpInv, AttemptFails, phase \in {"connect", "put", "await"}
    PROVE  HttpInv'
<1>1. /\ inbox' \in Seq([req : Requests, mine : BOOLEAN])
      /\ Len(inbox') = Len(inbox)
      /\ \A i \in 1..Len(inbox') : inbox'[i].req = req /\ inbox'[i].mine = FALSE
  BY GivenUp DEF AttemptFails
<1>2. /\ attempt \in 1..Attempts /\ Attempts \in Nat /\ served \in Nat /\ Len(inbox) \in Nat
      /\ reply' = "none" /\ phase' \in {"connect", "failed"}
      /\ phase' = "connect" => attempt' = attempt + 1 /\ attempt' \in 1..Attempts
      /\ phase' = "failed" => attempt' = attempt
      /\ UNCHANGED <<req, fit, stop, up, served, late>>
  BY RequestAssumption DEF AttemptFails, HttpInv, HttpTypeOK
<1>3. HttpTypeOK'
  BY <1>1, <1>2 DEF HttpInv, HttpTypeOK, Phases, Answers
<1>4. InboxInv'
  BY <1>1, <1>2 DEF HttpInv, InboxInv
<1>5. ServedInv'
  BY <1>1, <1>2 DEF HttpInv, ServedInv, Begun
<1>6. ReplyInv'
  BY <1>2 DEF ReplyInv, Succeeds
<1>7. LateInv'
  BY <1>2 DEF HttpInv, LateInv
<1> QED
  BY <1>3, <1>4, <1>5, <1>6, <1>7 DEF HttpInv

LEMMA EndsKeeps ==
    ASSUME HttpInv, NEW result0 \in {"ok", "interrupted"}, Ends(result0),
           phase \in {"connect", "await"},
           result0 = "ok" => Succeeds /\ reply # "none" /\ phase = "await"
    PROVE  HttpInv'
<1>1. /\ inbox' \in Seq([req : Requests, mine : BOOLEAN])
      /\ Len(inbox') = Len(inbox)
      /\ \A i \in 1..Len(inbox') : inbox'[i].req = req /\ inbox'[i].mine = FALSE
      /\ inbox = <<>> => inbox' = <<>>
  BY GivenUp DEF Ends
<1>2. /\ phase' = result0 /\ attempt \in 1..Attempts /\ served \in Nat /\ Len(inbox) \in Nat
      /\ UNCHANGED <<req, attempt, reply, fit, stop, up, served, late>>
  BY DEF Ends, HttpInv, HttpTypeOK
<1>3. HttpTypeOK'
  BY <1>1, <1>2 DEF HttpInv, HttpTypeOK, Phases
<1>4. InboxInv'
  BY <1>1, <1>2 DEF HttpInv, InboxInv
<1>5. ServedInv'
  BY <1>1, <1>2 DEF HttpInv, ServedInv, Begun
<1>6. ReplyInv'
  BY <1>2 DEF HttpInv, ReplyInv, Succeeds
<1>7. LateInv'
  BY <1>2 DEF HttpInv, LateInv
<1> QED
  BY <1>3, <1>4, <1>5, <1>6, <1>7 DEF HttpInv

LEMMA PutKeeps ==
    ASSUME HttpInv, Put
    PROVE  HttpInv'
<1> DEFINE R == [req : Requests, mine : BOOLEAN]
           e == [req |-> req, mine |-> TRUE]
<1>1. /\ inbox \in Seq(R) /\ Len(inbox) \in Nat /\ attempt \in 1..Attempts /\ served \in Nat
      /\ late \in 0..LateCap /\ stop \in BOOLEAN /\ up \in BOOLEAN /\ req \in Requests
  BY DEF HttpInv, HttpTypeOK, InboxInv, Put
<1>2. e \in R /\ e.req = req
  BY <1>1
<1>3. /\ phase = "put" /\ phase' = "await" /\ inbox' = (IF up THEN Append(inbox, e) ELSE inbox)
      /\ UNCHANGED <<req, attempt, reply, fit, stop, up, served>>
  BY DEF Put
<1>4. late = 0 /\ late' \in {0, 1} /\ (late' = 1 => stop)
  BY <1>1, <1>3 DEF HttpInv, LateInv, Put
<1> HIDE DEF R, e
<1>5. /\ inbox' \in Seq(R) /\ Len(inbox') <= Len(inbox) + 1 /\ Len(inbox') \in Nat
      /\ ~up => inbox' = inbox
      /\ up => /\ Len(inbox') = Len(inbox) + 1
               /\ inbox'[Len(inbox) + 1] = e
               /\ \A i \in 1..Len(inbox) : inbox'[i] = inbox[i]
  BY <1>1, <1>2, <1>3
<1>6. HttpTypeOK'
  <2>1. inbox' \in Seq([req : Requests, mine : BOOLEAN])
    BY <1>5 DEF R
  <2> QED
    BY <1>3, <1>4, <2>1 DEF HttpInv, HttpTypeOK, Phases, LateCap
<1>7. InboxInv'
  <2>1. \A i \in 1..Len(inbox') : inbox'[i].req = req
    BY <1>1, <1>2, <1>5 DEF HttpInv, InboxInv
  <2>2. \A i \in 1..Len(inbox) : ~inbox[i].mine
    BY <1>3 DEF HttpInv, InboxInv
  <2>3. \A i \in 1..Len(inbox') : inbox'[i].mine => i = Len(inbox')
    BY <1>1, <1>5, <2>2 DEF HttpInv, InboxInv
  <2>4. reply # "none" => ~up
    BY <1>3 DEF HttpInv, ReplyInv
  <2> QED
    BY <1>1, <1>3, <1>5, <2>1, <2>3, <2>4 DEF HttpInv, InboxInv
<1>8. ServedInv'
  BY <1>1, <1>3, <1>5 DEF HttpInv, ServedInv, Begun
<1>9. ReplyInv'
  BY <1>3 DEF HttpInv, ReplyInv, Succeeds
<1>10. LateInv'
  BY <1>3, <1>4 DEF LateInv
<1> QED
  BY <1>6, <1>7, <1>8, <1>9, <1>10 DEF HttpInv

(* A step of the client.                                                   *)
LEMMA ClientKeeps ==
    ASSUME HttpInv, ClientNext
    PROVE  HttpInv'
<1>1. CASE ConnectFails \/ PutFails \/ Deadline
  BY <1>1, AttemptFailsKeeps DEF ConnectFails, PutFails, Deadline
<1>2. CASE Connects
  <2>1. ~stop /\ up /\ phase = "connect" /\ phase' = "put" /\ late = 0
        /\ UNCHANGED <<req, attempt, inbox, reply, fit, stop, up, served, late>>
    BY <1>2 DEF Connects, Cancelled, HttpInv, HttpTypeOK, LateInv, LateCap
  <2> QED
    BY <2>1 DEF HttpInv, HttpTypeOK, Phases, InboxInv, ServedInv, Begun, ReplyInv, Succeeds, LateInv
<1>3. CASE ConnectedButCancelled \/ Interrupted
  BY <1>3, EndsKeeps DEF ConnectedButCancelled, Interrupted
<1>4. CASE Put
  BY <1>4, PutKeeps
<1>5. CASE Answered
  <2>1. CASE Succeeds
    BY <1>5, <2>1, EndsKeeps DEF Answered
  <2>2. CASE ~Succeeds
    BY <1>5, <2>2, AttemptFailsKeeps DEF Answered
  <2> QED
    BY <2>1, <2>2
<1> QED
  BY <1>1, <1>2, <1>3, <1>4, <1>5 DEF ClientNext

-----------------------------------------------------------------------------
(* The device                                                              *)

(* What the client can hear of a device that has not acted is no success.  *)
LEMMA NoFalseSuccess ==
    ASSUME NEW r, NEW acts \in BOOLEAN, NEW answer \in MayAnswer(r, acts)
    PROVE  /\ answer \in Answers
           /\ ~acts => answer \notin {"good", "cut"} /\ (answer = "gone" => r \notin ResetOk)
<1>1. PICK m \in Sends(r, acts) : answer = Heard(r, m)
  BY DEF MayAnswer
<1>2. m \in Messages
  BY DEF Sends
<1>3. answer \in Answers
  BY <1>1, <1>2 DEF Heard, Answers, Messages
<1>4. ASSUME ~acts
      PROVE  answer \notin {"good", "cut"} /\ (answer = "gone" => r \notin ResetOk)
  <2>1. m.status = "error" /\ (r \in ResetOk => Complete(m) \/ m.then = "waits")
    BY <1>4 DEF Sends
  <2> QED
    BY <1>1, <1>2, <2>1 DEF Heard, Messages
<1> QED
  BY <1>3, <1>4

(* A sequence without elements is the empty one.                           *)
LEMMA NoneLeft ==
    ASSUME NEW S, NEW s \in Seq(S), Len(s) = 0
    PROVE  s = <<>>
  OBVIOUS

(* The request that is served is the one in hand, and it was the last one  *)
(* if it belongs to the connection in use.                                 *)
LEMMA HeadIs ==
    ASSUME HttpInv, inbox # <<>>
    PROVE  /\ Head(inbox).req = req /\ req \in Requests
           /\ Head(inbox).mine \in BOOLEAN
           /\ phase \notin {"none", "ok"} /\ reply = "none"
           /\ Len(inbox) \in Nat \ {0} /\ Len(Tail(inbox)) = Len(inbox) - 1
           /\ Tail(inbox) \in Seq([req : Requests, mine : BOOLEAN])
           /\ \A i \in 1..Len(Tail(inbox)) : Tail(inbox)[i] = inbox[i + 1]
           /\ Head(inbox).mine => Tail(inbox) = <<>> /\ phase = "await"
<1> DEFINE R == [req : Requests, mine : BOOLEAN]
<1>1. inbox \in Seq(R)
  BY DEF HttpInv, HttpTypeOK
<1> HIDE DEF R
<1>2. /\ Len(inbox) \in Nat \ {0} /\ Len(Tail(inbox)) = Len(inbox) - 1
      /\ Tail(inbox) \in Seq(R) /\ Head(inbox) = inbox[1] /\ inbox[1] \in R
      /\ \A i \in 1..Len(Tail(inbox)) : Tail(inbox)[i] = inbox[i + 1]
  BY <1>1
<1>0. 1 \in 1..Len(inbox)
  BY <1>2
<1>3. inbox[1].mine => 1 = Len(inbox) /\ phase = "await"
  BY <1>0 DEF HttpInv, InboxInv
<1>4. Len(inbox) = 1 => Tail(inbox) = <<>>
  <2>1. Tail(inbox) \in Seq(R) /\ (Len(inbox) = 1 => Len(Tail(inbox)) = 0)
    BY <1>2
  <2> QED
    BY <2>1, NoneLeft
<1>5. inbox[1].mine \in BOOLEAN
  BY <1>2 DEF R
<1>6. phase \notin {"none", "ok"} /\ reply = "none" /\ req \in Requests
  BY DEF HttpInv, InboxInv
<1>7. inbox[1].req = req
  BY <1>0 DEF HttpInv, InboxInv
<1> QED
  BY <1>2, <1>3, <1>4, <1>5, <1>6, <1>7 DEF R

LEMMA TakesKeeps ==
    ASSUME HttpInv, NEW acts \in BOOLEAN, NEW shows \in BOOLEAN, Takes(acts, shows)
    PROVE  HttpInv'
<1>1. /\ inbox # <<>> /\ inbox' = Tail(inbox)
      /\ UNCHANGED <<req, attempt, phase, stop, up, late>>
  BY DEF Takes
<1>2. served' = (IF acts THEN served + 1 ELSE served) /\ served \in Nat
  BY <1>1, HeadIs DEF Takes, HttpInv, HttpTypeOK
<1>3. CASE Head(inbox).mine
  <2>1. reply' \in MayAnswer(req, acts) /\ fit' \in MaySee(reply', shows)
    BY <1>1, <1>3, HeadIs DEF Takes
  <2>2. /\ reply' \in Answers
        /\ ~acts => reply' \notin {"good", "cut"} /\ (reply' = "gone" => req \notin ResetOk)
    BY <2>1, NoFalseSuccess
  <2>3. fit' \in BOOLEAN
    BY <2>1 DEF MaySee
  <2>4. inbox' = <<>> /\ Len(inbox') = 0 /\ phase = "await" /\ Len(inbox) >= 1
    BY <1>1, <1>3, HeadIs
  <2>5. served' + Len(inbox') <= Begun' /\ served' \in Nat
    BY <1>1, <1>2, <2>4, HeadIs DEF HttpInv, HttpTypeOK, ServedInv, Begun
  <2>6. attempt \in 1..Attempts /\ Attempts \in Nat
    BY RequestAssumption DEF HttpInv, HttpTypeOK
  <2>7. HttpTypeOK'
    <3>1. inbox' \in Seq([req : Requests, mine : BOOLEAN])
      BY <1>1, HeadIs
    <3>2. served' \in 0..Attempts
      BY <1>1, <2>4, <2>5, <2>6 DEF Begun
    <3> QED
      BY <1>1, <2>2, <2>3, <3>1, <3>2 DEF HttpInv, HttpTypeOK
  <2>8. InboxInv'
    BY <1>1, <2>4, HeadIs DEF InboxInv
  <2>9. ServedInv'
    BY <1>1, <2>4, <2>5 DEF ServedInv
  <2>10. ReplyInv'
    BY <1>1, <1>2, <2>2, <2>4 DEF HttpInv, ReplyInv, Succeeds
  <2>11. LateInv'
    BY <1>1 DEF HttpInv, LateInv
  <2> QED
    BY <2>7, <2>8, <2>9, <2>10, <2>11 DEF HttpInv
<1>4. CASE ~Head(inbox).mine
  <2>1. UNCHANGED <<reply, fit>>
    BY <1>4 DEF Takes
  <2>2. served' + Len(inbox') <= Begun' /\ served' \in Nat /\ Len(inbox') \in Nat
    BY <1>1, <1>2, HeadIs DEF HttpInv, HttpTypeOK, ServedInv, Begun
  <2>3. attempt \in 1..Attempts /\ Attempts \in Nat
    BY RequestAssumption DEF HttpInv, HttpTypeOK
  <2>4. HttpTypeOK'
    <3>1. inbox' \in Seq([req : Requests, mine : BOOLEAN])
      BY <1>1, HeadIs
    <3>2. served' \in 0..Attempts
      BY <1>1, <2>2, <2>3 DEF Begun
    <3> QED
      BY <1>1, <2>1, <3>1, <3>2 DEF HttpInv, HttpTypeOK
  <2>5. InboxInv'
    <3>1. /\ \A i \in 1..Len(inbox') : inbox'[i].req = req
          /\ \A i \in 1..Len(inbox') : inbox'[i].mine => i = Len(inbox') /\ phase = "await"
      BY <1>1, HeadIs DEF HttpInv, InboxInv
    <3> QED
      BY <1>1, <2>1, <3>1, HeadIs DEF InboxInv
  <2>6. ServedInv'
    BY <1>1, <2>2, HeadIs DEF ServedInv
  <2>7. ReplyInv'
    BY <1>1, <1>2, <2>1, HeadIs DEF HttpInv, ReplyInv, Succeeds
  <2>8. LateInv'
    BY <1>1 DEF HttpInv, LateInv
  <2> QED
    BY <2>4, <2>5, <2>6, <2>7, <2>8 DEF HttpInv
<1> QED
  BY <1>3, <1>4, HeadIs

LEMMA TakesAndLeavesKeeps ==
    ASSUME HttpInv, TakesAndLeaves(FALSE)
    PROVE  HttpInv'
<1>1. /\ inbox # <<>> /\ inbox' = <<>> /\ Len(inbox') = 0 /\ up' = FALSE
      /\ UNCHANGED <<req, attempt, phase, stop, late>>
  BY DEF TakesAndLeaves
<1>2. served' = served + 1 /\ served \in Nat
  BY <1>1, HeadIs DEF TakesAndLeaves, HttpInv, HttpTypeOK
<1>3. reply' \in Answers /\ fit' \in BOOLEAN
  BY <1>1 DEF TakesAndLeaves, HttpInv, HttpTypeOK, Answers, MaySee
<1>4. served' + Len(inbox') <= Begun'
  BY <1>1, <1>2, HeadIs DEF HttpInv, HttpTypeOK, ServedInv, Begun
<1>5. attempt \in 1..Attempts /\ Attempts \in Nat
  BY RequestAssumption DEF HttpInv, HttpTypeOK
<1>6. HttpTypeOK'
  <2>1. served' \in 0..Attempts
    BY <1>1, <1>2, <1>4, <1>5 DEF Begun
  <2>2. inbox' \in Seq([req : Requests, mine : BOOLEAN])
    BY <1>1
  <2>3. up' \in BOOLEAN /\ UNCHANGED <<req, attempt, phase, stop, late>>
    BY <1>1
  <2> HIDE DEF TakesAndLeaves
  <2> QED
    BY <1>3, <2>1, <2>2, <2>3 DEF HttpInv, HttpTypeOK
<1>7. InboxInv'
  BY <1>1, HeadIs DEF InboxInv
<1>8. ServedInv'
  BY <1>1, <1>4, HeadIs DEF ServedInv
<1>9. ReplyInv'
  BY <1>1, <1>2, HeadIs DEF ReplyInv, Succeeds
<1>10. LateInv'
  BY <1>1 DEF HttpInv, LateInv
<1> QED
  BY <1>6, <1>7, <1>8, <1>9, <1>10 DEF HttpInv

(* Every step of the client and of the device keeps the invariant.         *)
LEMMA HttpStepKeeps ==
    ASSUME HttpInv, HttpStep
    PROVE  HttpInv'
<1>1. CASE Raised
  BY <1>1 DEF Raised, HttpInv, HttpTypeOK, InboxInv, ServedInv, Begun, ReplyInv, Succeeds, LateInv
<1>2. CASE UNCHANGED httpVars
  BY <1>2 DEF httpVars, HttpInv, HttpTypeOK, InboxInv, ServedInv, Begun, ReplyInv, Succeeds, LateInv
<1> QED
  BY <1>1, <1>2, AskKeeps, ClientKeeps, TakesKeeps, TakesAndLeavesKeeps DEF HttpStep

-----------------------------------------------------------------------------
(* The job                                                                 *)

(* The driver asks only for what is in its script, and nothing but the     *)
(* client, the device and the cancel watch touches a request.              *)
LEMMA StepIsHttpStep ==
    ASSUME DriverTypeOK, [Next]_vars
    PROVE  HttpStep
<1>1. CASE Http
  <2>1. CASE Proceeds
    <3>1. call \in Calls /\ pos \in 0..Len(Script(call)) /\ pos < Len(Script(call))
      BY <2>1 DEF Proceeds, DriverTypeOK
    <3>2. Script(call) \in Seq(Requests)
      BY <3>1, CallAssumption
    <3> DEFINE script == Script(call)
    <3>3. script \in Seq(Requests) /\ Len(script) \in Nat /\ pos + 1 \in 1..Len(script)
      BY <3>1, <3>2
    <3> HIDE DEF script
    <3>4. script[pos + 1] \in Requests
      BY <3>3
    <3>5. Ask(script[pos + 1])
      BY <2>1 DEF Proceeds, script
    <3> QED
      BY <3>4, <3>5 DEF HttpStep
  <2>2. CASE Returns
    BY <2>2 DEF Returns, HttpStep
  <2> QED
    BY <1>1, <2>1, <2>2 DEF Http, HttpStep
<1>2. CASE Device
  <2>1. CASE Serves
    <3>1. Shows(Head(inbox).req) \in BOOLEAN
      BY DEF Shows, Matches
    <3>2. Takes(TRUE, Shows(Head(inbox).req))
      BY <2>1 DEF Serves
    <3> QED
      BY <3>1, <3>2 DEF HttpStep
  <2>2. CASE Refuses
    BY <2>2 DEF Refuses, HttpStep
  <2>3. CASE Leaves
    BY <2>3 DEF Leaves, HttpStep
  <2> QED
    BY <1>2, <2>1, <2>2, <2>3 DEF Device, DeviceNext
<1>3. CASE PassesOn
  BY <1>3 DEF PassesOn, HttpStep
<1>4. CASE Starts \/ NeverStarts \/ CancelledBefore \/ CancelAsked \/ Flash \/ FlashEnds
           \/ Dispatch \/ Station \/ Settles \/ UNCHANGED vars
  BY <1>4 DEF Starts, NeverStarts, CancelledBefore, CancelAsked, Flash, FlashEnds, Dispatch,
              Station, Settles, vars, HttpStep
<1> QED
  BY <1>1, <1>2, <1>3, <1>4 DEF Next

LEMMA DriverKept ==
    ASSUME DriverTypeOK, [Next]_vars
    PROVE  DriverTypeOK'
<1>1. CASE Http
  <2>1. CASE Proceeds
    <3> DEFINE script == Script(call)
    <3>1. /\ call \in Calls /\ pos \in 0..Len(script) /\ pos < Len(script) /\ pos' = pos + 1
          /\ UNCHANGED <<call, result, holds, entry, odd>>
      BY <2>1 DEF Proceeds, DriverTypeOK
    <3>2. Script(call) \in Seq(Requests)
      BY <3>1, CallAssumption
    <3>3. Len(script) \in Nat
      BY <3>2
    <3>4. script' = script
      BY <3>1 DEF Script
    <3> HIDE DEF script
    <3>5. pos' \in 0..Len(script')
      BY <3>1, <3>3, <3>4
    <3> QED
      BY <3>1, <3>5 DEF DriverTypeOK, script
  <2>2. CASE Returns
    <3>1. result' \in {"none", "ok", "err", "cancelled"}
      BY <2>2 DEF Returns, Verdict
    <3>2. UNCHANGED <<call, pos, holds, entry, odd>>
      BY <2>2 DEF Returns
    <3>3. Script(call)' = Script(call)
      BY <3>2 DEF Script
    <3> QED
      BY <3>1, <3>2, <3>3 DEF DriverTypeOK
  <2>3. CASE UNCHANGED driverVars
    BY <2>3 DEF driverVars, DriverTypeOK, Script
  <2> QED
    BY <1>1, <2>1, <2>2, <2>3 DEF Http
<1>2. CASE Serves
  <2>1. holds' \subseteq Fields
    BY <1>2 DEF Serves, DriverTypeOK, Written, Carries, Fields
  <2>2. entry' \in Entries
    BY <1>2 DEF Serves, DriverTypeOK, EntryAfter, Entries
  <2>3. UNCHANGED <<call, pos, result, odd>>
    BY <1>2 DEF Serves
  <2>4. Script(call)' = Script(call)
    BY <2>3 DEF Script
  <2> QED
    BY <2>1, <2>2, <2>3, <2>4 DEF DriverTypeOK
<1>3. CASE Refuses \/ Leaves \/ PassesOn \/ Starts \/ NeverStarts \/ CancelledBefore
           \/ CancelAsked \/ Flash \/ FlashEnds \/ Dispatch \/ Station \/ Settles
           \/ UNCHANGED vars
  <2>1. UNCHANGED driverVars
    BY <1>3 DEF Refuses, Leaves, PassesOn, Starts, NeverStarts, CancelledBefore, CancelAsked,
                Flash, FlashEnds, Dispatch, Station, Settles, vars
  <2> QED
    BY <2>1 DEF driverVars, DriverTypeOK, Script
<1> QED
  BY <1>1, <1>2, <1>3 DEF Next, Device, DeviceNext

LEMMA FlashKept ==
    ASSUME FlashInv, [Next]_vars
    PROVE  FlashInv'
<1>1. CASE Flash
  BY <1>1 DEF Flash, FlashInv, Usb!UsbTypeOK, Usb!RefusesImage, Usb!Spawns, Usb!SeesExit,
              Usb!SeesDeadline, Usb!SeesCancel, Usb!Kills
<1>2. CASE FlashEnds
  BY <1>2 DEF FlashEnds, FlashInv, Usb!UsbTypeOK, Usb!ChildEnds
<1>3. CASE Starts \/ NeverStarts \/ CancelledBefore \/ CancelAsked \/ PassesOn \/ Http
           \/ Device \/ Dispatch \/ Station \/ Settles \/ UNCHANGED vars
  <2>1. UNCHANGED usbVars
    BY <1>3 DEF Starts, NeverStarts, CancelledBefore, CancelAsked, PassesOn, Http, Device,
                Dispatch, Station, Settles, vars
  <2> QED
    BY <2>1 DEF usbVars, FlashInv, Usb!UsbTypeOK
<1> QED
  BY <1>1, <1>2, <1>3 DEF Next

LEMMA StationKept ==
    ASSUME StationInv, [Next]_vars
    PROVE  StationInv'
<1> USE DEF StationInv, DispatchIsTrue, Z21!Z21TypeOK, Z21!Queries, Z21!Replies, Z21!Results
<1>1. CASE Dispatch
  <2>1. CASE Z21!SendsProbe
    BY <2>1 DEF Z21!SendsProbe
  <2>2. CASE Z21!SeesSerial
    BY <2>2 DEF Z21!SeesSerial, Z21!Arrives, Z21!SendsDispatch
  <2>3. CASE Z21!SerialWindowCloses
    BY <2>3 DEF Z21!SerialWindowCloses, Z21!SendsDispatch
  <2>4. CASE Z21!SeesUnknown
    BY <2>4 DEF Z21!SeesUnknown, Z21!Arrives, Z21!Over
  <2>5. CASE Z21!Ignores
    BY <2>5 DEF Z21!Ignores, Z21!Ignored, Z21!Ours
  <2>6. CASE Z21!SeesSlot
    BY <2>6 DEF Z21!SeesSlot, Z21!Arrives, Z21!Over, Z21!Ours
  <2>7. CASE Z21!SeesRejection
    BY <2>7 DEF Z21!SeesRejection, Z21!Arrives, Z21!Over
  <2>8. CASE Z21!DispatchWindowCloses
    BY <2>8 DEF Z21!DispatchWindowCloses, Z21!Over
  <2>9. CASE Z21!SocketFails
    BY <2>9 DEF Z21!SocketFails, Z21!Over
  <2> QED
    BY <1>1, <2>1, <2>2, <2>3, <2>4, <2>5, <2>6, <2>7, <2>8, <2>9 DEF Dispatch, Z21!Client
<1>2. CASE Station
  <2>1. ASSUME NEW m \in Z21!Queries, Z21!StationAnswers(m)
        PROVE  StationInv'
    <3>1. PICK answer \in Z21!ReplyTo(m) :
             /\ toClient' = toClient \cup answer
             /\ dispatched' = (dispatched \/ answer = {"slot"} \/ (m = "dispatch" /\ station = "old"))
             /\ answered' = (answered \/ m = "serial")
      BY <2>1 DEF Z21!StationAnswers
    <3>2. /\ answer \in {{"serial"}, {"slot"}, {"zero"}, {"unknown"}, {}}
          /\ answer = {"serial"} => m = "serial"
          /\ answer = {"zero"} => station \in {"new", "slave"}
          /\ answer = {"unknown"} => station = "plain"
      BY <3>1 DEF Z21!ReplyTo
    <3>3. /\ toStation' \subseteq Z21!Queries
          /\ UNCHANGED <<z21, station, alive, loggedOff>>
      BY <2>1 DEF Z21!StationAnswers
    <3>4. dispatched' \in BOOLEAN /\ answered' \in BOOLEAN
      BY <3>1
    <3>5. toClient' \subseteq Z21!Replies
      BY <3>1, <3>2
    <3>6. /\ "slot" \in toClient' => dispatched'
          /\ "serial" \in toClient' => answered'
          /\ "zero" \in toClient' => station \in {"new", "slave"}
          /\ "unknown" \in toClient' => station = "plain"
      BY <3>1, <3>2
    <3>7. (dispatched => dispatched') /\ (answered => answered')
      BY <3>1
    <3> QED
      BY <3>3, <3>4, <3>5, <3>6, <3>7
  <2>2. CASE Z21!Lost
    BY <2>2 DEF Z21!Lost
  <2>3. CASE Z21!OtherReply
    BY <2>3 DEF Z21!OtherReply
  <2> QED
    BY <1>2, <2>1, <2>2, <2>3 DEF Station
<1>3. CASE Starts \/ NeverStarts \/ CancelledBefore \/ CancelAsked \/ PassesOn \/ Http
           \/ Device \/ Flash \/ FlashEnds \/ Settles \/ UNCHANGED vars
  <2>1. UNCHANGED z21Vars
    BY <1>3 DEF Starts, NeverStarts, CancelledBefore, CancelAsked, PassesOn, Http, Device,
                Flash, FlashEnds, Settles, vars
  <2> QED
    BY <2>1 DEF z21Vars
<1> QED
  BY <1>1, <1>2, <1>3 DEF Next

LEMMA JobKept ==
    ASSUME JobInv, [Next]_vars
    PROVE  JobInv'
<1>1. Way(call) \in {"http", "usb", "z21"}
  BY DEF Way
<1> QED
  BY <1>1 DEF JobInv, Terminal, Next, vars, jobVars, Starts, NeverStarts, CancelledBefore,
              CancelAsked, PassesOn, Http, Device, Flash, FlashEnds, Dispatch, Station, Settles

LEMMA DeviceInit == Init => DeviceInv
<1> SUFFICES ASSUME Init PROVE DeviceInv
  OBVIOUS
<1>1. HttpInv
  <2>1. inbox = <<>> /\ Len(inbox) = 0 /\ inbox \in Seq([req : Requests, mine : BOOLEAN])
    BY DEF Init, HttpInit
  <2>2. 1 \in 1..Attempts /\ 0 \in 0..Attempts /\ 0 \in 0..LateCap
    BY RequestAssumption DEF LateCap
  <2>4. HttpTypeOK
    BY <2>1, <2>2 DEF Init, HttpInit, HttpTypeOK, Phases, Answers
  <2>3. InboxInv /\ ServedInv /\ ReplyInv /\ LateInv
    BY <2>1 DEF Init, HttpInit, InboxInv, ServedInv, Begun, ReplyInv, Succeeds, LateInv
  <2> QED
    BY <2>3, <2>4 DEF HttpInv
<1>2. DriverTypeOK
  <2>1. call \in Calls
    BY DEF Init, DriverInit
  <2>2. Script(call) \in Seq(Requests)
    BY <2>1, CallAssumption
  <2> DEFINE script == Script(call)
  <2>3. Len(script) \in Nat
    BY <2>2
  <2> HIDE DEF script
  <2>4. 0 \in 0..Len(script)
    BY <2>3
  <2> QED
    BY <2>1, <2>4 DEF Init, DriverInit, DriverTypeOK, Entries, Fields, Flags, LocoFields, Told,
                      script
<1>3. FlashInv
  BY DEF Init, Usb!UsbInit, FlashInv, Usb!UsbTypeOK
<1>4. StationInv
  BY DEF Init, Z21!Z21Init, StationInv, Z21!Z21TypeOK, DispatchIsTrue, Z21!Results
<1>5. JobInv
  BY DEF Init, JobInv
<1> QED
  BY <1>1, <1>2, <1>3, <1>4, <1>5 DEF DeviceInv

(* A request is in one of the states its phases allow, at most one copy of *)
(* it per attempt is at the device, espflash runs only while it is waited  *)
(* for, and what the station has sent is true.                             *)
THEOREM DeviceInvariant == Spec => []DeviceInv
<1>1. DeviceInv /\ [Next]_vars => DeviceInv'
  BY StepIsHttpStep, HttpStepKeeps, DriverKept, FlashKept, StationKept, JobKept DEF DeviceInv
<1> QED
  BY DeviceInit, <1>1, PTL DEF Spec

(* The types of the HTTP client, the drivers, the child process, the       *)
(* dispatch and the job.                                                   *)
THEOREM DeviceTypeCorrect == Spec => []TypeOK
<1>1. DeviceInv => TypeOK
  BY DEF DeviceInv, HttpInv, FlashInv, StationInv, JobInv, TypeOK
<1> QED
  BY <1>1, DeviceInvariant, PTL

(* At most one request reaches the device after the flag was raised.       *)
THEOREM CancelStopsRequests == Spec => []OneMoreAtMost
<1>1. DeviceInv => OneMoreAtMost
  BY DEF DeviceInv, HttpInv, LateInv, OneMoreAtMost
<1> QED
  BY <1>1, DeviceInvariant, PTL

(* No espflash is left running when the flash call is over.                *)
THEOREM NoChildLeft == Spec => []ChildGone
<1>1. DeviceInv => ChildGone
  BY DEF DeviceInv, FlashInv, ChildGone
<1> QED
  BY <1>1, DeviceInvariant, PTL

(* What is reported of a dispatch is so, whatever datagrams are lost,      *)
(* repeated or late.                                                       *)
THEOREM DispatchReportIsTrue == Spec => []DispatchIsTrue
<1>1. DeviceInv => DispatchIsTrue
  BY DEF DeviceInv, StationInv
<1> QED
  BY <1>1, DeviceInvariant, PTL

(* Every repeated upload is a retry of the HTTP client's own: a client     *)
(* that makes one attempt sends the device an image at most once, as the   *)
(* documentation has it and the run firmware_once refutes for two attempts *)
(* (http.rs request; docs/api.md).                                         *)
THEOREM OneAttemptSendsOnce ==
    ASSUME Attempts = 1 PROVE Spec => []FirmwareSentOnce
<1>1. TypeOK => FirmwareSentOnce
  BY DEF TypeOK, HttpTypeOK, FirmwareSentOnce
<1> QED
  BY <1>1, DeviceTypeCorrect, PTL

-----------------------------------------------------------------------------
(* A request is a Delivery                                                 *)

(* Ending an attempt fails the request, or leaves it open.                 *)
LEMMA AttemptFailsRefines ==
    ASSUME phase \in {"connect", "put", "await"}, AttemptFails
    PROVE  [Sent!Next]_(Sent!deliveryVars)
BY DEF AttemptFails, Sent!Next, Sent!GiveUp, Sent!deliveryVars

LEMMA ClientRefines ==
    ASSUME HttpInv, ClientNext
    PROVE  [Sent!Next]_(Sent!deliveryVars)
<1>1. CASE ConnectFails \/ PutFails \/ Deadline
  BY <1>1, AttemptFailsRefines DEF ConnectFails, PutFails, Deadline
<1>2. CASE Connects \/ Put
  BY <1>2 DEF Connects, Put, Sent!deliveryVars
<1>3. CASE ConnectedButCancelled \/ Interrupted
  BY <1>3 DEF ConnectedButCancelled, Interrupted, Ends, Sent!Next, Sent!GiveUp
<1>4. CASE Answered
  <2>1. CASE Succeeds
    <3>1. served > 0
      BY <2>1 DEF HttpInv, ReplyInv
    <3> QED
      BY <1>4, <2>1, <3>1 DEF Answered, Ends, Sent!Next, Sent!Succeed
  <2>2. CASE ~Succeeds
    BY <1>4, <2>2, AttemptFailsRefines DEF Answered
  <2> QED
    BY <2>1, <2>2
<1> QED
  BY <1>1, <1>2, <1>3, <1>4 DEF ClientNext

(* The device acts on a request only while an attempt at it is unserved.   *)
LEMMA DeviceRefines ==
    ASSUME HttpInv, inbox # <<>>, phase' = phase,
           served' \in {served, served + 1}
    PROVE  [Sent!Next]_(Sent!deliveryVars)
<1>1. phase \in {"connect", "put", "await", "failed", "interrupted"}
  BY HeadIs DEF HttpInv, HttpTypeOK, Phases
<1>2. served < Attempts
  <2>1. attempt \in 1..Attempts /\ Attempts \in Nat /\ served \in Nat /\ Len(inbox) \in Nat \ {0}
    BY RequestAssumption, HeadIs DEF HttpInv, HttpTypeOK
  <2> QED
    BY <2>1 DEF HttpInv, ServedInv, Begun
<1> QED
  BY <1>1, <1>2 DEF Sent!Next, Sent!Deliver, Sent!deliveryVars

LEMMA HttpStepRefines ==
    ASSUME HttpInv, HttpStep
    PROVE  [Sent!Next]_(Sent!deliveryVars)
<1>1. ASSUME NEW r \in Requests, Ask(r)
      PROVE  [Sent!Next]_(Sent!deliveryVars)
  BY <1>1 DEF Ask, Sent!Next, Sent!Ask
<1>2. ASSUME NEW acts \in BOOLEAN, NEW shows \in BOOLEAN, Takes(acts, shows)
      PROVE  [Sent!Next]_(Sent!deliveryVars)
  BY <1>2, DeviceRefines DEF Takes
<1>3. CASE TakesAndLeaves(FALSE)
  BY <1>3, DeviceRefines DEF TakesAndLeaves
<1>4. CASE Raised \/ UNCHANGED httpVars
  BY <1>4 DEF Raised, httpVars, Sent!deliveryVars
<1> QED
  BY <1>1, <1>2, <1>3, <1>4, ClientRefines DEF HttpStep

(* Each request of a driver is a Delivery: success is told only of one the *)
(* device acted on, nothing of it comes after, and it is acted on at most  *)
(* once per attempt.                                                       *)
THEOREM RequestsAreDeliveries == Spec => ImplementsDelivery
<1>1. Init => Sent!Init
  BY DEF Init, HttpInit, Sent!Init
<1>2. DeviceInv /\ [Next]_vars => [Sent!Next]_(Sent!deliveryVars)
  BY StepIsHttpStep, HttpStepRefines DEF DeviceInv
<1> QED
  BY <1>1, <1>2, DeviceInvariant, PTL DEF Spec, ImplementsDelivery, Sent!Spec


-----------------------------------------------------------------------------
(* The inductive invariant of the drivers                                  *)

(* The request in hand is the one the driver has come to in its script,    *)
(* and a device leaves only at the last one.                               *)
PlaceInv ==
    /\ pos = 0 <=> phase = "none"
    /\ pos > 0 => req = Script(call)[pos]
    /\ ~up => pos > 0 /\ req \in {"restart", "off", "image", "upload"}
    /\ result = "ok" => pos > 0 /\ phase = "ok" /\ pos = Len(Script(call))

(* What was read and compared is still so when the device is let go.       *)
ReadInv ==
    /\ phase = "ok" => reply # "none"
    /\ pos > 0 /\ req \in {"verify", "settings"} /\ reply # "none" /\ fit => Matches
    /\ pos > 0 /\ req \in {"restart", "off"} => Matches

(* What was told before the request in hand, and in it once the device has *)
(* acted on it, was taken.                                                 *)
Acted(i) == i < pos \/ (i = pos /\ served > 0)
Reached(requests, r) == pos > 0 /\ (req \in requests \/ (req = r /\ served > 0))

WroteInv ==
    /\ \A i \in 1..Len(Script(call)) : Acted(i) => Written(Script(call)[i]) \subseteq holds
    /\ call.driver = "wifred" /\ Reached({"wifi", "verify", "restart"}, "remove") =>
            odd = "network" \/ entry # "stale"
    /\ call.driver = "longfred" /\ Reached({"settings", "off"}, "put") =>
            odd = "network" \/ entry # "stale" \/ ~call.key

EndInv ==
    /\ job \in {"http", "usb", "z21"} => job = Way(call)
    /\ usb = "ok" => child = "good"
    /\ job = "Done" => CASE Way(call) = "http" -> result = "ok"
                         [] Way(call) = "usb" -> usb = "ok"
                         [] Way(call) = "z21" -> z21 \in {"slot", "noAck"}

DoneInv == DeviceInv /\ PlaceInv /\ ReadInv /\ WroteInv /\ EndInv

-----------------------------------------------------------------------------
(* The scripts                                                             *)

(* What comes right before a request.                                      *)
Follows(a, b) ==
    /\ b = "restart" => a = "verify"
    /\ b = "verify" => a = "wifi"
    /\ b = "wifi" => a = "remove"
    /\ b = "off" => a = "settings"
    /\ b = "settings" => a = "put"

(* The scripts, one by one.                                                *)
LEMMA Scripts ==
    ASSUME NEW c \in Calls
    PROVE  \/ /\ c.op = "program" /\ c.driver = "wifred"
              /\ \/ /\ "address" \notin c.asks
                    /\ Script(c) = <<"read", "identity", "server", "remove", "wifi", "verify", "restart">>
                 \/ /\ "functions" \in c.asks
                    /\ Script(c) = <<"read", "identity", "loco", "functions", "server",
                                     "remove", "wifi", "verify", "restart">>
                 \/ /\ "functions" \notin c.asks
                    /\ Script(c) = <<"read", "identity", "loco", "server",
                                     "remove", "wifi", "verify", "restart">>
           \/ /\ c.op = "program" /\ c.driver = "longfred"
              /\ Script(c) = <<"put", "settings", "off">>
           \/ c.op = "updateFirmware" /\ Script(c) \in {<<"image">>, <<"upload">>}
           \/ Script(c) = <<>> /\ Told(c) = {}
<1>0. c \in CallType
  BY CallAssumption
<1>1. CASE c.op = "program" /\ c.driver = "wifred"
  BY <1>1 DEF Script
<1>2. CASE c.op = "program" /\ c.driver = "longfred"
  BY <1>2 DEF Script
<1>3. CASE c.op = "updateFirmware" /\ c.driver \in {"longfred", "rb23xx"}
  BY <1>3 DEF Script
<1>4. CASE ~(c.op = "program" /\ c.driver \in {"wifred", "longfred"})
           /\ ~(c.op = "updateFirmware" /\ c.driver \in {"longfred", "rb23xx"})
  BY <1>0, <1>4 DEF Script, Told, CallType, Drivers
<1> QED
  BY <1>0, <1>1, <1>2, <1>3, <1>4 DEF CallType

(* The order the drivers keep, and that they let the device go last.       *)
LEMMA ScriptFacts ==
    ASSUME NEW c \in Calls, NEW i \in 1..Len(Script(c))
    PROVE  /\ Script(c)[i] \in {"restart", "off", "image", "upload"} <=> i = Len(Script(c))
           /\ c.op = "program" => Script(c)[i] \notin {"image", "upload"}
           /\ Script(c)[i] = "restart" => c.driver = "wifred"
           /\ Script(c)[i] = "off" => c.driver = "longfred"
           /\ Script(c)[1] \in {"read", "put", "image", "upload"}
           /\ i > 1 => Follows(Script(c)[i - 1], Script(c)[i])
<1>1. CASE c.op = "program" /\ c.driver = "wifred"
  <2>1. CASE Script(c) = <<"read", "identity", "server", "remove", "wifi", "verify", "restart">>
    BY <1>1, <2>1 DEF Follows
  <2>2. CASE Script(c) = <<"read", "identity", "loco", "functions", "server",
                           "remove", "wifi", "verify", "restart">>
    BY <1>1, <2>2 DEF Follows
  <2>3. CASE Script(c) = <<"read", "identity", "loco", "server",
                           "remove", "wifi", "verify", "restart">>
    BY <1>1, <2>3 DEF Follows
  <2>4. CASE Script(c) = <<>>
    BY <2>4
  <2> QED
    BY <1>1, <2>1, <2>2, <2>3, <2>4, Scripts
<1>2. CASE c.op = "program" /\ c.driver = "longfred" /\ Script(c) = <<"put", "settings", "off">>
  BY <1>2 DEF Follows
<1>3. CASE c.op = "updateFirmware" /\ Script(c) = <<"image">>
  BY <1>3 DEF Follows
<1>4. CASE c.op = "updateFirmware" /\ Script(c) = <<"upload">>
  BY <1>4 DEF Follows
<1>5. CASE Script(c) = <<>>
  BY <1>5
<1> QED
  BY <1>1, <1>2, <1>3, <1>4, <1>5, Scripts

(* A setting that is told is in one of the requests, and not in the last,  *)
(* with which the device is let go.                                        *)
LEMMA ToldInScript ==
    ASSUME NEW c \in Calls, NEW f \in Told(c)
    PROVE  \E i \in 1..Len(Script(c)) : i < Len(Script(c)) /\ f \in Carries(Script(c)[i])
<1>0. c \in CallType /\ (c.asks \cap LocoFields # {} => "address" \in c.asks)
  BY CallAssumption
<1>1. CASE c.op = "program" /\ c.driver = "wifred"
  <2>1. f \in c.asks /\ f \in {"address", "drive", "long", "functions", "identity", "server", "automatic"}
    BY <1>1 DEF Told, LocoFields
  <2>2. f \in {"address", "drive", "long", "functions"} => "address" \in c.asks
    BY <1>0, <2>1 DEF LocoFields
  <2>3. CASE /\ "address" \notin c.asks
             /\ Script(c) = <<"read", "identity", "server", "remove", "wifi", "verify", "restart">>
    <3>1. Len(Script(c)) = 7 /\ Script(c)[2] = "identity" /\ Script(c)[3] = "server"
      BY <2>3
    <3>2. f \in Carries("identity") \/ f \in Carries("server")
      BY <2>1, <2>2, <2>3 DEF Carries
    <3> QED
      BY <3>1, <3>2
  <2>4. CASE Script(c) = <<"read", "identity", "loco", "functions", "server",
                           "remove", "wifi", "verify", "restart">>
    <3>1. /\ Len(Script(c)) = 9 /\ Script(c)[2] = "identity" /\ Script(c)[3] = "loco"
          /\ Script(c)[4] = "functions" /\ Script(c)[5] = "server"
      BY <2>4
    <3>2. f \in Carries("identity") \/ f \in Carries("loco") \/ f \in Carries("functions")
             \/ f \in Carries("server")
      BY <2>1 DEF Carries
    <3> QED
      BY <3>1, <3>2
  <2>5. CASE /\ "functions" \notin c.asks
             /\ Script(c) = <<"read", "identity", "loco", "server",
                              "remove", "wifi", "verify", "restart">>
    <3>1. /\ Len(Script(c)) = 8 /\ Script(c)[2] = "identity" /\ Script(c)[3] = "loco"
          /\ Script(c)[4] = "server"
      BY <2>5
    <3>2. f \in Carries("identity") \/ f \in Carries("loco") \/ f \in Carries("server")
      BY <2>1, <2>5 DEF Carries
    <3> QED
      BY <3>1, <3>2
  <2> QED
    BY <1>1, <2>1, <2>3, <2>4, <2>5, Scripts
<1>2. CASE c.op = "program" /\ c.driver = "longfred"
  <2>1. f \in Carries("put")
    BY <1>2 DEF Told, Carries
  <2>2. Script(c) = <<"put", "settings", "off">>
    BY <1>2, Scripts
  <2>3. Len(Script(c)) = 3 /\ Script(c)[1] = "put"
    BY <2>2
  <2> QED
    BY <2>1, <2>3
<1>3. CASE ~(c.op = "program" /\ c.driver \in {"wifred", "longfred"})
  BY <1>3 DEF Told
<1> QED
  BY <1>1, <1>2, <1>3

-----------------------------------------------------------------------------
(* Steps                                                                   *)

(* Steps that leave the driver, the device and the answer alone.           *)
LEMMA QuietKeeps ==
    ASSUME PlaceInv, ReadInv, WroteInv, UNCHANGED driverVars,
           UNCHANGED <<req, phase, reply, fit, up, served>>
    PROVE  PlaceInv' /\ ReadInv' /\ WroteInv'
<1>1. Script(call)' = Script(call)
  BY DEF driverVars, Script
<1>2. PlaceInv'
  BY <1>1 DEF PlaceInv, driverVars
<1>3. ReadInv'
  BY DEF ReadInv, Matches, Told, driverVars
<1>4. WroteInv'
  BY <1>1 DEF WroteInv, Acted, Written, Told, Reached, driverVars
<1> QED
  BY <1>2, <1>3, <1>4

(* A step of the client may lose the answer, and succeeds with one.        *)
LEMMA ClientLeaves ==
    ASSUME HttpInv, ClientNext
    PROVE  /\ UNCHANGED <<req, fit, up, served>>
           /\ phase \notin {"none", "ok"} /\ phase' # "none"
           /\ reply' \in {reply, "none"}
           /\ phase' = "ok" => reply' # "none"
BY DEF ClientNext, ConnectFails, Connects, ConnectedButCancelled, Put, PutFails, Answered,
       Deadline, Interrupted, AttemptFails, Ends, Succeeds

LEMMA ClientStepKeeps ==
    ASSUME HttpInv, PlaceInv, ReadInv, WroteInv, ClientNext, UNCHANGED driverVars
    PROVE  PlaceInv' /\ ReadInv' /\ WroteInv'
<1> HIDE DEF ClientNext
<1>1. Script(call)' = Script(call)
  BY DEF driverVars, Script
<1>2. PlaceInv'
  BY <1>1, ClientLeaves DEF PlaceInv, driverVars
<1>3. ReadInv'
  BY ClientLeaves DEF ReadInv, Matches, Told, driverVars
<1>4. WroteInv'
  BY <1>1, ClientLeaves DEF WroteInv, Acted, Written, Told, Reached, driverVars
<1> QED
  BY <1>2, <1>3, <1>4

(* The driver goes on to the next request of its script.                   *)
LEMMA ProceedsKeeps ==
    ASSUME HttpInv, DriverTypeOK, PlaceInv, ReadInv, WroteInv, Proceeds
    PROVE  PlaceInv' /\ ReadInv' /\ WroteInv'
<1> DEFINE script == Script(call)
<1>1. /\ result = "none" /\ (pos = 0 \/ (phase = "ok" /\ Understood)) /\ pos < Len(script)
      /\ Ask(script[pos + 1]) /\ pos' = pos + 1
      /\ UNCHANGED <<call, result, holds, entry, odd>>
  BY DEF Proceeds
<1>2. call \in Calls /\ pos \in 0..Len(script)
  BY DEF DriverTypeOK
<1>3. Script(call) \in Seq(Requests)
  BY <1>2, CallAssumption
<1>4. Len(script) \in Nat
  BY <1>3
<1>5. script' = script
  BY <1>1 DEF Script
<1>6. /\ req' = script[pos + 1] /\ phase' = "connect" /\ reply' = "none" /\ served' = 0
      /\ UNCHANGED <<fit, up>>
  BY <1>1 DEF Ask
<1>7. pos + 1 \in 1..Len(script) /\ (pos > 0 => pos \in 1..Len(script))
  BY <1>1, <1>2, <1>4
<1>8. pos > 0 => /\ Follows(script[pos], script[pos + 1])
                 /\ script[pos] \notin {"restart", "off", "image", "upload"}
  <2>1. ASSUME pos > 0
        PROVE  Follows(script[pos], script[pos + 1])
    BY <1>2, <1>7, <2>1, ScriptFacts
  <2>2. ASSUME pos > 0
        PROVE  script[pos] \notin {"restart", "off", "image", "upload"}
    BY <1>1, <1>2, <1>7, <2>2, ScriptFacts
  <2> QED
    BY <2>1, <2>2
<1>9. pos = 0 => script[pos + 1] \in {"read", "put", "image", "upload"}
  BY <1>2, <1>7, ScriptFacts
<1> HIDE DEF script
<1>10. pos > 0 => req = script[pos] /\ phase = "ok" /\ served > 0 /\ Understood
  BY <1>1 DEF PlaceInv, HttpInv, ReplyInv, script
<1>11. pos' > 0 /\ pos \in Nat
  BY <1>1, <1>2, <1>4
<1>12. PlaceInv'
  <2>1. up'
    BY <1>6, <1>8, <1>10 DEF PlaceInv
  <2> QED
    BY <1>1, <1>5, <1>6, <1>11, <2>1 DEF PlaceInv, script
<1>13. ReadInv'
  <2>1. ASSUME req' \in {"restart", "off"}
        PROVE  Matches
    <3>1. pos > 0 /\ req \in {"verify", "settings"}
      BY <1>6, <1>8, <1>9, <1>10, <1>11, <2>1 DEF Follows
    <3>2. fit /\ reply # "none"
      BY <1>10, <3>1 DEF Understood, Reads, ReadInv
    <3> QED
      BY <3>1, <3>2 DEF ReadInv
  <2>2. Matches' = Matches
    BY <1>1 DEF Matches, Told
  <2> QED
    BY <1>6, <2>1, <2>2 DEF ReadInv
<1>14. WroteInv'
  <2>1. ASSUME Reached({"wifi", "verify", "restart"}, "remove")'
        PROVE  Reached({"wifi", "verify", "restart"}, "remove")
    BY <1>6, <1>8, <1>9, <1>10, <1>11, <2>1 DEF Reached, Follows
  <2>2. ASSUME Reached({"settings", "off"}, "put")'
        PROVE  Reached({"settings", "off"}, "put")
    BY <1>6, <1>8, <1>9, <1>10, <1>11, <2>2 DEF Reached, Follows
  <2>3. ASSUME NEW i \in 1..Len(script), Acted(i)'
        PROVE  Acted(i)
    <3>1. i < pos + 1 /\ i \in Nat
      BY <1>1, <1>4, <1>6, <2>3 DEF Acted
    <3>2. i < pos \/ i = pos
      BY <1>11, <3>1
    <3>3. i = pos => served > 0
      BY <1>4, <1>10
    <3> QED
      BY <3>2, <3>3 DEF Acted
  <2>4. ASSUME NEW i \in 1..Len(script'), Acted(i)'
        PROVE  Written(script[i])' \subseteq holds'
    <3>1. Written(script[i]) \subseteq holds
      BY <1>5, <2>3, <2>4 DEF WroteInv, script
    <3>2. Written(script[i])' = Written(script[i])
      BY <1>1, <1>5 DEF Written, Told
    <3> QED
      BY <1>1, <3>1, <3>2
  <2> QED
    BY <1>1, <1>5, <2>1, <2>2, <2>4 DEF WroteInv, script
<1> QED
  BY <1>12, <1>13, <1>14

LEMMA ReturnsKeeps ==
    ASSUME DriverTypeOK, PlaceInv, ReadInv, WroteInv, Returns
    PROVE  PlaceInv' /\ ReadInv' /\ WroteInv'
<1>1. UNCHANGED <<call, pos, holds, entry, odd, req, phase, reply, fit, up, served>>
  BY DEF Returns, httpVars
<1>2. Script(call)' = Script(call)
  BY <1>1 DEF Script
<1>3. result' = "ok" => pos > 0 /\ phase = "ok" /\ pos = Len(Script(call))
  <2>1. call \in Calls /\ pos \in 0..Len(Script(call))
    BY DEF DriverTypeOK
  <2>2. Script(call) \in Seq(Requests)
    BY <2>1, CallAssumption
  <2> DEFINE script == Script(call)
  <2>3. Len(script) \in Nat /\ (script = <<>> => Len(script) = 0)
    BY <2>2
  <2>4. \/ script = <<>>
        \/ phase \in {"failed", "interrupted"}
        \/ phase = "ok" /\ (pos = Len(script) \/ ~Understood)
    BY DEF Returns
  <2>5. result' = "ok" => pos # 0 /\ phase = "ok" /\ Understood
    BY DEF Returns, Verdict
  <2> HIDE DEF script
  <2> QED
    BY <2>1, <2>3, <2>4, <2>5 DEF script
<1>4. PlaceInv'
  BY <1>1, <1>2, <1>3 DEF PlaceInv
<1>5. ReadInv'
  BY <1>1 DEF ReadInv, Matches, Told
<1>6. WroteInv'
  BY <1>1, <1>2 DEF WroteInv, Acted, Written, Told, Reached
<1> QED
  BY <1>4, <1>5, <1>6

(* What is served is the request in hand.                                  *)
LEMMA TakesLeaves ==
    ASSUME HttpInv, NEW acts \in BOOLEAN, NEW shows \in BOOLEAN, Takes(acts, shows)
    PROVE  /\ Head(inbox).req = req /\ phase \notin {"none", "ok"}
           /\ UNCHANGED <<req, phase, up>>
           /\ ~acts => served' = served
           /\ \/ UNCHANGED <<reply, fit>>
              \/ fit' \in {shows, FALSE}
BY HeadIs DEF Takes, MaySee

LEMMA ServesKeeps ==
    ASSUME HttpInv, DriverTypeOK, PlaceInv, ReadInv, WroteInv, Serves
    PROVE  PlaceInv' /\ ReadInv' /\ WroteInv'
<1> DEFINE r == Head(inbox).req
           shows == Shows(r)
<1>1. shows \in BOOLEAN
  BY DEF Shows, Matches
<1>2. /\ r \notin {"restart", "off"} /\ Takes(TRUE, shows)
      /\ holds' = holds \cup Written(r) /\ entry' = EntryAfter(r)
      /\ UNCHANGED <<call, pos, result, odd>>
  BY DEF Serves
<1>3. r = req
  BY <1>1, <1>2, TakesLeaves
<1> HIDE DEF r, shows
<1>4. /\ phase \notin {"none", "ok"} /\ UNCHANGED <<req, phase, up>>
      /\ UNCHANGED <<reply, fit>> \/ fit' \in {shows, FALSE}
  BY <1>1, <1>2, TakesLeaves
<1>5. Script(call)' = Script(call)
  BY <1>2 DEF Script
<1>6. PlaceInv'
  BY <1>2, <1>4, <1>5 DEF PlaceInv
<1>7. ReadInv'
  <2>1. ASSUME req \in {"verify", "settings"}
        PROVE  (shows = TRUE => Matches) /\ (Matches => Matches')
    <3>1. holds' = holds /\ entry' = entry /\ call' = call
      BY <1>2, <1>3, <2>1 DEF Written, Carries, EntryAfter
    <3>2. shows = TRUE => Matches
      BY <1>3, <2>1 DEF Shows, shows
    <3> QED
      BY <3>1, <3>2 DEF Matches, Told
  <2>2. ASSUME req \in {"verify", "settings"}, pos > 0, reply' # "none", fit'
        PROVE  Matches
    <3>1. CASE UNCHANGED <<reply, fit>>
      BY <2>2, <3>1 DEF ReadInv
    <3>2. CASE fit' \in {shows, FALSE}
      <4>1. fit' # FALSE
        BY <2>2
      <4>2. fit' = shows
        BY <3>2, <4>1
      <4>3. shows = TRUE
        BY <1>1, <2>2, <4>2
      <4> QED
        BY <2>1, <2>2, <4>3
    <3> QED
      BY <1>4, <3>1, <3>2
  <2>3. pos > 0 /\ req \in {"verify", "settings"} /\ reply' # "none" /\ fit' => Matches'
    BY <2>1, <2>2
  <2>4. req' = req /\ phase' = phase /\ pos' = pos /\ phase # "ok" /\ req \notin {"restart", "off"}
    BY <1>2, <1>3, <1>4
  <2> QED
    BY <2>3, <2>4 DEF ReadInv
<1>8. WroteInv'
  <2>1. entry' \in {"absent", "asked", entry} /\ holds \subseteq holds'
    BY <1>2 DEF EntryAfter
  <2>2. ASSUME req = "remove"
        PROVE  odd = "network" \/ entry' = "absent"
    BY <1>2, <1>3, <2>2 DEF EntryAfter
  <2>3. ASSUME req = "put"
        PROVE  odd = "network" \/ entry' = "asked" \/ ~call.key
    BY <1>2, <1>3, <2>3 DEF EntryAfter
  <2>4. ASSUME NEW i \in 1..Len(Script(call)), Acted(i)'
        PROVE  Written(Script(call)[i]) \subseteq holds'
    <3>1. CASE Acted(i)
      BY <2>1, <2>4, <3>1 DEF WroteInv
    <3>2. CASE ~Acted(i)
      <4>1. i = pos /\ pos > 0
        BY <1>2, <2>4, <3>2 DEF Acted, DriverTypeOK
      <4>2. Script(call)[i] = r
        BY <1>3, <4>1 DEF PlaceInv
      <4> QED
        BY <1>2, <4>2
    <3> QED
      BY <3>1, <3>2
  <2>5. ASSUME NEW i \in 1..Len(Script(call)')
        PROVE  Written(Script(call)[i])' = Written(Script(call)[i])
    BY <1>2, <1>5 DEF Written, Told
  <2> QED
    BY <1>2, <1>4, <1>5, <2>1, <2>2, <2>3, <2>4, <2>5 DEF WroteInv, Reached
<1> QED
  BY <1>6, <1>7, <1>8

LEMMA RefusesKeeps ==
    ASSUME HttpInv, PlaceInv, ReadInv, WroteInv, Refuses
    PROVE  PlaceInv' /\ ReadInv' /\ WroteInv'
<1>1. Takes(FALSE, FALSE) /\ UNCHANGED driverVars
  BY DEF Refuses
<1>2. /\ phase \notin {"none", "ok"} /\ UNCHANGED <<req, phase, up, served>>
      /\ UNCHANGED <<reply, fit>> \/ fit' = FALSE
  BY <1>1, TakesLeaves
<1>3. Script(call)' = Script(call)
  BY <1>1 DEF driverVars, Script
<1>4. PlaceInv'
  BY <1>1, <1>2, <1>3 DEF PlaceInv, driverVars
<1>5. ReadInv'
  BY <1>1, <1>2 DEF ReadInv, Matches, Told, driverVars
<1>6. WroteInv'
  BY <1>1, <1>2, <1>3 DEF WroteInv, Acted, Written, Told, Reached, driverVars
<1> QED
  BY <1>4, <1>5, <1>6

(* The device leaves at the last request.                                  *)
LEMMA LeavesKeeps ==
    ASSUME HttpInv, DriverTypeOK, PlaceInv, ReadInv, WroteInv, Leaves
    PROVE  PlaceInv' /\ ReadInv' /\ WroteInv'
<1>1. /\ inbox # <<>> /\ Head(inbox).req \in {"restart", "off", "image", "upload"}
      /\ UNCHANGED <<req, phase>> /\ UNCHANGED driverVars
  BY DEF Leaves, TakesAndLeaves
<1>2. req \in {"restart", "off", "image", "upload"} /\ phase \notin {"none", "ok"}
  BY <1>1, HeadIs
<1>3. Script(call)' = Script(call)
  BY <1>1 DEF driverVars, Script
<1>4. PlaceInv'
  BY <1>1, <1>2, <1>3 DEF PlaceInv, driverVars, DriverTypeOK
<1>5. ReadInv'
  BY <1>1, <1>2 DEF ReadInv, Matches, Told, driverVars
<1>6. WroteInv'
  <2>1. UNCHANGED <<call, pos, holds, entry, odd, req>>
    BY <1>1 DEF driverVars
  <2>2. ASSUME NEW i \in 1..Len(Script(call)), Acted(i)'
        PROVE  Written(Script(call)[i]) \subseteq holds
    <3>1. CASE Acted(i)
      BY <2>2, <3>1 DEF WroteInv
    <3>2. CASE ~Acted(i)
      <4>1. i = pos /\ pos > 0
        BY <2>1, <2>2, <3>2 DEF Acted, DriverTypeOK
      <4>2. Script(call)[i] = req
        BY <4>1 DEF PlaceInv
      <4>3. Written(req) = {}
        BY <1>2 DEF Written, Carries
      <4> QED
        BY <4>2, <4>3
    <3> QED
      BY <3>1, <3>2
  <2>3. ASSUME NEW i \in 1..Len(Script(call)')
        PROVE  Written(Script(call)[i])' = Written(Script(call)[i])
    BY <1>3, <2>1 DEF Written, Told
  <2> QED
    BY <1>2, <1>3, <2>1, <2>2, <2>3 DEF WroteInv, Reached
<1> QED
  BY <1>4, <1>5, <1>6

LEMMA CallIsFixed ==
    ASSUME [Next]_vars
    PROVE  UNCHANGED call
BY DEF Next, vars, driverVars, Starts, NeverStarts, CancelledBefore, CancelAsked, PassesOn, Http,
       Proceeds, Returns, Device, DeviceNext, Serves, Refuses, Leaves, Flash, FlashEnds, Dispatch,
       Station, Settles

LEMMA DriverPartsKept ==
    ASSUME HttpInv, DriverTypeOK, PlaceInv, ReadInv, WroteInv, [Next]_vars
    PROVE  PlaceInv' /\ ReadInv' /\ WroteInv'
<1>1. CASE Http
  <2>1. CASE Proceeds
    BY <2>1, ProceedsKeeps
  <2>2. CASE Returns
    BY <2>2, ReturnsKeeps
  <2>3. CASE ClientNext /\ UNCHANGED driverVars
    BY <2>3, ClientStepKeeps
  <2> QED
    BY <1>1, <2>1, <2>2, <2>3 DEF Http
<1>2. CASE Device
  BY <1>2, ServesKeeps, RefusesKeeps, LeavesKeeps DEF Device, DeviceNext
<1>3. CASE PassesOn
  BY <1>3, QuietKeeps DEF PassesOn, Raised
<1>4. CASE Starts \/ NeverStarts \/ CancelledBefore \/ CancelAsked \/ Flash \/ FlashEnds
           \/ Dispatch \/ Station \/ Settles \/ UNCHANGED vars
  <2>1. UNCHANGED httpVars /\ UNCHANGED driverVars
    BY <1>4 DEF Starts, NeverStarts, CancelledBefore, CancelAsked, Flash, FlashEnds, Dispatch,
                Station, Settles, vars
  <2> QED
    BY <2>1, QuietKeeps DEF httpVars
<1> QED
  BY <1>1, <1>2, <1>3, <1>4 DEF Next

(* A job is settled by what came of its own call.                          *)
LEMMA EndKept ==
    ASSUME EndInv, [Next]_vars
    PROVE  EndInv'
<1>1. Way(call)' = Way(call) /\ Way(call) \in {"http", "usb", "z21"}
  BY CallIsFixed DEF Way
<1>2. CASE Starts \/ NeverStarts \/ CancelledBefore \/ CancelAsked \/ PassesOn
  BY <1>1, <1>2 DEF Starts, NeverStarts, CancelledBefore, CancelAsked, PassesOn, EndInv,
                    driverVars, usbVars, z21Vars, jobVars
<1>3. CASE Http
  BY <1>1, <1>3 DEF Http, EndInv, usbVars, z21Vars, jobVars
<1>4. CASE Device
  <2>1. UNCHANGED <<result, job, usb, child, z21>>
    BY <1>4 DEF Device, DeviceNext, Serves, Refuses, Leaves, driverVars, usbVars, z21Vars, jobVars
  <2> QED
    BY <1>1, <2>1 DEF EndInv
<1>5. CASE Flash
  <2>1. /\ job = "usb" /\ UNCHANGED <<result, job, z21>>
        /\ usb' = "ok" => child' = "good"
    BY <1>5 DEF Flash, EndInv, driverVars, z21Vars, jobVars, Usb!RefusesImage, Usb!Spawns,
                Usb!SeesExit, Usb!SeesDeadline, Usb!SeesCancel, Usb!Kills
  <2> QED
    BY <1>1, <2>1 DEF EndInv
<1>6. CASE FlashEnds
  BY <1>1, <1>6 DEF FlashEnds, Usb!ChildEnds, EndInv, driverVars, z21Vars, jobVars
<1>7. CASE Dispatch \/ Station
  BY <1>1, <1>7 DEF Dispatch, Station, EndInv, driverVars, usbVars, jobVars
<1>8. CASE Settles
  <2>1. /\ UNCHANGED <<result, usb, child, z21>>
        /\ job' \in {"Done", "Failed", "Cancelled"}
        /\ job' = "Done" => Outcome = "ok"
    BY <1>8 DEF Settles, driverVars, usbVars, z21Vars
  <2>2. ASSUME Outcome = "ok"
        PROVE  CASE Way(call) = "http" -> result = "ok"
                 [] Way(call) = "usb" -> usb = "ok"
                 [] Way(call) = "z21" -> z21 \in {"slot", "noAck"}
    BY <1>1, <2>2 DEF Outcome, EndInv
  <2> QED
    BY <1>1, <2>1, <2>2 DEF EndInv
<1>9. CASE UNCHANGED vars
  BY <1>1, <1>9 DEF vars, driverVars, usbVars, z21Vars, jobVars, EndInv
<1> QED
  BY <1>2, <1>3, <1>4, <1>5, <1>6, <1>7, <1>8, <1>9 DEF Next

LEMMA DoneInit == Init => DoneInv
<1> SUFFICES ASSUME Init PROVE DoneInv
  OBVIOUS
<1>1. PlaceInv
  BY DEF Init, HttpInit, DriverInit, PlaceInv
<1>2. ReadInv
  BY DEF Init, HttpInit, DriverInit, ReadInv
<1>4. WroteInv
  <2>1. pos = 0 /\ served = 0
    BY DEF Init, HttpInit, DriverInit
  <2>2. ASSUME NEW i \in 1..Len(Script(call))
        PROVE  ~Acted(i)
    <3>1. i > 0
      OBVIOUS
    <3> QED
      BY <2>1, <3>1 DEF Acted
  <2> QED
    BY <2>1, <2>2 DEF WroteInv, Reached
<1>3. EndInv
  BY DEF Init, Usb!UsbInit, EndInv
<1> QED
  BY <1>1, <1>2, <1>3, <1>4, DeviceInit DEF DoneInv

(* The driver keeps to its script, what it compared is still as asked when *)
(* the device is let go, and whatever it told the device before was taken, *)
(* unless the device is deaf to it (wifred/mod.rs, longfred/mod.rs         *)
(* program).                                                               *)
THEOREM DoneInvariant == Spec => []DoneInv
<1>1. DoneInv /\ [Next]_vars => DoneInv'
  BY StepIsHttpStep, HttpStepKeeps, DriverKept, FlashKept, StationKept, JobKept,
     DriverPartsKept, EndKept DEF DoneInv, DeviceInv
<1> QED
  BY DoneInit, <1>1, PTL DEF Spec

-----------------------------------------------------------------------------
(* Theorems                                                                *)

(* A device that is let go, or about to be, is as asked.                   *)
LEMMA LetGoMeansAsAsked ==
    ASSUME DoneInv, pos > 0, req \in {"restart", "off"}
    PROVE  AsAsked
<1>1. call \in Calls /\ pos \in 0..Len(Script(call)) /\ entry \in Entries
  BY DEF DoneInv, DeviceInv, DriverTypeOK
<1>2. Script(call) \in Seq(Requests)
  BY <1>1, CallAssumption
<1> DEFINE script == Script(call)
<1>3. Len(script) \in Nat
  BY <1>2
<1>4. pos \in 1..Len(script) /\ req = script[pos]
  BY <1>1, <1>3 DEF DoneInv, PlaceInv
<1>5. (req = "restart" => call.driver = "wifred") /\ (req = "off" => call.driver = "longfred")
  <2>1. ASSUME req = "restart"
        PROVE  call.driver = "wifred"
    BY <1>1, <1>4, <2>1, ScriptFacts
  <2>2. ASSUME req = "off"
        PROVE  call.driver = "longfred"
    BY <1>1, <1>4, <2>2, ScriptFacts
  <2> QED
    BY <2>1, <2>2
<1> HIDE DEF script
<1>6. Matches
  BY DEF DoneInv, ReadInv
<1>7. entry = "asked" \/ entry = "stale"
  BY <1>1, <1>6 DEF Matches, Entries
<1>8. entry = "stale" => odd = "network" \/ (call.driver = "longfred" /\ ~call.key)
  BY <1>5 DEF DoneInv, WroteInv, Reached
<1>9. pos = Len(Script(call))
  BY <1>1, <1>4, ScriptFacts DEF script
<1>10. ASSUME NEW f \in Told(call), f \notin holds
      PROVE  f = odd
  <2>1. PICK i \in 1..Len(Script(call)) :
           i < Len(Script(call)) /\ f \in Carries(Script(call)[i])
    BY <1>1, ToldInScript
  <2>2. Acted(i)
    BY <1>9, <2>1 DEF Acted
  <2>3. Written(Script(call)[i]) \subseteq holds
    BY <2>2 DEF DoneInv, WroteInv
  <2> QED
    BY <1>10, <2>1, <2>3 DEF Written
<1> QED
  BY <1>6, <1>7, <1>8, <1>10 DEF AsAsked, Matches

(* A device leaves its Soft-AP only once every setting it is told has been *)
(* taken, those the driver compares for certain and the others unless the  *)
(* device is deaf to them, whatever is lost, repeated or cancelled on the  *)
(* way.  Of a flag that is to be put off, and of all else it is not told,  *)
(* this says nothing.                                                      *)
THEOREM LeavesOnlyAsAsked == Spec => []NeverLeavesHalfProgrammed
<1>1. DoneInv => NeverLeavesHalfProgrammed
  <2> SUFFICES ASSUME DoneInv, ~up, call.op = "program"
               PROVE  AsAsked
    BY DEF NeverLeavesHalfProgrammed
  <2>1. pos > 0 /\ req \in {"restart", "off", "image", "upload"} /\ req = Script(call)[pos]
    BY DEF DoneInv, PlaceInv
  <2>2. call \in Calls /\ pos \in 0..Len(Script(call))
    BY DEF DoneInv, DeviceInv, DriverTypeOK
  <2>3. pos \in 1..Len(Script(call))
    BY <2>1, <2>2
  <2>4. req \notin {"image", "upload"}
    BY <2>1, <2>2, <2>3, ScriptFacts
  <2> QED
    BY <2>1, <2>4, LetGoMeansAsAsked
<1> QED
  BY <1>1, DoneInvariant, PTL

(* A job is Done only when the device has taken each setting it was told,  *)
(* those the driver compares for certain and the others unless it is deaf  *)
(* to them, or has taken the image; espflash has ended well; or the        *)
(* station has dispatched the locomotive or does not say.                  *)
THEOREM DoneIsTrue == Spec => []DoneMeansHeld
<1>1. DoneInv => SuccessIsHeld
  <2> SUFFICES ASSUME DoneInv, result = "ok"
               PROVE  IF call.op = "program"
                      THEN AsAsked ELSE served > 0
    BY DEF SuccessIsHeld
  <2>1. pos > 0 /\ phase = "ok" /\ pos = Len(Script(call)) /\ req = Script(call)[pos]
    BY DEF DoneInv, PlaceInv
  <2>2. served > 0
    BY <2>1 DEF DoneInv, DeviceInv, HttpInv, ReplyInv
  <2>3. ASSUME call.op = "program"
        PROVE  req \in {"restart", "off"}
    <3>1. call \in Calls /\ pos \in 0..Len(Script(call))
      BY DEF DoneInv, DeviceInv, DriverTypeOK
    <3>2. pos \in 1..Len(Script(call))
      BY <2>1, <3>1
    <3>3. Script(call)[pos] \in {"restart", "off", "image", "upload"}
      BY <2>1, <3>1, <3>2, ScriptFacts
    <3>4. Script(call)[pos] \notin {"image", "upload"}
      BY <2>3, <3>1, <3>2, ScriptFacts
    <3> QED
      BY <2>1, <3>3, <3>4
  <2> QED
    BY <2>1, <2>2, <2>3, LetGoMeansAsAsked
<1>2. DoneInv => DoneMeansHeld
  <2> SUFFICES ASSUME DoneInv, job = "Done"
               PROVE  CASE Way(call) = "http" -> result = "ok"
                        [] Way(call) = "usb" -> child = "good"
                        [] Way(call) = "z21" -> dispatched \/ (z21 = "noAck" /\ answered)
    BY <1>1 DEF DoneMeansHeld
  <2>1. Way(call) \in {"http", "usb", "z21"}
    BY DEF Way
  <2>2. (z21 = "slot" => dispatched) /\ (z21 = "noAck" => answered)
    BY DEF DoneInv, DeviceInv, StationInv, DispatchIsTrue
  <2> QED
    BY <2>1, <2>2 DEF DoneInv, EndInv
<1> QED
  BY <1>2, DoneInvariant, PTL

=============================================================================
