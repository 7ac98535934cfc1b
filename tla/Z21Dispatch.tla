------------------------------ MODULE Z21Dispatch ------------------------------
(***************************************************************************)
(* Handing a locomotive to a FRED through a Z21 (crates/wp-link/src/z21.rs *)
(* dispatch_addr): a serial number probe with its window, then the         *)
(* dispatch request with its window, over UDP.  Datagrams are lost,        *)
(* duplicated, overtaken and late; the station also sends what other       *)
(* clients are told.                                                       *)
(***************************************************************************)

CONSTANT Stations       \* the kinds of command station considered

(* new and old: firmware from 1.22 on, and before, which does not answer a *)
(* dispatch; slave: refuses every one; plain: knows no LocoNet; away: not  *)
(* there.                                                                  *)
StationKinds == {"new", "old", "slave", "plain", "away"}

VARIABLES
    z21,            \* where the client is
    station,        \* the command station
    toStation,      \* datagrams on their way to it
    toClient,       \* and back
    alive,          \* the client has seen a serial number
    dispatched,     \* history: the station has put the locomotive in a slot
    answered,       \* history: the station has answered the probe
    loggedOff       \* history: the client has logged off

Queries == {"serial", "dispatch"}

(* unknown: LAN_X_UNKNOWN_COMMAND; slot and zero: DISPATCH_ADDR for the    *)
(* locomotive asked for, with a slot or with 0; other: for another one.    *)
Replies == {"serial", "slot", "zero", "other", "unknown"}

Results == {"slot", "noAck", "rejected", "unknownCommand", "unreachable", "io"}

Z21TypeOK ==
    /\ z21 \in {"idle", "serial", "dispatch"} \cup Results
    /\ station \in Stations
    /\ toStation \subseteq Queries
    /\ toClient \subseteq Replies
    /\ alive \in BOOLEAN /\ dispatched \in BOOLEAN
    /\ answered \in BOOLEAN /\ loggedOff \in BOOLEAN

Z21Init ==
    /\ z21 = "idle"
    /\ station \in Stations
    /\ toStation = {}
    /\ toClient = {}
    /\ alive = FALSE
    /\ dispatched = FALSE
    /\ answered = FALSE
    /\ loggedOff = FALSE

-----------------------------------------------------------------------------
(* The client.  A datagram that arrives may arrive again.                  *)

Arrives(m) == m \in toClient /\ toClient' \in {toClient, toClient \ {m}}

(* The socket is new; the result of sending is not looked at.              *)
SendsProbe ==
    /\ z21 = "idle"
    /\ z21' = "serial"
    /\ toStation' = {"serial"}
    /\ UNCHANGED <<station, toClient, alive, dispatched, answered, loggedOff>>

(* Every end but a socket error is told to the station.                    *)
Over(result) ==
    /\ z21' = result
    /\ loggedOff' = (result # "io")
    /\ UNCHANGED <<station, toStation, alive, dispatched, answered>>

SendsDispatch ==
    /\ z21' = "dispatch"
    /\ toStation' = toStation \cup {"dispatch"}
    /\ UNCHANGED <<station, dispatched, answered, loggedOff>>

SeesSerial ==
    /\ z21 = "serial"
    /\ Arrives("serial")
    /\ alive' = TRUE
    /\ SendsDispatch

SerialWindowCloses ==
    /\ z21 = "serial"
    /\ UNCHANGED <<alive, toClient>>
    /\ SendsDispatch

SeesUnknown ==
    /\ z21 \in {"serial", "dispatch"}
    /\ Arrives("unknown")
    /\ Over("unknownCommand")

(* A reply for another locomotive, or of no interest in this window.       *)
BugOurs == {"slot", "other"}            \* the locomotive is not compared
Ours == {"slot"}

Ignored ==
    IF z21 = "serial" THEN {"slot", "zero", "other"} ELSE {"serial", "other"} \ Ours

Ignores ==
    /\ z21 \in {"serial", "dispatch"}
    /\ \E m \in Ignored \cap toClient : toClient' = toClient \ {m}
    /\ UNCHANGED <<z21, station, toStation, alive, dispatched, answered, loggedOff>>

SeesSlot ==
    /\ z21 = "dispatch"
    /\ \E m \in Ours : Arrives(m)
    /\ Over("slot")

SeesRejection ==
    /\ z21 = "dispatch"
    /\ Arrives("zero")
    /\ Over("rejected")

DispatchWindowCloses ==
    /\ z21 = "dispatch"
    /\ UNCHANGED toClient
    /\ Over(IF alive THEN "noAck" ELSE "unreachable")

SocketFails ==
    /\ z21 \in {"idle", "serial", "dispatch"}
    /\ UNCHANGED toClient
    /\ Over("io")

Client ==
    \/ SendsProbe \/ SeesSerial \/ SerialWindowCloses \/ SeesUnknown \/ Ignores
    \/ SeesSlot \/ SeesRejection \/ DispatchWindowCloses \/ SocketFails

-----------------------------------------------------------------------------
(* The station and the way to it.                                          *)

(* A dispatch that arrives again finds the slot busy, or taken over anew.  *)
ReplyTo(m) ==
    CASE m = "serial" -> {{"serial"}}
      [] m = "dispatch" /\ station = "new" -> {{"slot"}, {"zero"}}
      [] m = "dispatch" /\ station = "slave" -> {{"zero"}}
      [] m = "dispatch" /\ station = "plain" -> {{"unknown"}}
      [] OTHER -> {{}}

StationAnswers(m) ==
    /\ station # "away"
    /\ m \in toStation
    /\ toStation' \in {toStation, toStation \ {m}}
    /\ \E answer \in ReplyTo(m) :
        /\ toClient' = toClient \cup answer
        /\ dispatched' = (dispatched \/ answer = {"slot"} \/ (m = "dispatch" /\ station = "old"))
        /\ answered' = (answered \/ m = "serial")
    /\ UNCHANGED <<z21, station, alive, loggedOff>>

Lost ==
    /\ \/ \E m \in toStation : toStation' = toStation \ {m} /\ UNCHANGED toClient
       \/ \E m \in toClient : toClient' = toClient \ {m} /\ UNCHANGED toStation
    /\ UNCHANGED <<z21, station, alive, dispatched, answered, loggedOff>>

(* Another client of the station has a locomotive dispatched.              *)
OtherReply ==
    /\ station = "new"
    /\ z21 \in {"serial", "dispatch"}
    /\ toClient' = toClient \cup {"other"}
    /\ UNCHANGED <<z21, station, toStation, alive, dispatched, answered, loggedOff>>

=============================================================================
