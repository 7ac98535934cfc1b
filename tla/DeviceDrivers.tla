----------------------------- MODULE DeviceDrivers -----------------------------
(***************************************************************************)
(* The device drivers (crates/wp-drivers): the requests each one makes, in *)
(* their order, and what a WiFred, a LongFred and a RailBOX do with them   *)
(* (crates/wp-fake and the drivers' own expectations).                     *)
(*                                                                         *)
(* A setting is as it was or as it was asked for; a device may be deaf to  *)
(* one of them: it answers and changes nothing.  The network entry for the *)
(* SSID asked for may be absent, or there with another key.                *)
(*                                                                         *)
(* Not all that a request speaks of is told to the device, and not all     *)
(* that is told is compared when the device is read back: Told and         *)
(* Compared have what is.                                                  *)
(***************************************************************************)
EXTENDS HttpRequest

CONSTANT Calls          \* the driver calls considered

Drivers == {"wifred", "longfred", "rb23xx", "fred"}
Modes == {"ap", "lan", "usb", "z21"}
Images == [header : {"elf", "e9", "other"},
           name : {"app.bin", "bin", "other"},
           size : {"empty", "small", "large", "huge"}]  \* small: up to OTA0_OFFSET
NoImage == [header |-> "none", name |-> "none", size |-> "none"]

(* drive: the speed steps and the direction of a locomotive; server: name  *)
(* and port; login, pin: the BigFred credentials.  A flag is on or off.    *)
Fields == {"identity", "address", "drive", "long", "functions",
           "server", "automatic", "login", "pin", "rosterMode"}
Flags == {"long", "automatic"}
LocoFields == {"address", "drive", "long", "functions"}

(* key: a key is given with the SSID; asks: the settings the request       *)
(* speaks of; off: the flags among them that are to be off.                *)
CallType == [driver : Drivers, op : {"program", "updateFirmware"}, mode : Modes,
             key : BOOLEAN, asks : SUBSET Fields, off : SUBSET Flags,
             image : Images \cup {NoImage}]

Entries == {"absent", "stale", "asked"}

VARIABLES
    call,           \* the call
    pos,            \* how many requests of its script have been made
    result,         \* what the driver has returned
    holds,          \* the device's settings: those that are as asked
    entry,          \* its network entry for the SSID asked for
    odd             \* what is wrong with the device

driverVars == <<call, pos, result, holds, entry, odd>>

-----------------------------------------------------------------------------
(* The drivers                                                             *)

(* WiFredDriver::program: the stale network entry goes before the new one  *)
(* comes, and the restart is last.                                         *)
BugForgetsRemove(c) ==                  \* the entry is added over the old one
    IF c.driver = "wifred" /\ c.op = "program"
    THEN <<"read", "identity", "loco", "functions", "server", "wifi", "verify", "restart">>
    ELSE <<>>
BugRestartsFirst(c) ==                  \* verified after the restart
    IF c.driver = "wifred" /\ c.op = "program"
    THEN <<"read", "identity", "loco", "server", "remove", "wifi", "restart", "verify">>
    ELSE <<>>
Script(c) ==
    CASE c.op = "program" /\ c.driver = "wifred" ->
            IF "address" \notin c.asks          \* an empty roster
            THEN <<"read", "identity", "server", "remove", "wifi", "verify", "restart">>
            ELSE IF "functions" \notin c.asks
            THEN <<"read", "identity", "loco", "server", "remove", "wifi", "verify", "restart">>
            ELSE <<"read", "identity", "loco", "functions",
                   "server", "remove", "wifi", "verify", "restart">>
      [] c.op = "program" /\ c.driver = "longfred" -> <<"put", "settings", "off">>
      [] c.op = "updateFirmware" /\ c.driver = "longfred" -> <<"image">>
      [] c.op = "updateFirmware" /\ c.driver = "rb23xx" -> <<"upload">>
      [] OTHER -> <<>>                  \* refused without a request

(* The settings a driver tells the device: a WiFred is told a flag only to *)
(* put it on, a LongFred no server, and with the address whether it is     *)
(* long (build_settings_put).                                              *)
Told(c) ==
    CASE c.op = "program" /\ c.driver = "wifred" ->
            (c.asks \cap (LocoFields \cup {"identity", "server", "automatic"})) \ c.off
      [] c.op = "program" /\ c.driver = "longfred" ->
            c.asks \cap {"identity", "address", "login", "pin", "rosterMode"}
      [] OTHER -> {}

(* And those that verify of either driver looks at in the answer.          *)
Compared == {"identity", "address", "server", "login", "rosterMode"}

(* What is asked of a locomotive comes with its address, and a WiFred has  *)
(* an identity and a server always (validate_common).                      *)
ASSUME CallAssumption ==
    /\ Calls \subseteq CallType
    /\ \A c \in Calls :
           /\ c.off \subseteq c.asks
           /\ c.asks \cap LocoFields # {} => "address" \in c.asks
           /\ c.op = "program" /\ c.driver = "wifred" => {"identity", "server"} \subseteq c.asks
           /\ Script(c) \in Seq(Requests)

Reads == {"read", "verify", "settings"}

DriverTypeOK ==
    /\ call \in Calls
    /\ pos \in 0..Len(Script(call))
    /\ result \in {"none", "ok", "err", "cancelled"}
    /\ holds \subseteq Fields
    /\ entry \in Entries
    /\ odd \in Fields \cup {"nothing", "network", "version"}

(* A flag may be as asked before, the other settings are not.              *)
DriverInit ==
    /\ call \in Calls
    /\ pos = 0
    /\ result = "none"
    /\ holds \in SUBSET (Flags \cap call.asks)
    /\ entry \in {"absent", "stale"}
    /\ odd \in Told(call) \cup {"nothing", "network", "version"}
    /\ call.op # "program" => entry = "absent" /\ odd = "nothing"     \* it has no say

(* A read is of use when the structure version is known, or all that is    *)
(* compared is as asked; any other answer is not looked into.              *)
Understood == req \in Reads => fit

Proceeds ==
    /\ result = "none"
    /\ pos = 0 \/ (phase = "ok" /\ Understood)
    /\ pos < Len(Script(call))
    /\ Ask(Script(call)[pos + 1])
    /\ pos' = pos + 1
    /\ UNCHANGED <<call, result, holds, entry, odd>>

(* A driver that does not support the operation returns at once.  The      *)
(* interruption of an upload is told apart, that of a programming is an    *)
(* HTTP error.                                                             *)
Verdict ==
    IF pos = 0 THEN "err"
    ELSE IF phase = "ok" /\ Understood THEN "ok"
    ELSE IF phase = "interrupted" /\ call.op = "updateFirmware" THEN "cancelled" ELSE "err"

Returns ==
    /\ result = "none"
    /\ \/ Script(call) = <<>>
       \/ phase \in {"failed", "interrupted"}
       \/ phase = "ok" /\ (pos = Len(Script(call)) \/ ~Understood)
    /\ result' = Verdict
    /\ UNCHANGED <<call, pos, holds, entry, odd, httpVars>>

-----------------------------------------------------------------------------
(* The devices                                                             *)

(* The settings a request has room for, and those it writes (apply_query,  *)
(* apply_put): what is not in it stays as it was.                          *)
Carries(r) ==
    CASE r = "identity" -> {"identity"}
      [] r = "loco" -> {"address", "drive", "long"}
      [] r = "functions" -> {"functions"}
      [] r = "server" -> {"server", "automatic"}
      [] r = "put" -> {"identity", "address", "login", "pin", "rosterMode"}
      [] OTHER -> {}

Written(r) == (Carries(r) \cap Told(call)) \ {odd}

(* The entry after it.  Adding an entry that is there replaces its key by  *)
(* the one given, if one is (upsert_network, apply_put).                   *)
EntryAfter(r) ==
    CASE odd = "network" -> entry
      [] r = "remove" -> "absent"
      [] r \in {"wifi", "put"} -> IF call.key \/ entry = "absent" THEN "asked" ELSE entry
      [] OTHER -> entry

(* verify of either driver: what it compares of what was told is as asked, *)
(* and there is an entry for the SSID, whatever its key.                   *)
Matches == Compared \cap Told(call) \subseteq holds /\ entry # "absent"

(* check_structure_version, of the first answer of a WiFred                *)
Shows(r) ==
    CASE r = "read" -> odd # "version"
      [] OTHER -> Matches

Serves ==
    /\ inbox # <<>>
    /\ LET r == Head(inbox).req IN
       /\ r \notin {"restart", "off"}
       /\ Takes(TRUE, Shows(r))
       /\ holds' = holds \cup Written(r)
       /\ entry' = EntryAfter(r)
    /\ UNCHANGED <<call, pos, result, odd>>

(* An error status, a connection dropped, a request never looked at.       *)
Refuses ==
    /\ Takes(FALSE, FALSE)
    /\ UNCHANGED driverVars

(* Restarted, or told to leave programming mode; or new firmware starts.   *)
Leaves ==
    /\ inbox # <<>>
    /\ Head(inbox).req \in {"restart", "off", "image", "upload"}
    /\ TakesAndLeaves(FALSE)
    /\ UNCHANGED driverVars

DeviceNext == Serves \/ Refuses \/ Leaves

-----------------------------------------------------------------------------
(* Properties                                                              *)

(* What is known of a device that has been programmed.  What the driver    *)
(* told it and compares is as asked.  The rest of what it was told is so   *)
(* too - drive, flags put on, functions, PIN, key of the network - unless  *)
(* the device is deaf to it; a LongFred that was given no key keeps the    *)
(* one it had.  Of what it was not told, such as a flag to be put off,     *)
(* nothing is known.                                                       *)
AsAsked ==
    /\ Compared \cap Told(call) \subseteq holds
    /\ Told(call) \ holds \subseteq {odd}
    /\ \/ entry = "asked"
       \/ entry = "stale" /\ (odd = "network" \/ (call.driver = "longfred" /\ ~call.key))

(* The driver reports success of a programming only when each setting it   *)
(* told the device has been taken: for certain if it compares it, unless   *)
(* the device is deaf to it if it does not; and of an update only when the *)
(* image has been taken (wifred/mod.rs program, longfred/mod.rs program,   *)
(* update_firmware).                                                       *)
SuccessIsHeld ==
    result = "ok" => IF call.op = "program" THEN AsAsked ELSE served > 0

(* A device leaves its Soft-AP only once every setting it is told has been *)
(* sent and taken, and those the driver compares have been read back;      *)
(* nothing is written to it after that, whatever is lost, repeated or      *)
(* cancelled on the way (wifred/mod.rs: the write order is load-bearing;   *)
(* longfred/mod.rs program).                                               *)
NeverLeavesHalfProgrammed == ~up /\ call.op = "program" => AsAsked

=============================================================================
