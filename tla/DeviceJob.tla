------------------------------- MODULE DeviceJob -------------------------------
(***************************************************************************)
(* The part of a job that talks to the device, from the moment the worker  *)
(* has the radio ready, or needs none, to the state the job ends in        *)
(* (crates/wireless-programmer/src/runtime.rs run_program_job,             *)
(* run_firmware_job, run_fred_program_job): the driver and the HTTP        *)
(* client, espflash, or the Z21 dispatch, with the cancel that a client of *)
(* the daemon may send at any time and the watch that passes it on.        *)
(***************************************************************************)
EXTENDS DeviceDrivers

CONSTANT Stations

VARIABLES
    job,            \* the job's state
    asked,          \* its cancel flag in the registry
    usb, child, why,
    z21, station, toStation, toClient, alive, dispatched, answered, loggedOff

Usb == INSTANCE UsbFlash
Z21 == INSTANCE Z21Dispatch

ASSUME StationAssumption == Stations \subseteq Z21!StationKinds

jobVars == <<job, asked>>
usbVars == <<usb, child, why>>
z21Vars == <<z21, station, toStation, toClient, alive, dispatched, answered, loggedOff>>
vars == <<httpVars, driverVars, jobVars, usbVars, z21Vars>>

Terminal == {"Done", "Failed", "Cancelled"}

TypeOK ==
    /\ HttpTypeOK
    /\ DriverTypeOK
    /\ Usb!UsbTypeOK
    /\ Z21!Z21TypeOK
    /\ job \in {"ready", "http", "usb", "z21"} \cup Terminal
    /\ asked \in BOOLEAN

Init ==
    /\ HttpInit
    /\ DriverInit
    /\ Usb!UsbInit
    /\ Z21!Z21Init
    /\ call.driver # "fred" => station = "away"         \* it has no say
    /\ call.driver = "fred" => entry = "absent" /\ odd = "nothing"
    /\ job = "ready"
    /\ asked = FALSE

-----------------------------------------------------------------------------
(* The firmware capabilities of a driver, and what run_firmware_job checks *)
(* before it goes anywhere.                                                *)
FirmwareModes(driver) ==
    CASE driver = "longfred" -> {"ap", "lan", "usb"}
      [] driver = "rb23xx" -> {"ap"}
      [] OTHER -> {}

ImageFits(c) ==
    \/ c.mode = "usb"
    \/ /\ c.image.size \notin {"empty", "huge"}
       /\ c.driver = "longfred" => Usb!Class(c.image) = "app"

Allowed(c) == c.op = "updateFirmware" => c.mode \in FirmwareModes(c.driver) /\ ImageFits(c)

Way(c) ==
    CASE c.driver = "fred" -> "z21"
      [] c.mode = "usb" -> "usb"
      [] OTHER -> "http"

Starts ==
    /\ job = "ready"
    /\ Allowed(call)
    /\ job' = Way(call)
    /\ UNCHANGED <<asked, httpVars, driverVars, usbVars, z21Vars>>

(* Not allowed; or no way to the device: no candidate, no address, no      *)
(* port, the Soft-AP cannot be joined or prepared.                         *)
NeverStarts ==
    /\ job = "ready"
    /\ job' = "Failed"
    /\ UNCHANGED <<asked, httpVars, driverVars, usbVars, z21Vars>>

(* A programming is not begun once cancelled; a firmware update is.        *)
CancelledBefore ==
    /\ job = "ready"
    /\ asked
    /\ call.op = "program"
    /\ job' = "Cancelled"
    /\ UNCHANGED <<asked, httpVars, driverVars, usbVars, z21Vars>>

(* job.cancel, accepted until the job is over.                             *)
CancelAsked ==
    /\ job \notin Terminal
    /\ ~asked
    /\ asked' = TRUE
    /\ UNCHANGED <<job, httpVars, driverVars, usbVars, z21Vars>>

(* spawn_cancel_watch for a programming, the heartbeat for firmware.  A    *)
(* dispatch is given no flag.                                              *)
PassesOn ==
    /\ job \in {"http", "usb"}
    /\ asked
    /\ Raised
    /\ UNCHANGED <<jobVars, driverVars, usbVars, z21Vars>>

-----------------------------------------------------------------------------
Http ==
    /\ job = "http"
    /\ \/ Proceeds
       \/ Returns
       \/ ClientNext /\ UNCHANGED driverVars
    /\ UNCHANGED <<jobVars, usbVars, z21Vars>>

(* The device goes on after the job is over.                               *)
Device == DeviceNext /\ UNCHANGED <<jobVars, usbVars, z21Vars>>

Flash ==
    /\ job = "usb"
    /\ \/ Usb!RefusesImage \/ Usb!Spawns(call.image)
       \/ Usb!SeesExit \/ Usb!SeesDeadline \/ Usb!SeesCancel \/ Usb!Kills
    /\ UNCHANGED <<jobVars, httpVars, driverVars, z21Vars>>

FlashEnds == Usb!ChildEnds /\ UNCHANGED <<jobVars, httpVars, driverVars, z21Vars>>

Dispatch ==
    /\ job = "z21"
    /\ Z21!Client
    /\ UNCHANGED <<jobVars, httpVars, driverVars, usbVars>>

Station ==
    /\ job = "z21"
    /\ (\E m \in Z21!Queries : Z21!StationAnswers(m)) \/ Z21!Lost \/ Z21!OtherReply
    /\ UNCHANGED <<jobVars, httpVars, driverVars, usbVars>>

(* What has come of the call.                                              *)
Outcome ==
    CASE job = "http" -> result
      [] job = "usb" -> IF usb \in {"ok", "err", "cancelled"} THEN usb ELSE "none"
      [] job = "z21" -> IF z21 \in {"slot", "noAck"} THEN "ok"
                        ELSE IF z21 \in Z21!Results THEN "err" ELSE "none"
      [] OTHER -> "none"

(* The tail of run_program_job, finish_firmware_job.                       *)
Settles ==
    /\ Outcome # "none"
    /\ job' = IF asked \/ Outcome = "cancelled" THEN "Cancelled"
              ELSE IF Outcome = "ok" THEN "Done" ELSE "Failed"
    /\ UNCHANGED <<asked, httpVars, driverVars, usbVars, z21Vars>>

Next ==
    \/ Starts \/ NeverStarts \/ CancelledBefore \/ CancelAsked \/ PassesOn
    \/ Http \/ Device \/ Flash \/ FlashEnds \/ Dispatch \/ Station \/ Settles

(* The worker runs, and the deadlines of the client, of the child and of   *)
(* the two windows pass.  Nothing is assumed of the device, the station or *)
(* the child.                                                              *)
Fairness ==
    /\ WF_vars(Starts \/ NeverStarts) /\ WF_vars(Settles)
    /\ WF_vars(Http) /\ WF_vars(Flash)
    /\ WF_vars(job = "z21" /\ Z21!SendsProbe /\ UNCHANGED <<jobVars, httpVars, driverVars, usbVars>>)
    /\ WF_vars(job = "z21" /\ (Z21!SerialWindowCloses \/ Z21!DispatchWindowCloses)
                    /\ UNCHANGED <<jobVars, httpVars, driverVars, usbVars>>)

Spec == Init /\ [][Next]_vars /\ Fairness

-----------------------------------------------------------------------------
(* Properties                                                              *)

(* A job is Done only if what it was for has come about: the device holds  *)
(* what it was asked to (as far as SuccessIsHeld says), espflash ended     *)
(* well, or the station has put the locomotive in a slot or is one that    *)
(* does not say (runtime.rs run_program_job, finish_firmware_job).         *)
DoneMeansHeld ==
    /\ SuccessIsHeld
    /\ job = "Done" => CASE Way(call) = "http" -> result = "ok"
                         [] Way(call) = "usb" -> child = "good"
                         [] Way(call) = "z21" -> dispatched \/ (z21 = "noAck" /\ answered)

(* When the flash call is over no espflash is left running, whichever of   *)
(* its end, the deadline and a cancel came first; and a flash that was     *)
(* cancelled or timed out may still have been complete (espflash.rs        *)
(* run_espflash).                                                          *)
ChildGone == usb \in {"ok", "err", "cancelled"} => child # "running"

(* Whatever is lost, repeated, late or meant for another client: a slot is *)
(* reported only if the station gave one for this locomotive, noAck only   *)
(* if it answered, a rejection or an unknown command only by a station     *)
(* that says so, and the station is left logged off unless the socket      *)
(* failed (z21.rs dispatch_addr).                                          *)
DispatchIsTrue ==
    /\ z21 = "slot" => dispatched
    /\ z21 = "noAck" => answered
    /\ z21 = "rejected" => station \in {"new", "slave"}
    /\ z21 = "unknownCommand" => station = "plain"
    /\ z21 \in Z21!Results \ {"io"} => loggedOff

(* Every call ends, and with it the job, though device, station and child  *)
(* may stay silent forever and the deadline around the driver call cannot  *)
(* fire (runtime.rs run_program_job, http.rs request).                     *)
EveryCallEnds == <>(job \in Terminal)

(* "The HTTP transfer has a 120 s deadline and is not retried"             *)
(* (docs/api.md, firmware.upload): the device takes an image at most once. *)
FirmwareSentOnce == call.op = "updateFirmware" => served <= 1

=============================================================================
