------------------------------- MODULE UsbFlash -------------------------------
(***************************************************************************)
(* Flashing over USB (crates/wp-link/src/espflash.rs): the image is put in *)
(* a class, espflash is run as a child process, and the child is polled    *)
(* until it ends, the deadline passes or the cancel flag is raised.  A     *)
(* child may never end: its serial port hangs, or it fills the pipe of its *)
(* error output, which is read only after it has ended.  An error of       *)
(* try_wait itself, which returns and leaves the child alone, is left out. *)
(***************************************************************************)

VARIABLES
    usb,            \* where the caller of the child is
    child,          \* the espflash process
    why,            \* what the child is being killed for
    stop            \* the cancel flag

UsbTypeOK ==
    /\ usb \in {"idle", "polling", "killing", "ok", "err", "cancelled"}
    /\ child \in {"none", "running", "good", "bad", "killed"}
    /\ why \in {"nothing", "deadline", "cancel"}

UsbInit == usb = "idle" /\ child = "none" /\ why = "nothing"

(* classify_image: an ELF by its magic, an app image by its name, anything *)
(* else by the first byte and the length.                                  *)
Class(image) ==
    CASE image.header = "elf" -> "elf"
      [] image.header # "elf" /\ image.name = "app.bin" -> "app"
      [] image.header = "e9" /\ image.name = "bin" /\ image.size \in {"large", "huge"} -> "merged"
      [] image.header = "e9" /\ image.name # "app.bin"
            /\ (image.name = "bin" => image.size \in {"empty", "small"}) -> "app"
      [] OTHER -> "unknown"

(* flash: no such file, no class, or no partition table for an ELF;        *)
(* run_espflash: no such program.                                          *)
RefusesImage ==
    /\ usb = "idle"
    /\ usb' = "err"
    /\ UNCHANGED <<child, why, stop>>

Spawns(image) ==
    /\ usb = "idle"
    /\ Class(image) # "unknown"
    /\ usb' = "polling"
    /\ child' = "running"
    /\ UNCHANGED <<why, stop>>

ChildEnds ==
    /\ child = "running"
    /\ child' \in {"good", "bad"}
    /\ UNCHANGED <<usb, why, stop>>

(* try_wait finds an exit status.                                          *)
SeesExit ==
    /\ usb = "polling"
    /\ child \in {"good", "bad"}
    /\ usb' = IF child = "good" THEN "ok" ELSE "err"
    /\ UNCHANGED <<child, why, stop>>

(* try_wait finds the child running; it may end before it is killed.  The  *)
(* deadline is looked at before the flag.                                  *)
SeesDeadline ==
    /\ usb = "polling"
    /\ child = "running"
    /\ usb' = "killing"
    /\ why' = "deadline"
    /\ UNCHANGED <<child, stop>>

SeesCancel ==
    /\ usb = "polling"
    /\ child = "running"
    /\ stop
    /\ usb' = "killing"
    /\ why' = "cancel"
    /\ UNCHANGED <<child, stop>>

(* kill and wait                                                           *)
BugKills ==                             \* returns without killing the child
    /\ usb = "killing"
    /\ usb' = IF why = "cancel" THEN "cancelled" ELSE "err"
    /\ UNCHANGED <<child, why, stop>>

Kills ==
    /\ usb = "killing"
    /\ child' = IF child = "running" THEN "killed" ELSE child
    /\ usb' = IF why = "cancel" THEN "cancelled" ELSE "err"
    /\ UNCHANGED <<why, stop>>

=============================================================================
