---------------------------- MODULE CandidateCache ----------------------------
(***************************************************************************)
(* The candidates the daemon remembers between a scan and a job            *)
(* (crates/wireless-programmer/src/runtime.rs, ipc.rs).  Connection        *)
(* threads scan in four modes and submit jobs; the worker looks a job's    *)
(* candidate up when it starts it, which may be much later.                *)
(*                                                                         *)
(* A scan works without the lock of the cache and applies what it found    *)
(* under it, so scans are applied in any order and between any two looks   *)
(* of a thread.                                                            *)
(*                                                                         *)
(* That a Soft-AP scan is refused while the radio is held is left to       *)
(* RadioSession: here it may come at any time.                             *)
(***************************************************************************)
EXTENDS Integers, FiniteSets

CONSTANTS
    Threads,        \* connection threads
    ApKeys,         \* Soft-APs
    Z21Keys,        \* command stations
    UsbKeys,        \* serial ports
    LanKeys,        \* hosts that offer firmware updates
    NoKey

Keys == ApKeys \cup Z21Keys \cup UsbKeys \cup LanKeys

ASSUME CacheAssumption ==
    /\ NoKey \notin Keys
    /\ ApKeys \cap (Z21Keys \cup UsbKeys \cup LanKeys) = {}
    /\ Z21Keys \cap (UsbKeys \cup LanKeys) = {}
    /\ UsbKeys \cap LanKeys = {}

VARIABLES
    cache,          \* per key: absent, scanned, or manual
    thread,         \* per thread: the request it works on
    job,            \* the job in the slot
    answer          \* history: what the last scan applied found, where it purges

vars == <<cache, thread, job, answer>>

(* The mode of a scan fixes the kind of key it finds, and the driver.      *)
Modes == {"ap", "z21", "usb", "lan"}
Purging == {"ap", "z21"}
KeysOf == [ap |-> ApKeys, z21 |-> Z21Keys, usb |-> UsbKeys, lan |-> LanKeys]

Entries == {"absent", "scanned", "manual"}

(* A request carries, for the properties only: whether its key was in the  *)
(* cache when it was chosen, whether the daemon entered it by hand, and    *)
(* how many scans of its mode that purge were applied since (two stands    *)
(* for more).                                                              *)
SinceCap == 2
Choice == [key : Keys \cup {NoKey}, kind : {"program", "update"},
           known : BOOLEAN, byHand : BOOLEAN, since : 0..SinceCap]
NoChoice == [key |-> NoKey, kind |-> "program", known |-> FALSE, byHand |-> FALSE, since |-> 0]

(* idle; apply: a scan has its answer; look, insert, submit: a request for *)
(* a job on its way into the registry.                                     *)
ThreadStates == [pc : {"idle", "apply", "look", "insert", "submit"},
                 mode : Modes, found : SUBSET Keys, update : BOOLEAN, choice : Choice]
Idle == [pc |-> "idle", mode |-> "ap", found |-> {}, update |-> FALSE, choice |-> NoChoice]

JobStates == [state : {"none", "queued", "runs", "lost"}, choice : Choice]
NoJob == [state |-> "none", choice |-> NoChoice]

Init ==
    /\ cache = [k \in Keys |-> "absent"]
    /\ thread = [t \in Threads |-> Idle]
    /\ job = NoJob
    /\ answer = [m \in Purging |-> {}]

At(t, point) == thread[t].pc = point

Becomes(t, record) == thread' = [thread EXCEPT ![t] = record]

-----------------------------------------------------------------------------
(* Scans.  A definition whose name starts with Bug is the definition after *)
(* it as a plausible mistake would have it; no action uses one.            *)

(* dispatch of scan, or of updateFirmware over USB without a port: the     *)
(* radio, mDNS or the list of ports answers.  A scan that fails leaves no  *)
(* trace.                                                                  *)
ScanAnswers(t, m, update) ==
    /\ At(t, "idle")
    /\ update => m = "usb"
    /\ \E found \in SUBSET KeysOf[m] :
           Becomes(t, [Idle EXCEPT !.pc = "apply", !.mode = m,
                                   !.found = found, !.update = update])
    /\ UNCHANGED <<cache, job, answer>>

(* The entries a scan purges: all of a Soft-AP scan's mode, the scanned    *)
(* ones of a Z21 scan, none of the others.                                 *)
BugPurged(m, k) ==                      \* a Z21 scan purges every entry of its mode
    k \in KeysOf[m] /\ m \in Purging

Purged(m, k) ==
    /\ k \in KeysOf[m]
    /\ m = "ap" \/ (m = "z21" /\ cache[k] # "manual")

Counted(m, choice) ==
    IF m \in Purging /\ choice.known /\ choice.key \in KeysOf[m] /\ choice.since < SinceCap
    THEN [choice EXCEPT !.since = @ + 1] ELSE choice

(* With one port found an update enters it by hand and goes on to submit;  *)
(* with none or several it is refused.                                     *)
TheOnly(keys) == IF Cardinality(keys) = 1 THEN CHOOSE k \in keys : TRUE ELSE NoKey

UpdateOf(key) == [Idle EXCEPT !.pc = "insert",
                              !.choice = [NoChoice EXCEPT !.key = key, !.kind = "update",
                                                          !.known = TRUE]]

BugAfterScan(t) ==                      \* the number of ports is not looked at
    IF thread[t].update THEN UpdateOf(TheOnly(thread[t].found)) ELSE Idle

AfterScan(t) ==
    IF thread[t].update /\ TheOnly(thread[t].found) # NoKey
    THEN UpdateOf(TheOnly(thread[t].found)) ELSE Idle

(* scan, scan_lan, scan_usb, scan_z21: retain and insert under one lock.   *)
(* What is inserted is never manual, whatever was there.                   *)
BugScanApplied(t) ==                    \* the purge is forgotten
    LET m == thread[t].mode IN
    /\ At(t, "apply")
    /\ cache' = [k \in Keys |-> IF k \in thread[t].found THEN "scanned" ELSE cache[k]]
    /\ answer' = [n \in Purging |-> IF n = m THEN thread[t].found ELSE answer[n]]
    /\ thread' = [u \in Threads |->
                    IF u = t THEN AfterScan(t)
                    ELSE [thread[u] EXCEPT !.choice = Counted(m, @)]]
    /\ job' = [job EXCEPT !.choice = Counted(m, @)]

ScanApplied(t) ==
    LET m == thread[t].mode IN
    /\ At(t, "apply")
    /\ cache' = [k \in Keys |-> IF k \in thread[t].found THEN "scanned"
                                ELSE IF Purged(m, k) THEN "absent" ELSE cache[k]]
    /\ answer' = [n \in Purging |-> IF n = m THEN thread[t].found ELSE answer[n]]
    /\ thread' = [u \in Threads |->
                    IF u = t THEN AfterScan(t)
                    ELSE [thread[u] EXCEPT !.choice = Counted(m, @)]]
    /\ job' = [job EXCEPT !.choice = Counted(m, @)]

-----------------------------------------------------------------------------
(* Submitting a job                                                        *)

(* dispatch of program and of updateFirmware.  A FRED program looks at the *)
(* cache first; an update over USB enters its port, one over the LAN its   *)
(* host if it is given one, and not if it names a candidate; nothing else  *)
(* asks the cache before the job is accepted.                              *)
ChooseProgram(t, k) ==
    /\ At(t, "idle")
    /\ Becomes(t, [Idle EXCEPT !.pc = IF k \in Z21Keys THEN "look" ELSE "submit",
                               !.choice = [NoChoice EXCEPT !.key = k,
                                                           !.known = cache[k] # "absent"]])
    /\ UNCHANGED <<cache, job, answer>>

UpdateGoesOn(k) ==
    IF k \in ApKeys THEN {"submit"} ELSE IF k \in UsbKeys THEN {"insert"} ELSE {"submit", "insert"}

ChooseUpdate(t, k) ==
    /\ At(t, "idle")
    /\ k \notin Z21Keys
    /\ \E point \in UpdateGoesOn(k) :
           Becomes(t, [Idle EXCEPT !.pc = point,
                                   !.choice = [NoChoice EXCEPT !.key = k, !.kind = "update",
                                                               !.known = cache[k] # "absent"]])
    /\ UNCHANGED <<cache, job, answer>>

(* submit_program: cached(..).is_none() is one look, what follows another. *)
FredLooks(t) ==
    /\ At(t, "look")
    /\ LET known == cache[thread[t].choice.key] # "absent"
       IN  Becomes(t, [thread[t] EXCEPT !.pc = IF known THEN "submit" ELSE "insert",
                                        !.choice.known = known, !.choice.since = 0])
    /\ UNCHANGED <<cache, job, answer>>

(* cache_z21_host, cache_usb_port, cache_lan_host: manual, over whatever a *)
(* scan put there.                                                         *)
EntersByHand(t) ==
    /\ At(t, "insert")
    /\ cache' = [cache EXCEPT ![thread[t].choice.key] = "manual"]
    /\ Becomes(t, [thread[t] EXCEPT !.pc = "submit", !.choice.known = TRUE,
                                    !.choice.byHand = TRUE, !.choice.since = 0])
    /\ UNCHANGED <<job, answer>>

(* JobRegistry::submit: busy while there is a job.                         *)
Submit(t) ==
    /\ At(t, "submit")
    /\ job' = IF job.state = "none"
              THEN [state |-> "queued", choice |-> thread[t].choice] ELSE job
    /\ Becomes(t, Idle)
    /\ UNCHANGED <<cache, answer>>

-----------------------------------------------------------------------------
(* The worker                                                              *)

(* run_program_job, run_firmware_job: an update over USB or LAN falls back *)
(* on the key itself; the others need the entry.                           *)
NeedsEntry(choice) == choice.kind = "program" \/ choice.key \in ApKeys

LooksUp ==
    /\ job.state = "queued"
    /\ job' = IF NeedsEntry(job.choice) /\ cache[job.choice.key] = "absent"
              THEN [job EXCEPT !.state = "lost"]
              ELSE [state |-> "runs", choice |-> NoChoice]
    /\ UNCHANGED <<cache, thread, answer>>

(* The job ends, or is cancelled in the queue.                             *)
JobOver ==
    /\ job.state # "none"
    /\ job' = NoJob
    /\ UNCHANGED <<cache, thread, answer>>

Next ==
    \/ \E t \in Threads :
           \/ \E m \in Modes, update \in BOOLEAN : ScanAnswers(t, m, update)
           \/ \E k \in Keys : ChooseProgram(t, k) \/ ChooseUpdate(t, k)
           \/ ScanApplied(t) \/ FredLooks(t) \/ EntersByHand(t) \/ Submit(t)
    \/ LooksUp \/ JobOver

Spec == Init /\ [][Next]_vars

-----------------------------------------------------------------------------
(* Properties                                                              *)

(* Types; and a request for a job has a key, wherever the key came from    *)
(* (ipc.rs dispatch of updateFirmware).                                    *)
TypeOK ==
    /\ cache \in [Keys -> Entries]
    /\ thread \in [Threads -> ThreadStates]
    /\ \A t \in Threads :
           thread[t].pc \in {"look", "insert", "submit"} => thread[t].choice.key \in Keys
    /\ job \in JobStates
    /\ job.state \in {"queued", "lost"} => job.choice.key \in Keys
    /\ answer \in [Purging -> SUBSET Keys]

(* What the cache shows of a purging mode is one scan's answer and no mix  *)
(* of two, whatever the threads do in between: exactly the last applied    *)
(* for Soft-APs; for command stations nothing else is marked as scanned,   *)
(* and all of it is there (runtime.rs scan, scan_z21).                     *)
OneScanPerMode ==
    /\ \A k \in ApKeys : cache[k] # "absent" <=> k \in answer["ap"]
    /\ \A k \in Z21Keys :
           /\ cache[k] = "scanned" => k \in answer["z21"]
           /\ k \in answer["z21"] => cache[k] # "absent"

(* A job whose candidate was known fails for want of it only because of    *)
(* scans applied since: none takes away a port or a host, one may take     *)
(* away what a scan had found, and what the daemon entered by hand needs   *)
(* two, the first of which finds it and marks it as its own (runtime.rs    *)
(* submit_program, scan_z21, run_program_job).                             *)
LostOnlyToScans ==
    job.state = "lost" /\ job.choice.known =>
        /\ job.choice.key \in ApKeys \cup Z21Keys
        /\ job.choice.since >= (IF job.choice.byHand THEN 2 ELSE 1)

=============================================================================
