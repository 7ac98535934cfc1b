----------------------------- MODULE RadioSession -----------------------------
(***************************************************************************)
(* The one wireless radio of the daemon and who uses it: the worker with   *)
(* its Soft-AP jobs, and connection threads that scan, probe or blink a    *)
(* device (crates/wireless-programmer/src/runtime.rs, ipc.rs;              *)
(* crates/wp-link/src/radio.rs, netcfg.rs).                                *)
(*                                                                         *)
(* Two things keep the users apart.  The radio itself is behind a fair     *)
(* (first come, first served) mutex; a job gives it up while it talks to   *)
(* the device.  The flag `radio_held` is meant to cover that gap: requests *)
(* look at it and answer busy.                                             *)
(***************************************************************************)
EXTENDS Integers, Sequences, FiniteSets

CONSTANTS
    Worker,         \* the worker task
    Threads,        \* connection threads
    Aps,            \* Soft-APs in range
    PskAps,         \* those joined through wpa_supplicant
    NoAp,
    HostIsLocal     \* the hub owns the device's address on another interface

Procs == Threads \cup {Worker}

ASSUME RadioAssumption ==
    /\ Worker \notin Threads
    /\ IsFiniteSet(Threads)
    /\ NoAp \notin Aps
    /\ PskAps \subseteq Aps
    /\ HostIsLocal \in BOOLEAN

VARIABLES
    held,           \* radio_held
    line,           \* who has or waits for the mutex; its head has it
    pc,             \* where each process is
    want,           \* the request each process works on: a kind and a Soft-AP
    radio,          \* what Nl80211Radio remembers to undo
    host,           \* the interface, sysctls and rules of the host
    alone           \* history: see JobStarts

vars == <<held, line, pc, want, radio, host, alone>>

Kinds == {"job", "probe", "identify", "scan"}
Nothing == [kind |-> "scan", ap |-> NoAp]

Points == {"idle", "hold", "lock", "join", "address", "up", "ready", "talk",
           "relock", "release", "unlock", "drop"}

(* Nl80211Radio: saved_conf holds something to restore; assigned; policy,  *)
(* with or without the parked `lookup local`; the supplicant child.        *)
Policies == {"none", "plain", "moved"}
RadioStates == [saved : BOOLEAN, assigned : BOOLEAN, policy : Policies, child : BOOLEAN]
Forgotten == [saved |-> FALSE, assigned |-> FALSE, policy |-> "none", child |-> FALSE]

(* The host: the Soft-AP the interface was joined to, its address, the     *)
(* relaxed sysctls, the exception rule, and `lookup local` moved off       *)
(* preference 0.                                                           *)
HostStates == [link : Aps \cup {NoAp}, address : BOOLEAN, relaxed : BOOLEAN,
               exception : BOOLEAN, parked : BOOLEAN]
Untouched == [link |-> NoAp, address |-> FALSE, relaxed |-> FALSE,
              exception |-> FALSE, parked |-> FALSE]

Clean == radio = Forgotten /\ host = Untouched

Init ==
    /\ held = FALSE
    /\ line = <<>>
    /\ pc = [p \in Procs |-> "idle"]
    /\ want = [p \in Procs |-> Nothing]
    /\ radio = Forgotten
    /\ host = Untouched
    /\ alone = FALSE

At(p, point) == pc[p] = point

GoTo(p, point) == pc' = [pc EXCEPT ![p] = point]

HasLock(p) == line # <<>> /\ Head(line) = p

InSession(p) == pc[p] # "idle"

-----------------------------------------------------------------------------
(* Entering.  A definition whose name starts with Bug is the definition    *)
(* after it as a plausible mistake would have it; no action uses one.      *)

(* dispatch: a probe, a blink or a Soft-AP scan is refused while the flag  *)
(* is set.  Looking at the flag is one step, whatever follows another.     *)
BugStartsWhileHeld(t, kind, ap) ==      \* no look at the flag
    /\ At(t, "idle")
    /\ want' = [want EXCEPT ![t] = [kind |-> kind, ap |-> ap]]
    /\ GoTo(t, "hold")
    /\ UNCHANGED <<held, line, radio, host, alone>>

ThreadStarts(t, kind, ap) ==
    /\ At(t, "idle")
    /\ ~held
    /\ want' = [want EXCEPT ![t] = [kind |-> kind, ap |-> ap]]
    /\ GoTo(t, "hold")
    /\ UNCHANGED <<held, line, radio, host, alone>>

ScanStarts(t) ==
    /\ At(t, "idle")
    /\ ~held
    /\ GoTo(t, "lock")
    /\ UNCHANGED <<held, line, want, radio, host, alone>>

(* RadioHold::new: a flag, not a count.                                    *)
ThreadHold(t) ==
    /\ At(t, "hold")
    /\ held' = TRUE
    /\ GoTo(t, "lock")
    /\ UNCHANGED <<line, want, radio, host, alone>>

(* run_program_job and run_firmware_job look at no flag before they set    *)
(* it.  `alone` remembers whether the job did so on a clean radio with no  *)
(* probe or blink on its way.                                              *)
JobStarts(ap) ==
    /\ At(Worker, "idle")
    /\ held' = TRUE
    /\ alone' = (Clean /\ \A t \in Threads : InSession(t) => want[t].kind = "scan")
    /\ want' = [want EXCEPT ![Worker] = [kind |-> "job", ap |-> ap]]
    /\ GoTo(Worker, "lock")
    /\ UNCHANGED <<line, radio, host>>

(* radio.lock().await                                                      *)
BugLockOvertakes(p) ==                  \* a mutex that lets newcomers in first
    /\ pc[p] \in {"lock", "relock"}
    /\ line' = IF line = <<>> THEN <<p>> ELSE <<Head(line), p>> \o Tail(line)
    /\ GoTo(p, IF At(p, "relock") THEN "release"
               ELSE IF want[p].kind = "scan" THEN "talk" ELSE "join")
    /\ UNCHANGED <<held, want, radio, host, alone>>

Lock(p) ==
    /\ pc[p] \in {"lock", "relock"}
    /\ line' = Append(line, p)
    /\ GoTo(p, IF At(p, "relock") THEN "release"
               ELSE IF want[p].kind = "scan" THEN "talk" ELSE "join")
    /\ UNCHANGED <<held, want, radio, host, alone>>

-----------------------------------------------------------------------------
(* With the mutex                                                          *)

(* What a process does when a step of the join fails.  A job releases      *)
(* whatever failed, a probe after a failed association only, and a blink   *)
(* never: the `?` operator leaves the function.                            *)
BugGivesUpAfterJoin(p) ==               \* a job that has joined leaves like a probe
    GoTo(p, IF want[p].kind \in {"job", "probe"} /\ At(p, "join")
            THEN "release" ELSE "unlock")

GivesUp(p) ==
    GoTo(p, IF want[p].kind = "job" \/ (want[p].kind = "probe" /\ At(p, "join"))
            THEN "release" ELSE "unlock")

(* connect_open, connect_psk; the latter remembers its supplicant child.   *)
Join(p) ==
    /\ At(p, "join")
    /\ HasLock(p)
    /\ host' = [host EXCEPT !.link = want[p].ap]
    /\ radio' = [radio EXCEPT !.child = @ \/ want[p].ap \in PskAps]
    /\ GoTo(p, "address")
    /\ UNCHANGED <<held, line, want, alone>>

(* An attempt that fails leaves the interface as it was, or disconnected;  *)
(* that the kernel goes on and associates later is left out.               *)
JoinFails(p) ==
    /\ At(p, "join")
    /\ HasLock(p)
    /\ \E left \in {host.link, NoAp} : host' = [host EXCEPT !.link = left]
    /\ GivesUp(p)
    /\ UNCHANGED <<held, line, want, radio, alone>>

(* set_address: remembered before it is tried; a leftover is removed first.*)
SetAddress(p) ==
    /\ At(p, "address")
    /\ HasLock(p)
    /\ radio' = [radio EXCEPT !.assigned = TRUE]
    /\ \/ host' = [host EXCEPT !.address = TRUE] /\ GoTo(p, "up")
       \/ host' = [host EXCEPT !.address = FALSE] /\ GivesUp(p)
    /\ UNCHANGED <<held, line, want, alone>>

LinkUpFails(p) ==
    /\ At(p, "up")
    /\ HasLock(p)
    /\ GivesUp(p)
    /\ UNCHANGED <<held, line, want, radio, host, alone>>

(* The link is up: netcfg prepare_softap and install_policy_route follow   *)
(* at once and do not fail.  A setting that already has the wanted value   *)
(* is not recorded, and what was recorded before is overwritten.           *)
Relocated == HostIsLocal /\ ~host.parked

PrepareSoftap(p) ==
    /\ At(p, "up")
    /\ HasLock(p)
    /\ radio' = [radio EXCEPT !.saved = ~host.relaxed,
                              !.policy = IF Relocated THEN "moved" ELSE "plain"]
    /\ host' = [host EXCEPT !.relaxed = TRUE, !.exception = TRUE,
                            !.parked = @ \/ Relocated]
    /\ GoTo(p, IF want[p].kind = "job" THEN "ready" ELSE "talk")
    /\ UNCHANGED <<held, line, want, alone>>

(* A job cancelled meanwhile goes straight to the release; another one     *)
(* drops the mutex and talks to the device, still associated.              *)
BugTalksUnderLock ==                    \* the guard is not dropped
    /\ At(Worker, "ready")
    /\ GoTo(Worker, "release") \/ GoTo(Worker, "talk")
    /\ UNCHANGED <<held, line, want, radio, host, alone>>

JobReady ==
    /\ At(Worker, "ready")
    /\ \/ GoTo(Worker, "release") /\ UNCHANGED line
       \/ GoTo(Worker, "talk") /\ line' = Tail(line)
    /\ UNCHANGED <<held, want, radio, host, alone>>

(* The conversation ends, well or not, within its deadlines.               *)
JobTalks ==
    /\ At(Worker, "talk")
    /\ GoTo(Worker, "relock")
    /\ UNCHANGED <<held, line, want, radio, host, alone>>

ThreadTalks(t) ==
    /\ At(t, "talk")
    /\ HasLock(t)
    /\ GoTo(t, IF want[t].kind = "scan" THEN "unlock" ELSE "release")
    /\ UNCHANGED <<held, line, want, radio, host, alone>>

(* Nl80211Radio::release undoes what the radio remembers, and always       *)
(* disconnects.                                                            *)
Undone ==
    [host EXCEPT !.link = NoAp,
                 !.address = @ /\ ~radio.assigned,
                 !.relaxed = @ /\ ~radio.saved,
                 !.exception = @ /\ radio.policy = "none",
                 !.parked = @ /\ radio.policy # "moved"]

Release(p) ==
    /\ At(p, "release")
    /\ HasLock(p)
    /\ host' = Undone
    /\ radio' = Forgotten
    /\ GoTo(p, "unlock")
    /\ UNCHANGED <<held, line, want, alone>>

-----------------------------------------------------------------------------
(* Leaving                                                                 *)

(* The guard of the mutex is dropped first; a scan had no hold.            *)
BugScanKeepsMutex(p) ==                 \* the guard of a scan outlives the scan
    /\ At(p, "unlock")
    /\ line' = IF want[p].kind = "scan" THEN line ELSE Tail(line)
    /\ GoTo(p, IF want[p].kind = "scan" THEN "idle" ELSE "drop")
    /\ UNCHANGED <<held, want, radio, host, alone>>

Unlock(p) ==
    /\ At(p, "unlock")
    /\ line' = Tail(line)
    /\ GoTo(p, IF want[p].kind = "scan" THEN "idle" ELSE "drop")
    /\ UNCHANGED <<held, want, radio, host, alone>>

(* RadioHold::drop clears the flag whoever else still has a hold.          *)
BugOnlyJobsDropHold(p) ==               \* a probe leaves the flag set
    /\ At(p, "drop")
    /\ held' = (held /\ p # Worker)
    /\ want' = [want EXCEPT ![p] = Nothing]
    /\ alone' = (alone /\ p # Worker)
    /\ GoTo(p, "idle")
    /\ UNCHANGED <<line, radio, host>>

DropHold(p) ==
    /\ At(p, "drop")
    /\ held' = FALSE
    /\ want' = [want EXCEPT ![p] = Nothing]
    /\ alone' = (alone /\ p # Worker)
    /\ GoTo(p, "idle")
    /\ UNCHANGED <<line, radio, host>>

WorkerNext ==
    \/ JobReady \/ JobTalks
    \/ Lock(Worker) \/ Join(Worker) \/ JoinFails(Worker) \/ SetAddress(Worker)
    \/ LinkUpFails(Worker) \/ PrepareSoftap(Worker) \/ Release(Worker) \/ Unlock(Worker)
    \/ DropHold(Worker)

ThreadNext(t) ==
    \/ ThreadHold(t) \/ ThreadTalks(t)
    \/ Lock(t) \/ Join(t) \/ JoinFails(t) \/ SetAddress(t) \/ LinkUpFails(t)
    \/ PrepareSoftap(t) \/ Release(t) \/ Unlock(t) \/ DropHold(t)

Next ==
    \/ \E ap \in Aps : JobStarts(ap)
    \/ WorkerNext
    \/ \E t \in Threads :
           \/ \E kind \in {"probe", "identify"}, ap \in Aps : ThreadStarts(t, kind, ap)
           \/ ScanStarts(t)
           \/ ThreadNext(t)

(* A request that was let in is carried on: the worker task and the        *)
(* connection threads are scheduled, and every radio and HTTP operation    *)
(* has a deadline.  Nobody has to make a request.                          *)
Fairness == WF_vars(WorkerNext) /\ \A t \in Threads : WF_vars(ThreadNext(t))

Spec == Init /\ [][Next]_vars /\ Fairness

-----------------------------------------------------------------------------
(* Properties                                                              *)

TypeOK ==
    /\ held \in BOOLEAN
    /\ line \in Seq(Procs) /\ Len(line) <= Cardinality(Procs)
    /\ pc \in [Procs -> Points]
    /\ want \in [Procs -> [kind : Kinds, ap : Aps \cup {NoAp}]]
    /\ radio \in RadioStates
    /\ host \in HostStates
    /\ alone \in BOOLEAN

(* The points at which a process has the mutex or waits for it.            *)
Queued == {"join", "address", "up", "ready", "release", "unlock"}
InLine(p) == pc[p] \in Queued \/ (pc[p] = "talk" /\ p \in Threads)

(* Only the process at the head of the line is past its acquisition, and   *)
(* nobody stands in line twice: what one process does to the radio between *)
(* acquiring and dropping the mutex is not interleaved with another's      *)
(* (runtime.rs probe, identify, scan, run_program_job, run_firmware_job).  *)
OneInTheRadio ==
    /\ \A p \in Procs : Cardinality({i \in 1..Len(line) : line[i] = p})
                          = (IF InLine(p) THEN 1 ELSE 0)
    /\ \A p \in Procs :
           pc[p] \in {"address", "up", "ready", "unlock"} => HasLock(p)

(* A job that began alone has the flag, its Soft-AP and its host settings  *)
(* for as long as it talks to the device: no request that looks at the     *)
(* flag later gets between (ipc.rs dispatch; runtime.rs RadioHold).        *)
JobAloneIsUndisturbed ==
    alone /\ pc[Worker] \in {"talk", "relock"} =>
        /\ held
        /\ host.link = want[Worker].ap
        /\ host.address /\ host.relaxed /\ host.exception
        /\ HostIsLocal => host.parked

(* A job that began alone leaves the radio and the host as it found them,  *)
(* whichever step failed and wherever it was cancelled (runtime.rs         *)
(* run_program_job, run_firmware_job; radio.rs release).                   *)
JobAloneLeavesClean == alone /\ pc[Worker] \in {"unlock", "drop"} => Clean

(* When no request is under way the flag is clear: a flag left set would   *)
(* answer busy for ever (runtime.rs RadioHold::drop).                      *)
Quiet == \A p \in Procs : pc[p] = "idle"
QuietMeansFree == Quiet => ~held /\ line = <<>>

(* Every request that was let in gets the radio and ends: the fair mutex   *)
(* starves nobody and the job's second acquisition deadlocks with nobody.  *)
EverySessionEnds == \A p \in Procs : InSession(p) ~> ~InSession(p)

(* What the code says of itself, and does not keep.                        *)

(* "Soft-AP stays associated; we re-acquire only to release"               *)
(* (runtime.rs run_program_job).                                           *)
SoftApStaysAssociated ==
    pc[Worker] \in {"talk", "relock"} => host.link = want[Worker].ap

(* "Put back every sysctl prepare_softap changed", "puts the fib rules     *)
(* back" (netcfg.rs restore, module comment).                              *)
HostSettingsRestored == Quiet => ~host.relaxed /\ ~host.parked /\ ~host.exception

(* "On every exit path the radio is released: disconnect and address       *)
(* removal" (radio.rs module comment).                                     *)
ReleasedOnEveryExit == Quiet => host.link = NoAp /\ ~host.address

=============================================================================
