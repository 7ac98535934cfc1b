# Specifications of wireless-programmer

`wireless-programmer` is a daemon that commissions model-railway throttles
(WiFred, LongFred, Digitrax FRED, RailBOX RB23xx). It scans for devices, joins
their Soft-AP with the one wireless radio of the hub, writes their settings or
their firmware, and reports progress to clients over a Unix socket. This
directory holds TLA+ models of it, the TLC configurations that check them, and
TLAPS proofs.

`PROJECT.json` lists the components, runs, mutants, theorems and hazards, and
maps every definition to the source lines it models. Paths below are under
`src/crates/`; `runtime.rs`, `ipc.rs` and `jobs.rs` are in
`wireless-programmer/src/`, `radio.rs`, `netcfg.rs`, `http.rs`, `z21.rs` and
`espflash.rs` in `wp-link/src/`, the drivers in `wp-drivers/src/`.

## The system

| Component | State | Operations | Hard part |
|---|---|---|---|
| Job registry (`jobs.rs`) | `active`, `jobs`, `seq` under one mutex | submit, take_payload, transition, cancel, evict | `transition` checks nothing: it relies on its callers |
| Worker (`runtime.rs`) | its place in a job | one job after the other from a channel of 8 | cancel at any moment; every early return must end the job |
| Radio session (`runtime.rs`, `radio.rs`) | radio mutex, `radio_held`, what to undo | job, probe, blink, scan | the mutex is given up while a job talks; `radio_held` is a flag looked at earlier |
| Network rules (`netcfg.rs`) | sysctls, fib rules | prepare, install, remove, restore | values to restore are overwritten; `ip` fails half way |
| Socket server (`ipc.rs`) | one thread per connection | dispatch, stream `job.watch` | frames read by index while the worker pushes them |
| Candidate cache (`runtime.rs`) | `(driver, key)` to candidate | four scans, manual entries, lookups | purged between a job's acceptance and its start |
| HTTP client (`http.rs`) | one exchange | request, retry, cancel | retries deliver twice; reset after write |
| Z21 dispatch (`z21.rs`) | one UDP exchange | ask for the serial, dispatch | lost, late, duplicated, foreign replies |
| Drivers (`wp-drivers`) | none | probe, program, verify, update_firmware | several writes, any of which fails or repeats |
| espflash runner (`espflash.rs`) | a child process | flash | exit, deadline and cancel race |
| Clients (`wp-client`, `go/client`) | a connection | calls, watch loop | idle deadline against heartbeats |
| mDNS, rfkill, wire types, configuration | none that outlives a call | read, parse | their substance is parsing |

Connection threads call the registry and the runtime directly. A submit puts the
job in the registry and its id in the channel; the worker receives it, takes its
payload and runs it, and reports through `transition`. Jobs that go through a
Soft-AP, probes, blinks and Soft-AP scans share the radio behind a fair tokio
mutex. A driver talks to its device over the HTTP client, with a cancel flag that
a watch task raises. Nothing is persisted, so a restart of the daemon is `Init`,
except for what the kernel keeps of a session that was cut off (`HostNetwork`).
The release profile aborts on panic; builds that unwind can lose the worker task
alone (`WorkerStops`).

What makes each part correct:

- registry and worker: one pending job at a time, in exactly one pair of hands;
  one terminal frame, last; an outcome that never changes and is not forgotten
  before it can be read; every accepted job ends;
- radio: one user between acquiring and dropping the mutex; a job keeps its
  Soft-AP and settings while it talks; every request ends and the busy flag is
  clear afterwards;
- host: a session in which nothing failed reaches its device whatever was left
  behind; a release undoes what was done, however little of it; local delivery
  is never absent;
- watch: every frame once, in order, the terminal one last;
- cache: what is shown of a mode is one scan's answer; an accepted job loses its
  candidate only to scans that came since;
- transport and drivers: `Done` is reported of a device, and a device leaves
  programming mode, only when it has taken what its driver told it and what the
  driver compares is as asked; a cancel lets at most one more request through;
  every call ends.

## Modules

| Module | Models |
|---|---|
| `ExclusiveSlot` | what the registry promises: numbered jobs, one pending, final outcomes |
| `JobStream` | what the registry promises to a watcher about one job: its state and its frames |
| `JobTurn` | what the registry and the worker promise to the radio: the slot, and a job's turn from entering to its end |
| `JobRegistry` | `jobs.rs`, the submitting threads, and the worker through every path of `run_job` |
| `JobWatch` | `stream_job_watch` of `ipc.rs` over `JobStream`, the socket, and the client of `wp-client/src/watch.rs` |
| `RadioSession` | the radio mutex, `radio_held`, the sessions and what `release` undoes |
| `Daemon` | composes `RadioSession` with `JobTurn`: jobs that the registry lets in, and the order of their verdicts and releases |
| `HostNetwork` | the same sessions command by command, each of which may fail, and a daemon that is killed |
| `CandidateCache` | scans, entries by hand, requests for jobs, and the worker's lookup |
| `Delivery` | what a request over HTTP promises: how often the device acts on it, and when |
| `HttpRequest` | `http.rs` and the way to the device and back |
| `DeviceDrivers` | extends `HttpRequest`: the drivers' requests and what the devices do with them |
| `UsbFlash`, `Z21Dispatch` | `espflash.rs` with its child; `dispatch_addr` over UDP |
| `DeviceJob` | composes the last four: a job from the ready radio to its end, with its cancel |
| `MC...` | the instances for TLC |
| `JobRegistryProofs`, `JobStreamProofs`, `JobWatchProofs`, `RadioSessionProofs`, `DaemonProofs`, `HostNetworkProofs`, `CandidateCacheProofs`, `DeviceJobProofs` | the proofs |

In every module an operator whose name starts with `Bug` is the definition that
follows it as a plausible mistake in the code would have it. No action uses one;
`PROJECT.json` names, for each property, one that breaks it.

### JobRegistry

`jobs`, `active` and `seq` are the fields of `JobRegistryInner`. A registry method
holds the registry mutex from beginning to end and is one step; two calls in a
row by one thread are two steps, so a cancel can come between any two. A frame
keeps the state it reports and whether it announces a cancel request; labels,
percentages and texts are left out. `queue` is the channel.

`worker.pc` follows the code: `recv` (`worker_loop`), `check` and `take`
(`run_job`), `begin` (before the first transition), `ready`, `join`, `joined`
(`run_program_job`, the AP branch of `run_firmware_job`), `drive` (driver,
`dispatch_addr`, `espflash`), `beat` (between a heartbeat's look at the flag and
its frame), `judge` (the look at the cancel flag after the driver returned),
`settle` (the terminal transition) and `teardown` (the release that follows a
failed join, with the slot already free). The four kinds are the four paths:
Soft-AP programming, FRED over a Z21, firmware over the Soft-AP, firmware over
LAN or USB. What the radio, a driver or a lookup answers is a free choice.

After `stopped`, `worker.id` is a history: the job that died with the task, whether
it had it in hand, in the channel or not at all (`Stranded`). `Custody` and
`EveryJobEnds` exempt that job and no other, so a sender that found the channel
closed and did not end its job would break both.

Some paths look whether the job has ended before they settle it. `Custody` says
it has not, so the look is left out of `WorkerSettle`. `Rank` orders the steps a
driver reports as the drivers report them.

### JobWatch

The job is `JobStream`: a state and a list of frames that grow while it lives
and are forgotten together. `JobRegistry` is checked and proved to implement it
for every job it numbers (`ImplementsJobStream`), so the watch is modelled over
one job instead of over the whole registry. `told` is a history of the frames
that survives the eviction.

`server.pc` is the place of the connection thread: `start` (the first look),
`poll` (`frames_since`), `send` (in the loop over a copied batch), `snap` (between
finding no frame and taking the snapshot, a second critical section), `gone` (the
error answer), `closed`, `dead` (the daemon was killed). `wire` is the socket,
bounded by `SocketCap`; a write waits for room while the client reads and fails
once it is gone. `closing` is what follows the last message: an end of stream, an
error answer, or part of a message. A message carries, for the properties only,
the index `at` of its frame; it is not on the wire. `since` grows with each frame
written, where the code adds the size of the batch after it: nothing reads it in
between.

The snapshot repeats a state and is not counted, so a frame that was pushed while
it was taken follows it. The client (`drain_with`) stops at the first terminal
message; a clean end without one is `truncated`, a cut message `brokenFrame`, an
error answer the error its code maps to, silence `watchIdle`.

### RadioSession

`line` is the tokio mutex: a FIFO whose head owns it. `held` is `radio_held`.
`radio` is what `Nl80211Radio` will undo (`saved_conf`, `assigned`, `policy`, the
supplicant child) and `host` what was done to the host. All Soft-AP drivers use
the same addresses (`192.168.4.1/24`, source `.2`), so an address, an exception
rule and a parked local rule are switches, not sets. Looking at the flag
(`ThreadStarts`, `ScanStarts`) and setting it (`ThreadHold`) are separate steps,
as they are in `ipc.rs` and `runtime.rs`.

`alone` is a history variable: the job took its hold on a clean radio with no
probe or blink under way. It never constrains a step. It states exactly when the
two mechanisms of the code suffice.

### JobTurn and Daemon

`JobTurn` is what the radio sees of the registry: whether the slot is taken, and
how far the worker is with a job that goes through a Soft-AP. `JobRegistry`
implements it (`ImplementsJobTurn`), with `stage` computed from the worker's place
(`Stage`), whatever the other kinds of jobs, the cancels and the history do. A
job that does not use the radio, or ends before it does, is `away` from its start
to its verdict.

`Daemon` builds on it: its worker is that of `RadioSession`, and each of its steps
is a step of the one, of the other, or of both where the code takes them at once.
What it adds is the order of the two, which differs from path to path: after a
failed join the outcome is reported before the release; a job cancelled after the
join reports between the release and the drop of its guard (`Unlocks`); a
programming job reports before its `RadioHold` is dropped and an image job after
(`firmware`, `Decides`, `Leaves`). Begin, join and release are those of
`RadioSession`, unchanged. `Die` and `Fail` of `JobTurn` have no counterpart in
`Daemon`.

### HostNetwork

`RadioSession` says who enters the radio and when, with operations that succeed
in one step. `HostNetwork` opens those operations: `pc` is the command that comes
next, in the order of `connect_open`, `connect_psk`, `set_address`,
`prepare_softap`, `install_policy_route`, and of `release` with
`remove_policy_route`. `host` is what the kernel, the process table and the file
system hold, `radio` the fields `saved_conf`, `assigned`, `policy`, `wpa_child`,
and `undo` what `release` has taken out of them. A command in `MayFail` may fail,
and what the code then does - log and go on, flush and return, give up with or
without a release - is a disjunct of the action of that command. One caller goes
through sessions again and again; it may be overtaken by another session while
it talks (`Overtaken`) and be killed at any point (`Killed`), after which `radio`
is empty and `host` is not. `found` is the set of sysctls that had the wanted
value at first; `failed` and `marred` are histories that say which sessions a
property may speak about.

### CandidateCache

`cache` is the map of `runtime.rs`; `thread` holds what a connection thread has
in its hands between two takings of the lock: the answer of a scan not applied
yet, a look at the cache not acted on yet. `job` is the job between its
acceptance and the worker's lookup. The key of a candidate fixes its mode, so
the driver is left out. A LAN update enters its host in the cache when the request
names one, and does not when it names a candidate (`UpdateGoesOn`). A request
carries three history fields (`known`,
`byHand`, `since`), counted up to `SinceCap`, the largest number a property asks
about.

### HttpRequest, DeviceDrivers, DeviceJob

`phase` follows `request` and `request_once`: `connect`, `put` (connected, the
flag looked at before the last write), `await`. The inbox holds whole requests
that have arrived, each marked with whether it came over the connection still in
use: a request the client has given up may be served later. `Messages` are the
shapes a response can have when it stops coming (status, framing, how much of it
arrived, and whether the peer waits, closes or resets or the connection breaks),
and `Heard` is what `request_once` makes of each; the device picks a message and
the client sees `Heard` of it. `late` and `served` are histories.

`Script` is the sequence of requests of each driver. A call speaks of some settings
(`asks`; `off` are the flags among them that are to be off), and three things are
told apart: what the driver tells the device (`Told`), what it compares in the
answer (`Compared`), and what the device has (`holds`: the settings that are as
asked). A WiFred is told a flag only to put it on; a LongFred is told no server
and no mode, direction or functions of a locomotive. Compared are the identity,
the addresses, the server's name and port, a LongFred's login and roster mode, and
that there is an entry for the SSID. A request writes what it carries of what is
told (`Written`, `EntryAfter`), once more each time it is delivered; `odd` is a
setting the device is deaf to, so that verification has something to find, and
misses it where it does not compare. A flag may be as asked from the beginning.
`AsAsked` says what is known of a device that was programmed: what is told and
compared is as asked, what is only told is so unless the device is deaf to it, and
of what is not told nothing. The
network entry of a WiFred is a state of its own, since the code removes it before
it adds it (the key of an entry that exists is replaced only if one is given).
`fit` is whether an answer shows what the driver looks for: the known structure
version in the first answer of a WiFred, all that is compared in the last
(`Matches`).

`DeviceJob` starts where `JobRegistry`'s worker is at `drive`, and replaces the
free choice made there. `Starts`, `NeverStarts` and `CancelledBefore` stand for
the checks before the driver call, `PassesOn` for `spawn_cancel_watch` and the
heartbeat, `Settles` for the tail of the job. There is no step that ends a call
at the job's deadline: the driver call blocks in synchronous code, and the tokio
timeout around it cannot fire.

In `UsbFlash` the child may end at any moment, before or after the poll that sees
the deadline or the flag. In `Z21Dispatch` datagrams are sets: one that arrives
may arrive again, one that is under way may be lost or be overtaken. A station
is of one of five kinds, by what it answers.

## Runs

| Run | Bounds | Result |
|---|---|---|
| `job_registry` | 2 threads, 3 jobs, history of 1, channel of 2, 3 frames before the end, worker may die | passes; 194 240 states |
| `job_watch` | 2 running states, socket of 2 messages, 3 frames before the end, daemon may die | passes; 151 881 states |
| `job_watch_unknown` | as `job_watch`, 1 frame | `UnknownJobIsNotFound` is violated |
| `radio_session` | the worker and the slot, 2 threads, a WPA2 Soft-AP, host address local; no bound on jobs or requests | passes; 158 012 states |
| `radio_takeover` | worker, 2 threads, an open and a WPA2 Soft-AP | `SoftApStaysAssociated` is violated |
| `radio_restore` | as `radio_takeover` | `HostSettingsRestored` is violated |
| `radio_exit` | as `radio_takeover` | `ReleasedOnEveryExit` is violated |
| `candidates` | 2 threads, a key of each of the 4 modes; no bound on requests | passes; 1 151 942 states |
| `host_network` | 2 sysctls, every command but the two that add a local rule may fail, 2 supplicants; no bound on sessions | passes; 234 345 states |
| `local_delivery` | only the command that puts the local rule back may fail | `LocalDelivery` is violated |
| `device_job` | 13 calls of the four drivers, the 4 attempts of the code, 5 kinds of station | passes; 829 816 states |
| `firmware_once` | the two uploads, 2 attempts | `FirmwareSentOnce` is violated |

Why the bounds are enough. Two threads let a submit meet a busy slot and one
thread cancel the other's job. Three jobs with a history of one cover the cases
of eviction: nothing to evict, an old job evicted by the end of a newer one, an
ended job kept while another runs. Three frames let a step, a heartbeat and a
cancel request come in any order before the terminal frame. In the watch, four
frames and a socket of two give batches of every size, a full socket, and a job
that ends and is forgotten with a batch half sent. In the radio run a request
can wait behind two others, and a hold be dropped under another's feet; one
Soft-AP is enough, because which one is joined changes nobody's path, and the
violations that need two have two. In the cache, a mix of two scans' answers
shows on one key; two threads let one scan overtake another and let a scan come
between a look and what follows it. In the host run two sysctls let one have the
wanted value already while the other is written, or one write fail and the other
not; two supplicants (`MaxDaemons`) are one that was left behind and the one in
use. `device_job` uses the code's own number of attempts; its calls are a WiFred
with a locomotive, a flag to be put on and one off, and one without locomotives, a
LongFred asked for everything there is (what it is not told included) and one for
as little as can be (the full ones with a key), the updates that get
through and one refused for each reason. `late`
is counted up to two (`LateCap`): the property says one.

Deadlock is checked in the radio, cache and host runs. The registry run ends when
its three jobs have ended, the watch run when the watch is over, the device run
when the job is, so it is not checked there: `EveryJobEnds`, `WatchEnds` and
`EveryCallEnds` say that they get that far.

`radio_session` runs over `Daemon`, whose behaviours are behaviours of
`RadioSession` (`DaemonIsRadioSession`); the three radio runs that find a
violation run over `RadioSession` itself, where a job may start at any time.

What the passing runs check, beside a type invariant each:

| Run | Invariants | Steps, liveness, refinement |
|---|---|---|
| `job_registry` | `SlotMatchesJobs`, `Custody`, `TerminalFrameLast`, `CancelledOnRequest`, `RemembersLatest` | `OutcomeFinal`, `EndedJobIsRemembered`, `CancelledInQueueNeverStarts`, `EveryJobEnds`, `ImplementsExclusiveSlot`, `ImplementsJobStream`, `ImplementsJobTurn` |
| `job_watch` | `StreamInOrder`, `OutcomeIsWhole`, `TruncatedOnlyByDeath` | `WatchEnds` |
| `radio_session` | `OneInTheRadio`, `JobAloneIsUndisturbed`, `JobAloneLeavesClean`, `QuietMeansFree`, `EndedMeansReleased` | `EverySessionEnds` |
| `candidates` | `OneScanPerMode`, `LostOnlyToScans` | |
| `host_network` | `LocalDelivery`, `Steered`, `CleanRelease` | |
| `device_job` | `DoneMeansHeld`, `NeverLeavesHalfProgrammed`, `OneMoreAtMost`, `ChildGone`, `DispatchIsTrue` | `EveryCallEnds`, `ImplementsDelivery` |

Each is stated above its definition.

The six violations are disagreements between the code and its comments or docs:

- `job_watch_unknown`: the daemon answers `not_found` for a job it does not know;
  the docs name the code `notFound` and the client maps only that, so that the
  client reports a server error and not its own `NotFound`.
- `radio_takeover`: a probe that passed the busy check before a job took its hold
  joins another Soft-AP and releases the radio while the job talks to its device;
  the same happens after one request's `RadioHold::drop` clears the flag of
  another.
- `radio_restore`: the second `prepare_softap` before a release finds everything
  already set, records nothing, and so nothing is put back.
- `radio_exit`: `probe` and `identify` leave through `?` without a release.
- `local_delivery`: `remove_policy_route` says that local delivery is never
  absent, but when the rule at preference 0 cannot be added it only logs and
  deletes the parked copy all the same.
- `firmware_once`: the API document says that the transfer of an image is not
  retried; its client is given three retries, and a device whose answer is lost
  takes the image again.

Met while modelling, and without a run of their own:

- `runtime.rs:42-43` says that entries made by hand survive a rescan. They survive
  the purge, but a scan that finds the same Z21 overwrites the entry with one that
  is not manual, and the next scan may purge that. `LostOnlyToScans` states what
  does hold: two scans are needed.
- `wifred/mod.rs:12-14` says that WiFi settings and restart come after everything
  else is "written and verified". The code writes the network before the
  verification, and the verification does not compare the mode and direction of a
  locomotive, its functions, the long-address flag, `automatic` or the key
  (`wifred/mod.rs:250-277`). A flag asked to be off is not even sent
  (`wifred/mod.rs:130`, `:157`), so that a device which has it on keeps it and the
  job is `Done`. `DoneMeansHeld` and `NeverLeavesHalfProgrammed` claim what the
  code does (`AsAsked`), and nothing of a flag to be put off.
- A LongFred accepts a request with a server and leaves it unused
  (`longfred/settings.rs:13-53`), and its verification compares neither a server
  nor the PIN.
- The directory of a supplicant's configuration is named after the SSID when it
  is written and after the interface when it is removed, so a file with the key
  stays. `CleanRelease` exempts it (`conf`).
- `jobs.rs:263-264` says that a second job is refused as busy while the worker
  tears a cancelled one down. A job that was cancelled and whose join then fails
  frees the slot before it releases the radio (`runtime.rs:983-990`), so the next
  one is accepted, and waits in the channel. `EndedMeansReleased` says how far the
  teardown may still be.
- A serial number that arrives in the dispatch window is ignored, so a station
  that answers late and does not answer a dispatch is reported as unreachable.

### Fairness

`JobRegistry` assumes that the worker task and a thread that submitted a job are
scheduled, and that a driver call returns, which `EveryCallEnds` shows of the
calls themselves. `JobWatch` assumes that the connection thread is scheduled,
that the client reads what has arrived, and that a live job ends. The last is
`EveryJobEnds`, which holds while the worker lives: in a build that unwinds, a
watch of a job stranded by the death of the worker has no end. That a job is
accepted, cancelled or forgotten is not assumed, nor that a client idles out, is
interrupted, or that the daemon dies. `RadioSession` assumes of a request that
was let in what `JobRegistry` assumes of a job, and `Daemon` the same of the
worker with its verdicts. None of them assumes that a request, a
cancel, a progress frame or the death of the worker happens.

`DeviceJob` assumes that the worker runs and that its deadlines pass: those of
the client's connects, writes and reads (`Http`), that of the child (`Flash`),
and the two windows of a dispatch. Each is a socket timeout, a sleep or an
`Instant` in the code. Nothing is assumed of a device, a station, the network or
espflash: all may stay silent for ever. `CandidateCache` and `HostNetwork` state
safety only.

## Proofs

Everything below holds for every value of the constants that satisfies the named
assumption of its module.

### The registry and the watch

`JobRegistryProofs` holds for every number of threads, history, channel capacity,
number of jobs and frames, under `RegistryAssumption` only.

`SlotMatchesJobs`, `Custody` and the rest are not inductive one by one:
`transition` clears the slot for whatever job it is called for, so that the slot
stays exact depends on its callers holding the pending job, which is `Custody`;
`Custody` depends on the types, and that a job ends as cancelled only on request
depends on why the verdict was given. `RegistryInv` is their conjunction with
`Strengthening`: the job in the slot is the newest; a flag on a live job, and a
verdict to cancel, are backed by a frame that shows the request. The proof splits
it into a part about the registry, `Custody` and the verdict; lemmas say what one
update does to one job (`FrameUpdates`, `QuietUpdates`) and to the registry part
(`SubmitPart`, `RunPart`, `EndPart`, `RewritePart`); `ClientSteps` and
`WorkerSteps` go through the actions. `SlotSteps` classifies a step by what it
does to the outcomes: one job accepted, the active one finished, or nothing
changed. `OutcomesAreFinal`, `EndedJobsAreKept` and `RegistryImplementsSlot`
follow from it.

`JobStreamProofs` proves `ImplementsJobStream` from the same invariant and one
more, `Started`: a worker that reaches out has taken its job out of `Queued`. A
heartbeat repeats whatever state the job is in, so without it a heartbeat could
report `Queued`. `StreamSteps` classifies a step by what a watcher sees of it.
The same module proves `CancelledInQueueNeverStarts`, whose formula nests a box:
`NeverStarted` is the invariant of its inner half. A job that satisfies it is
forgotten, has ended without being done, or waits with its flag set while the
worker that has it stands before its first look at the flag or has given it up;
`WaitingSteps` goes through the actions, and `Custody` is what excludes that the
worker is further on in that job. The last part of the module is the refinement of
`JobTurn` (`RegistryImplementsTurns`). The mapping needs `TurnReady`: only a failed
join leaves a release to be done, and only a job that goes through a Soft-AP, or a
dispatch, comes to a join. `StayInSlot` says, from `Custody`, that a transition
which is not the last leaves the slot to the job, and `TurnSteps` maps each action
to one of `JobTurn` or to a stutter.

`JobWatchProofs` holds for every set of running states, socket size and number of
frames, under `WatchAssumption`. `StreamInOrder` speaks of the messages in three
places, the client, the socket and the batch; to keep it through a poll the proof
needs that `since` is the number of frames written and that what the registry has
is what was told (`ThreadInv`, `ToldInv`), and that a client with an outcome has
the job's own needs that nothing follows a terminal message and that a clean end
follows one (`EndInv`). `WatchInv` is the conjunction. Lemmas say what a message
does when it moves from the batch to the socket and from the socket to the client
(the stream is the same list) and what a frame of the job does to what was told.

### The radio and the host

`RadioSessionProofs` holds for every finite set of threads and every set of
Soft-APs, open and WPA2. The mutex part (`LineInv`) says that nobody stands in
line twice and who does: that the head is the only one past its acquisition
follows, and that the line is bounded by a pigeonhole argument (`Types` leaves
the bound out because it is not inductive). The flag alone is no invariant of
anything: `held` may be cleared under a user's feet. `AloneInv` is what saves a
job that is alone: nobody else is on the way to the radio except scans, which
touch nothing, so the state of `radio` and `host` follows from where the job is;
`KindInv` bounds where each kind of request can be, and `HeldInv` says that a
flag that is set belongs to a request that will clear it.

The same module then says what the promises that `radio_takeover`, `radio_restore`
and `radio_exit` refute would need. `ApartIsEnough` supposes that no probe or blink
is under way together with a job: the Soft-AP then stays associated while the job
talks and every setting of the host comes back. So the first two violations need
that overlap and nothing else, and a busy check and a hold taken in one step
would remove them. Its invariant `ApartInv` gives what was changed on the host an
owner that has the mutex or is the job, so that nobody prepares the radio twice.
`JobsAndScansReleaseAlways` supposes that there are no probes and blinks: the
radio is then released on every exit path, so the third violation is the doing of
those two. Both hypotheses are met by behaviours in which jobs run.

`DaemonProofs` carries this over to jobs that come from the registry: what a
daemon does at the radio is a behaviour of `RadioSession` (`DaemonIsRadioSession`)
and what it does to the slot one of `JobTurn` (`DaemonKeepsTurns`), so the
invariants of both hold of it. `EndComesAfterRelease` needs to know where the
worker can be in each stage of its job (`InStep`) and that a job whose join failed
has the mutex until it leaves the radio (`StillInside`); `DaemonInv` adds both to `RadioInv` and `TurnInv`. `AloneInv` then gives the state of the host.

`HostNetworkProofs` has three invariants for the three properties, over the
types. The types need `ChildInv`: a supplicant that is remembered runs, and is
remembered once. `SteerInv` follows a session without a failure command by
command, from whatever state it began in, which is why earlier sessions and
daemons need no mention. `LocalInv` says which of the two local rules must be
there at each command; it is kept whatever fails except the two commands that
add one (`LocalDeliveryIsKept` has that as its hypothesis, and `local_delivery`
shows that it is needed). `UndoInv` says that what was changed is remembered, by
`radio` before the release and by `undo` in it, in three parts (`SysctlInv`,
`SessionInv`, `PolicyInv`); while a policy route is being installed nothing
remembers it, and the proof shows that nothing leaves from there.

### The cache

`CandidateCacheProofs` holds for every number of threads and keys. `OneScanPerMode`
is inductive with the types, once the types say that a scan has found keys of its
own mode (`ThreadInv`). `LostOnlyToScans` needs `KeptInv`: of every request on its
way, and of the job in the queue, a key that was known is still there unless
enough scans were applied since it was - none can take a port or a host, one takes
what a scan had found, and an entry by hand is scanned after one and gone after
two.

### The driver call

`DeviceJobProofs` holds for every set of requests, calls and stations and every
number of attempts. A client that has given a request up makes another attempt
while the old one may still wait at the device, so that it is acted on at most
`Attempts` times needs a count of what waits: `ServedInv` adds what was served
and what is in the inbox. `InboxInv` says that all that waits is the request in
hand, which is why nothing of a request comes after the next one was asked for;
`ReplyInv` that an answer taken for success follows an action, which rests on
`NoFalseSuccess`, a lemma about `Heard`. `RequestsAreDeliveries` is the
refinement; `CancelStopsRequests` (`LateInv`) is about the flag.
`FlashInv` and `StationInv` are about the child and about what is on its way from
the station. `OneAttemptSendsOnce` is the counterpart of the run `firmware_once`:
with one attempt per request an image is taken at most once, so the retries of
the client are all that the disagreement with the API document consists of.

The last part of the module adds where the driver is in its script (`PlaceInv`),
that what it compared is still as asked when the device is let go (`ReadInv`), and
that each request before was taken, but for what the device is deaf to (`WroteInv`):
for the settings no read shows, that is all there is. It rests on two facts of the
scripts: the read that is compared comes right before the request that lets the
device go, which is last (`ScriptFacts`), and each setting that is told is in a
request before it (`ToldInScript`). `DoneIsTrue` and `LeavesOnlyAsAsked` follow, and
so would fail for a driver that verified after a restart or left a request out. They
claim no more than the drivers' `verify`: a setting that is told and not compared
may be missing on a device that is deaf to it, and one that is not told on any.

### What is only model-checked

Liveness: `EveryJobEnds`, `WatchEnds`, `EverySessionEnds` and `EveryCallEnds`;
liveness under fairness is outside the prover. Every other property of a passing
run is proved.

## What the models assume of the world

- A device serves whole requests in the order in which they arrived, each at most
  once per delivery. Its answer may be lost, late, cut or reset.
- A device that refuses an image says so in a message that marks its end, or
  stays silent. `request_once` takes a close or a reset without a complete
  message for a reboot after an upload, so a device that cut its refusal short
  would be reported as updated (`Sends`).
- The commands of the host either take effect or do not; a sysctl that was
  written keeps its value.
- The tokio mutex is first come, first served, as documented.

## Not modelled

- mDNS (`mdns.rs`), rfkill, the wire types, the configuration: a bounded read and
  a parser each, with no state that outlives the call and nothing concurrent. The
  answer of a LAN scan is a free choice in `CandidateCache`.
- The Go client: it repeats the Rust client call by call; its one difference is a
  deadline over a whole conversation, which the client of `JobWatch` covers by
  giving up at any moment.
- Validation of requests before a submit: a rejected request changes nothing.
- `probe` and `identify` of a driver: one read, whose answer nothing depends on.
- The texts the drivers send and parse, and the packing of Z21 packets. The
  locomotives of a roster are written in one request per kind; they stand and fall
  together.
- In `JobWatch`: several watchers at once (a watcher changes nothing that another
  sees), the parsing of lines, and requests with missing parameters.
- In `RadioSession`: what `HostNetwork` opens up, an association that the kernel
  completes after the deadline. There and in `Daemon`: the death of the worker
  alone, with the guard and the hold that unwinding would drop; the release
  profile aborts.
- In `UsbFlash`: an error of `try_wait` itself.
- `DeviceJob` together with `Daemon`. The job of `DeviceJob` begins when the radio
  is ready and does not see the radio taken away; to it that is a device that
  stays silent.
- Time. Deadlines appear as the fairness that they pass, and as steps that may
  come at any moment.

## Plan

What would come next, most important first:

1. `DeviceJob` in the place of the free choice that `Daemon` makes while a job
   talks, so that a takeover of the radio shows in the verdict.
2. A LongFred that keeps the locomotives of roster slots it was not sent.
