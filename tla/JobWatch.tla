------------------------------ MODULE JobWatch ------------------------------
(***************************************************************************)
(* job.watch: a connection thread that streams one job's frames            *)
(* (crates/wireless-programmer/src/ipc.rs, stream_job_watch) to a client   *)
(* that drains them (crates/wp-client/src/watch.rs) and turns the last one *)
(* into its exit status (cli/client.rs, outcome).                          *)
(*                                                                         *)
(* The job itself is JobStream.  The thread holds no lock between two      *)
(* looks at the registry and blocks while the socket is full, so the job   *)
(* runs on, ends and may be forgotten at every point of the watch.         *)
(***************************************************************************)
EXTENDS JobStream

CONSTANTS
    SocketCap,      \* messages the socket buffers
    MaxFrames       \* bound: frames of the job before its terminal frame

ASSUME WatchAssumption ==
    /\ Running \cap ({"Unborn", "Forgotten", "Queued"} \cup Terminal) = {}
    /\ SocketCap \in Nat \ {0}
    /\ MaxFrames \in Nat

VARIABLES
    told,           \* history: every frame of the job, kept when it is forgotten
    server,         \* the thread: where it is, `since`, `sent_snapshot`, the batch
    wire,           \* messages written and not read
    closing,        \* what follows the last message: nothing yet, an end, an error
    client          \* the reader: messages seen, and how the watch ended

vars == <<state, frames, told, server, wire, closing, client>>
jobVars == <<state, frames, told>>

(* A message is a job frame or the snapshot.  `at` is its index in the     *)
(* frames of the job, 0 for a snapshot; it is not on the wire, only the    *)
(* properties look at it.                                                  *)
Message(i, f) == [at |-> i, state |-> f.state]
Snapshot(st)  == [at |-> 0, state |-> st]
Messages      == [at : Nat, state : Live \cup Terminal]

Closings  == {"open", "eof", "not_found", "partial"}
ServerPcs == {"start", "poll", "send", "snap", "gone", "closed", "dead"}
Results   == Terminal \cup {"none", "truncated", "NotFound", "Server",
                            "brokenFrame", "watchIdle", "interrupted"}

WatchInit ==
    /\ Init
    /\ told = <<>>
    /\ server = [pc |-> "start", since |-> 0, snapshot |-> FALSE, batch |-> <<>>]
    /\ wire = <<>>
    /\ closing = "open"
    /\ client = [seen |-> <<>>, result |-> "none"]

-----------------------------------------------------------------------------
(* The job                                                                 *)

Alive == server.pc # "dead"

(* The job takes a step; once its frames are at the bound it can only end. *)
JobStep(step) ==
    /\ Alive
    /\ step
    /\ told' = IF frames' = frames \/ state' = "Forgotten" THEN told ELSE frames'
    /\ UNCHANGED <<server, wire, closing, client>>

JobRuns ==
    JobStep(\/ Accept
            \/ Len(frames) < MaxFrames
               /\ (AnnounceCancel \/ \E st \in Running : Report(st)))

JobEnds == JobStep(\E st \in Terminal : Report(st))

JobForgotten == JobStep(Forget)

-----------------------------------------------------------------------------
(* The connection thread                                                   *)

Reading == client.result = "none"

(* conn.reply: waits for room while the client reads.                      *)
Write(m) ==
    /\ Reading
    /\ Len(wire) < SocketCap
    /\ wire' = Append(wire, m)

WatchStart ==
    /\ server.pc = "start"
    /\ server' = [server EXCEPT !.pc = IF Known THEN "poll" ELSE "gone"]
    /\ UNCHANGED <<jobVars, wire, closing, client>>

Fetched(since) == [i \in 1..(Len(frames) - since) |-> Message(since + i, frames[since + i])]

BugPollSkips ==                 \* `skip(since + 1)`
    /\ server.pc = "poll"
    /\ IF ~Known
       THEN server' = [server EXCEPT !.pc = "gone"]
       ELSE IF Len(frames) > server.since + 1
       THEN server' = [server EXCEPT !.pc = "send", !.batch = Fetched(server.since + 1)]
       ELSE frames = <<>> /\ ~server.snapshot /\ server' = [server EXCEPT !.pc = "snap"]
    /\ UNCHANGED <<jobVars, wire, closing, client>>

(* frames_since: a copy of what the registry has from `since` on.  With    *)
(* nothing new the thread goes to sleep and looks again, but for the one   *)
(* snapshot it sends if it has sent no frame.                              *)
WatchPoll ==
    /\ server.pc = "poll"
    /\ \/ /\ ~Known
          /\ server' = [server EXCEPT !.pc = "gone"]
       \/ /\ Known
          /\ Len(frames) > server.since
          /\ server' = [server EXCEPT !.pc = "send", !.batch = Fetched(server.since)]
       \/ /\ Known
          /\ frames = <<>>
          /\ ~server.snapshot
          /\ server' = [server EXCEPT !.pc = "snap"]
    /\ UNCHANGED <<jobVars, wire, closing, client>>

(* The frames of the batch go out one by one.  After the last one the      *)
(* thread returns if it was terminal and polls again if not.               *)
BatchDone   == Len(server.batch) = 1
EndsTheJob(m) == m.state \in Terminal

BugAdvanceLate(over) ==         \* `since` stays behind by the last frame of a batch
    /\ server' = [server EXCEPT !.batch = Tail(@), !.since = IF BatchDone THEN @ ELSE @ + 1,
                                !.pc = IF over THEN "closed" ELSE IF BatchDone THEN "poll" ELSE "send"]
    /\ closing' = IF over THEN "eof" ELSE closing

(* `since` grows by each frame here, by the whole batch at its end in the  *)
(* code; nothing looks at it in between.                                   *)
Advance(over) ==
    /\ server' = [server EXCEPT !.batch = Tail(@), !.since = @ + 1,
                                !.pc = IF over THEN "closed" ELSE IF BatchDone THEN "poll" ELSE "send"]
    /\ closing' = IF over THEN "eof" ELSE closing

WatchSend ==
    /\ server.pc = "send"
    /\ Write(Head(server.batch))
    /\ Advance(BatchDone /\ EndsTheJob(Head(server.batch)))
    /\ UNCHANGED <<jobVars, client>>

(* The snapshot is taken in a critical section after the one that found no *)
(* frames: the job may have moved, ended or gone in between.  `since`      *)
(* stays 0, so that every frame still follows.                             *)
BugSnapshotCounts ==            \* `since` is bumped for the snapshot
    /\ server.pc = "snap"
    /\ Known
    /\ Write(Snapshot(state))
    /\ server' = [server EXCEPT !.snapshot = TRUE, !.since = 1,
                                !.pc = IF state \in Terminal THEN "closed" ELSE "poll"]
    /\ closing' = IF state \in Terminal THEN "eof" ELSE closing
    /\ UNCHANGED <<jobVars, client>>

WatchSnapshot ==
    /\ server.pc = "snap"
    /\ Known
    /\ Write(Snapshot(state))
    /\ server' = [server EXCEPT !.snapshot = TRUE,
                                !.pc = IF state \in Terminal THEN "closed" ELSE "poll"]
    /\ closing' = IF state \in Terminal THEN "eof" ELSE closing
    /\ UNCHANGED <<jobVars, client>>

BugSnapshotGoneHangsUp ==       \* returns when the job is not there any more
    /\ server.pc = "snap"
    /\ ~Known
    /\ server' = [server EXCEPT !.pc = "closed"]
    /\ closing' = "eof"
    /\ UNCHANGED <<jobVars, wire, client>>

WatchSnapshotGone ==
    /\ server.pc = "snap"
    /\ ~Known
    /\ server' = [server EXCEPT !.pc = "poll"]
    /\ UNCHANGED <<jobVars, wire, closing, client>>

(* The error answer for an unknown job, at the start or in mid-stream.     *)
WatchGone ==
    /\ server.pc = "gone"
    /\ Reading
    /\ server' = [server EXCEPT !.pc = "closed"]
    /\ closing' = "not_found"
    /\ UNCHANGED <<jobVars, wire, client>>

(* A write to a client that hung up fails and ends the handler.            *)
WatchWriteFails ==
    /\ server.pc \in {"send", "snap", "gone"}
    /\ ~Reading
    /\ server' = [server EXCEPT !.pc = "closed", !.batch = <<>>]
    /\ closing' = "eof"
    /\ UNCHANGED <<jobVars, wire, client>>

(* The process is killed, between two messages or in the middle of one.    *)
DaemonDies ==
    /\ Alive
    /\ server' = [server EXCEPT !.pc = "dead", !.batch = <<>>]
    /\ \/ closing' = IF server.pc = "closed" THEN closing ELSE "eof"
       \/ server.pc \in {"send", "snap", "gone"} /\ closing' = "partial"
    /\ UNCHANGED <<jobVars, wire, client>>

-----------------------------------------------------------------------------
(* The client                                                              *)

Ends(result) == client' = [client EXCEPT !.result = result]

(* drain_with: every message is handed on; a terminal one ends the watch   *)
(* and is the exit status.                                                 *)
ClientReads ==
    /\ Reading
    /\ wire # <<>>
    /\ wire' = Tail(wire)
    /\ client' = [seen |-> Append(client.seen, Head(wire)),
                  result |-> IF EndsTheJob(Head(wire)) THEN Head(wire).state ELSE "none"]
    /\ UNCHANGED <<jobVars, server, closing>>

(* next_frame at the end of the stream: a clean end yields the last frame  *)
(* seen, which is no outcome; an end inside a message is an error; an      *)
(* error answer is mapped by its code (ClientError::from_error_body).      *)
ResultOf(how) ==
    CASE how = "eof" -> "truncated"
      [] how = "partial" -> "brokenFrame"
      [] how = "notFound" -> "NotFound"
      [] OTHER -> "Server"

ClientEnds ==
    /\ Reading
    /\ wire = <<>>
    /\ closing # "open"
    /\ Ends(ResultOf(closing))
    /\ UNCHANGED <<jobVars, server, wire, closing>>

(* No message within the idle deadline.                                    *)
ClientIdles ==
    /\ Reading
    /\ wire = <<>>
    /\ closing = "open"
    /\ Ends("watchIdle")
    /\ UNCHANGED <<jobVars, server, wire, closing>>

(* The user interrupts the client.                                         *)
ClientInterrupted ==
    /\ Reading
    /\ Ends("interrupted")
    /\ UNCHANGED <<jobVars, server, wire, closing>>

ServerNext ==
    \/ WatchStart \/ WatchPoll \/ WatchSend \/ WatchSnapshot \/ WatchSnapshotGone
    \/ WatchGone \/ WatchWriteFails

ClientNext == ClientReads \/ ClientEnds

WatchNext ==
    \/ JobRuns \/ JobEnds \/ JobForgotten
    \/ ServerNext \/ DaemonDies
    \/ ClientNext \/ ClientIdles \/ ClientInterrupted

(* The thread is scheduled, the client reads what arrives, and a live job  *)
(* ends (EveryJobEnds of JobRegistry, with panic = "abort" in the release  *)
(* build).  Nothing makes a job be accepted, forgotten or cancelled, and   *)
(* no deadline, interrupt or crash needs to happen.                        *)
Fairness == WF_vars(ServerNext) /\ WF_vars(ClientNext) /\ WF_vars(JobEnds)

WatchSpec == WatchInit /\ [][WatchNext]_vars /\ Fairness

-----------------------------------------------------------------------------
(* Properties                                                              *)

(* Types, and that the thread is never ahead of the job: `since` counts    *)
(* frames the job really had.                                              *)
WatchTypeOK ==
    /\ state \in States
    /\ frames \in Seq(Frames)
    /\ told \in Seq(Frames)
    /\ server \in [pc : ServerPcs, since : 0..Len(told), snapshot : BOOLEAN,
                   batch : Seq(Messages)]
    /\ wire \in Seq(Messages) /\ Len(wire) <= SocketCap
    /\ closing \in Closings
    /\ client \in [seen : Seq(Messages), result : Results]

(* Every message of the watch, from the first the client saw to the last   *)
(* the thread has in hand.                                                 *)
Stream == client.seen \o wire \o server.batch

(* The stream is at most one snapshot, at its head, and then the frames of *)
(* the job from the first on: none skipped, none twice, none out of order, *)
(* although the job pushes, ends and is forgotten while they are on their  *)
(* way (ipc.rs stream_job_watch, jobs.rs frames_since).                    *)
Lead == IF server.snapshot THEN 1 ELSE 0

StreamInOrder ==
    /\ Len(Stream) >= Lead
    /\ Len(Stream) - Lead <= Len(told)
    /\ server.snapshot => Stream[1].at = 0
    /\ \A i \in 1..(Len(Stream) - Lead) : Stream[i + Lead] = Message(i, told[i])

(* A client that exits with an outcome exits with the job's own, and has   *)
(* been handed every frame up to it unless the snapshot told it            *)
(* (watch.rs drain_with, cli/client.rs outcome).                           *)
Outcome == IF told = <<>> THEN "none" ELSE told[Len(told)].state

OutcomeIsWhole ==
    client.result \in Terminal =>
        /\ client.result = Outcome
        /\ \/ Len(client.seen) - Lead = Len(told)
           \/ client.seen[Len(client.seen)].at = 0

(* The stream never just stops: only a daemon that died leaves a client    *)
(* without an outcome and without an error; a job forgotten in mid-stream  *)
(* is answered (ipc.rs stream_job_watch; cli/client.rs Truncated).         *)
TruncatedOnlyByDeath == client.result = "truncated" => ~Alive

(* What the invariants above need to be inductive.  The job: what was told *)
(* is what the registry has, and ends with the outcome.                    *)
ToldInv ==
    /\ Known => told = frames
    /\ state = "Unborn" => told = <<>> /\ frames = <<>>
    /\ \A i \in 1..Len(told) : told[i].state \in Terminal => i = Len(told)
    /\ state \in Live => Outcome \notin Terminal
    /\ state \in Terminal => Outcome = state

(* The thread: `since` counts the frames it has written, and there is a    *)
(* batch exactly while it sends one.                                       *)
ThreadInv ==
    /\ (server.pc = "send") = (server.batch # <<>>)
    /\ server.pc \notin {"closed", "dead"} =>
           Len(client.seen) + Len(wire) = Lead + server.since
    /\ server.pc = "snap" => server.since = 0 /\ ~server.snapshot
    /\ server.pc = "start" => server.since = 0 /\ ~server.snapshot
    /\ server.pc # "closed" /\ Alive => closing = "open"

(* The end: a snapshot that ended the watch told the outcome; a client     *)
(* stops at the first terminal message; a clean end follows one.           *)
EndInv ==
    /\ server.snapshot /\ Stream[1].state \in Terminal => Stream[1].state = Outcome
    /\ Reading => \A i \in 1..Len(client.seen) : client.seen[i].state \notin Terminal
    /\ client.result \in Terminal =>
           /\ client.seen # <<>>
           /\ client.seen[Len(client.seen)].state = client.result
    /\ closing = "eof" /\ Alive /\ Reading =>
           wire # <<>> /\ wire[Len(wire)].state \in Terminal

WatchInv ==
    /\ WatchTypeOK
    /\ StreamInOrder
    /\ ToldInv
    /\ ThreadInv
    /\ EndInv
    /\ TruncatedOnlyByDeath

(* Every watch ends on both sides, also when the client hung up or the job *)
(* ended or was forgotten before the thread looked (ipc.rs:230-232: a      *)
(* snapshot that counted as a frame would skip the only terminal one).     *)
WatchEnds == <>(server.pc \in {"closed", "dead"} /\ ~Reading)

(* docs/api.md gives a job the daemon does not know the error code         *)
(* `notFound`, for which the clients have an error of their own.           *)
UnknownJobIsNotFound ==
    closing = "not_found" => client.result # "Server"

=============================================================================
