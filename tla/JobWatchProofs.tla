--------------------------- MODULE JobWatchProofs ---------------------------
(***************************************************************************)
(* Proofs about JobWatch, for every set of running states, socket size and *)
(* bound on the frames: the stream a client gets is complete and in order, *)
(* the outcome it reports is the job's, and it is never left without one   *)
(* or an error unless the daemon died.                                     *)
(***************************************************************************)
EXTENDS JobWatch, SequenceTheorems, TLAPS

-----------------------------------------------------------------------------
(* Sequences                                                               *)

(* Reading a message moves it from the socket to the client.               *)
LEMMA MoveHead ==
    ASSUME NEW S, NEW s \in Seq(S), NEW t \in Seq(S), t # <<>>
    PROVE  /\ Append(s, Head(t)) \in Seq(S) /\ Tail(t) \in Seq(S)
           /\ Len(Append(s, Head(t))) = Len(s) + 1
           /\ Len(Tail(t)) = Len(t) - 1
           /\ Len(Append(s, Head(t)) \o Tail(t)) = Len(s \o t)
           /\ Append(s, Head(t)) \o Tail(t) = s \o t
<1>1. /\ Append(s, Head(t)) \in Seq(S) /\ Tail(t) \in Seq(S)
      /\ Len(Append(s, Head(t))) = Len(s) + 1
      /\ Len(Tail(t)) = Len(t) - 1
  OBVIOUS
<1>2. /\ Append(s, Head(t)) \o Tail(t) \in Seq(S)
      /\ s \o t \in Seq(S)
      /\ Len(Append(s, Head(t)) \o Tail(t)) = Len(s \o t)
  BY <1>1
<1>3. ASSUME NEW i \in 1..Len(s \o t)
      PROVE  (Append(s, Head(t)) \o Tail(t))[i] = (s \o t)[i]
  BY <1>1
<1> QED
  BY <1>1, <1>2, <1>3

(* The stream and its parts.                                               *)
LEMMA StreamParts ==
    ASSUME NEW S, NEW a \in Seq(S), NEW b \in Seq(S), NEW c \in Seq(S)
    PROVE  /\ a \o b \o c \in Seq(S)
           /\ Len(a \o b \o c) = Len(a) + Len(b) + Len(c)
           /\ \A i \in 1..Len(a) : (a \o b \o c)[i] = a[i]
           /\ \A i \in 1..Len(b) : (a \o b \o c)[Len(a) + i] = b[i]
           /\ \A i \in 1..Len(c) : (a \o b \o c)[Len(a) + Len(b) + i] = c[i]
           /\ \A i \in 1..(Len(a) + Len(b)) : (a \o b \o c)[i] = (a \o b)[i]
           /\ a \o b \o c = a \o (b \o c)
OBVIOUS

(* The same as an operator, and the two ways a message moves in it.        *)
Cat(s, w, b) == s \o w \o b
Sent(w, b)   == Append(w, Head(b))

LEMMA CatLen ==
    ASSUME NEW S, NEW s \in Seq(S), NEW w \in Seq(S), NEW b \in Seq(S)
    PROVE  Len(Cat(s, w, b)) = Len(s) + Len(w) + Len(b)
BY DEF Cat

LEMMA CatHead ==
    ASSUME NEW S, NEW s \in Seq(S), NEW w \in Seq(S), NEW b \in Seq(S)
    PROVE  \A i \in 1..Len(s) : Cat(s, w, b)[i] = s[i]
BY DEF Cat

(* Dropping what is in hand leaves the beginning of the stream.            *)
LEMMA CatCut ==
    ASSUME NEW S, NEW s \in Seq(S), NEW w \in Seq(S), NEW b \in Seq(S), NEW e, e = <<>>
    PROVE  /\ Len(Cat(s, w, e)) = Len(s) + Len(w)
           /\ \A i \in 1..(Len(s) + Len(w)) : Cat(s, w, e)[i] = Cat(s, w, b)[i]
BY DEF Cat

LEMMA SendKeepsStream ==
    ASSUME NEW S, NEW s \in Seq(S), NEW w \in Seq(S), NEW b \in Seq(S), b # <<>>
    PROVE  Cat(s, Sent(w, b), Tail(b)) = Cat(s, w, b)
<1>1. Sent(w, b) \in Seq(S) /\ Tail(b) \in Seq(S) /\ Sent(w, b) \o Tail(b) = w \o b
  BY MoveHead DEF Sent
<1>2. \A x, y \in Seq(S) : Cat(s, x, y) = s \o (x \o y)
  BY DEF Cat
<1>3. Cat(s, Sent(w, b), Tail(b)) = s \o (Sent(w, b) \o Tail(b))
  BY <1>1, <1>2, Zenon
<1>4. Cat(s, w, b) = s \o (w \o b)
  BY <1>2, Zenon
<1> QED
  BY <1>1, <1>3, <1>4, Zenon

LEMMA ReadKeepsStream ==
    ASSUME NEW S, NEW s \in Seq(S), NEW w \in Seq(S), NEW b \in Seq(S), w # <<>>
    PROVE  Cat(Sent(s, w), Tail(w), b) = Cat(s, w, b)
<1>1. Sent(s, w) \o Tail(w) = s \o w
  BY MoveHead DEF Sent
<1> QED
  BY <1>1 DEF Cat

-----------------------------------------------------------------------------
(* Types                                                                   *)

LEMMA StateSets ==
    /\ Live \cap Terminal = {}
    /\ "Unborn" \notin Live \cup Terminal
    /\ "Forgotten" \notin Live \cup Terminal
    /\ "Queued" \in Live /\ Running \subseteq Live
BY WatchAssumption DEF Live, Terminal

LEMMA FetchedType ==
    ASSUME WatchTypeOK, NEW since \in 0..Len(frames)
    PROVE  /\ Fetched(since) \in Seq(Messages)
           /\ Len(Fetched(since)) = Len(frames) - since
           /\ \A i \in 1..(Len(frames) - since) :
                  Fetched(since)[i] = Message(since + i, frames[since + i])
<1>1. ASSUME NEW i \in 1..(Len(frames) - since)
      PROVE  Message(since + i, frames[since + i]) \in Messages
  <2>1. frames \in Seq(Frames) /\ since + i \in 1..Len(frames) /\ since + i \in Nat
    BY DEF WatchTypeOK
  <2>2. frames[since + i] \in Frames
    BY <2>1
  <2>3. frames[since + i].state \in Live \cup Terminal
    BY <2>2 DEF Frames
  <2> QED
    BY <2>1, <2>3 DEF Message, Messages
<1> QED
  BY <1>1 DEF Fetched, WatchTypeOK

LEMMA WatchTypeInit == WatchInit => WatchTypeOK
BY WatchAssumption DEF WatchInit, Init, WatchTypeOK, States, ServerPcs, Closings, Results

(* Steps of the job only add to what was told.                             *)
LEMMA ToldGrows ==
    ASSUME WatchTypeOK, ToldInv, NEW f \in Frames, frames' = Append(frames, f), state \in Live,
           told' = frames'
    PROVE  /\ frames' \in Seq(Frames) /\ told' = Append(told, f)
           /\ Len(told') = Len(told) + 1
           /\ \A i \in 1..Len(told) : told'[i] = told[i]
BY DEF WatchTypeOK, ToldInv, Known

LEMMA FrameTypes ==
    /\ \A st \in Live \cup Terminal : Frame(st) \in Frames /\ CancelFrame(st) \in Frames
    /\ \A s \in Seq(Frames), f \in Frames : Append(s, f) # s
<1>1. \A st \in Live \cup Terminal : Frame(st) \in Frames /\ CancelFrame(st) \in Frames
  BY DEF Frame, CancelFrame, Frames
<1>2. ASSUME NEW s \in Seq(Frames), NEW f \in Frames PROVE Append(s, f) # s
  <2>1. Len(Append(s, f)) = Len(s) + 1
    OBVIOUS
  <2> QED
    BY <2>1
<1> QED
  BY <1>1, <1>2

-----------------------------------------------------------------------------
(* The job                                                                 *)

(* The three things that can happen to the job under a watch.              *)
Accepted  == state = "Unborn" /\ state' = "Queued" /\ UNCHANGED <<frames, told>>
Framed(f) ==
    /\ state \in Live /\ state' \in Live \cup Terminal /\ f.state = state'
    /\ frames' = Append(frames, f) /\ told' = frames'
Dropped   == state \in Terminal /\ state' = "Forgotten" /\ frames' = <<>> /\ told' = told

LEMMA JobCases ==
    ASSUME WatchTypeOK, JobRuns \/ JobEnds \/ JobForgotten
    PROVE  /\ UNCHANGED <<server, wire, closing, client>> /\ Alive
           /\ Accepted \/ Dropped \/ \E f \in Frames : Framed(f)
<1>1. UNCHANGED <<server, wire, closing, client>> /\ Alive
  BY DEF JobRuns, JobEnds, JobForgotten, JobStep
<1>2. /\ told' = IF frames' = frames \/ state' = "Forgotten" THEN told ELSE frames'
      /\ Accept \/ AnnounceCancel \/ Forget \/ \E st \in Running \cup Terminal : Report(st)
  BY DEF JobRuns, JobEnds, JobForgotten, JobStep
<1>3. CASE Accept
  BY <1>1, <1>2, <1>3 DEF Accept, Accepted
<1>4. CASE AnnounceCancel
  <2>1. state \in Live /\ state' = state /\ frames' = Append(frames, CancelFrame(state))
    BY <1>4 DEF AnnounceCancel
  <2>2. CancelFrame(state) \in Frames /\ CancelFrame(state).state = state'
    BY <2>1, FrameTypes DEF CancelFrame
  <2>3. frames' # frames /\ state' # "Forgotten"
    BY <2>1, <2>2, FrameTypes, StateSets DEF WatchTypeOK
  <2> QED
    BY <1>1, <1>2, <2>1, <2>2, <2>3 DEF Framed
<1>5. CASE Forget
  BY <1>1, <1>2, <1>5 DEF Forget, Dropped
<1>6. CASE \E st \in Running \cup Terminal : Report(st)
  <2>1. PICK st \in Running \cup Terminal : Report(st)
    BY <1>6
  <2>2. state \in Live /\ state' = st /\ frames' = Append(frames, Frame(st))
    BY <2>1 DEF Report
  <2>3. st \in Live \cup Terminal
    BY StateSets
  <2>4. Frame(st) \in Frames /\ Frame(st).state = state'
    BY <2>2, <2>3, FrameTypes DEF Frame
  <2>5. frames' # frames /\ state' # "Forgotten"
    BY <2>2, <2>3, <2>4, FrameTypes, StateSets DEF WatchTypeOK
  <2> QED
    BY <1>1, <1>2, <2>2, <2>3, <2>4, <2>5 DEF Framed
<1> QED
  BY <1>1, <1>2, <1>3, <1>4, <1>5, <1>6

(* What a watch relies on is not disturbed by the job.                     *)
LEMMA JobKeepsInv ==
    ASSUME WatchInv, JobRuns \/ JobEnds \/ JobForgotten
    PROVE  WatchInv'
<1> USE DEF WatchInv
<1>1. UNCHANGED <<server, wire, closing, client>> /\ Alive
  BY JobCases
<1>2. UNCHANGED <<Stream, Lead, Reading, Alive>>
  BY <1>1 DEF Stream, Lead, Reading, Alive
<1>3. ThreadInv' /\ TruncatedOnlyByDeath'
  BY <1>1, <1>2 DEF ThreadInv, TruncatedOnlyByDeath
<1>4. /\ Reading' => \A i \in 1..Len(client'.seen) : client'.seen[i].state \notin Terminal
      /\ client'.result \in Terminal =>
            client'.seen # <<>> /\ client'.seen[Len(client'.seen)].state = client'.result
      /\ closing' = "eof" /\ Alive' /\ Reading' =>
            wire' # <<>> /\ wire'[Len(wire')].state \in Terminal
  BY <1>1, <1>2 DEF EndInv
<1>5. CASE told' = told
  <2>1. StreamInOrder' /\ Outcome' = Outcome
    BY <1>1, <1>2, <1>5 DEF StreamInOrder, Outcome
  <2>2. EndInv'
    BY <1>1, <1>2, <1>4, <2>1 DEF EndInv
  <2>3. CASE Accepted
    <3>1. state' \in Live /\ state' \notin Terminal /\ state' # "Unborn"
      BY <2>3, StateSets DEF Accepted
    <3>2. told = <<>> /\ frames = <<>>
      BY <2>3 DEF Accepted, ToldInv
    <3>3. Outcome' = "none" /\ "none" \notin Terminal
      BY <3>2, <1>5 DEF Outcome, Terminal
    <3>4. WatchTypeOK'
      BY <1>1, <3>2, <2>3 DEF WatchTypeOK, Accepted, States, Live
    <3>5. ToldInv'
      BY <2>3, <3>1, <3>2, <3>3, <1>5 DEF ToldInv, Accepted, Known
    <3> QED
      BY <1>3, <2>1, <2>2, <3>4, <3>5
  <2>4. CASE Dropped
    <3>1. state' \notin Live /\ state' \notin Terminal /\ state' # "Unborn"
      BY <2>4, StateSets DEF Dropped
    <3>2. WatchTypeOK'
      BY <1>1, <2>4 DEF WatchTypeOK, Dropped, States
    <3>3. ToldInv'
      BY <2>4, <3>1, <1>5 DEF ToldInv, Known
    <3> QED
      BY <1>3, <2>1, <2>2, <3>2, <3>3
  <2>5. CASE \E f \in Frames : Framed(f)
    <3>1. PICK f \in Frames : Framed(f)
      BY <2>5
    <3>2. Len(told') = Len(told) + 1
      BY <3>1, ToldGrows DEF Framed
    <3> QED
      BY <3>2, <1>5 DEF WatchTypeOK
  <2> QED
    BY <2>3, <2>4, <2>5, JobCases
<1>6. CASE \E f \in Frames : Framed(f)
  <2>1. PICK f \in Frames : Framed(f)
    BY <1>6
  <2>2. /\ frames' \in Seq(Frames) /\ told' = Append(told, f) /\ told' = frames'
        /\ Len(told') = Len(told) + 1 /\ told \in Seq(Frames)
        /\ \A i \in 1..Len(told) : told'[i] = told[i]
    BY <2>1, ToldGrows DEF Framed, WatchTypeOK
  <2>3. told'[Len(told')] = f /\ told' # <<>> /\ Outcome' = state'
    BY <2>1, <2>2 DEF Outcome, Framed
  <2>4. state \in Live /\ Outcome \notin Terminal
    BY <2>1 DEF Framed, ToldInv
  <2>5. \A i \in 1..Len(told) : told[i].state \notin Terminal
    BY <2>4 DEF ToldInv, Outcome, WatchTypeOK
  <2>6. state' \in States /\ state' # "Unborn"
    BY <2>1, StateSets DEF Framed, States
  <2>7. WatchTypeOK'
    BY <1>1, <2>2, <2>6 DEF WatchTypeOK
  <2>8. ToldInv'
    <3>1. Known' => told' = frames'
      BY <2>2
    <3>2. \A i \in 1..Len(told') : told'[i].state \in Terminal => i = Len(told')
      BY <2>2, <2>5
    <3>3. state' \in Live => Outcome' \notin Terminal
      BY <2>3, StateSets
    <3> QED
      BY <2>3, <2>6, <3>1, <3>2, <3>3 DEF ToldInv
  <2>9. StreamInOrder'
    <3>1. Len(Stream) - Lead <= Len(told) /\ Lead \in Nat /\ Len(Stream) \in Nat
      BY StreamParts DEF StreamInOrder, Lead, Stream, WatchTypeOK
    <3>2. \A i \in 1..(Len(Stream) - Lead) : i \in 1..Len(told)
      BY <2>2, <3>1
    <3>3. \A i \in 1..(Len(Stream) - Lead) : Stream[i + Lead] = Message(i, told'[i])
      BY <2>2, <3>2 DEF StreamInOrder
    <3>4. Len(told) <= Len(told')
      BY <2>2
    <3> QED
      BY <1>1, <1>2, <3>1, <3>3, <3>4, <2>2 DEF StreamInOrder
  <2>10. ~(server.snapshot /\ Stream[1].state \in Terminal)
    BY <2>4 DEF EndInv
  <2>11. EndInv'
    BY <1>1, <1>2, <1>4, <2>10 DEF EndInv
  <2> QED
    BY <1>3, <2>7, <2>8, <2>9, <2>11
<1> QED
  BY <1>5, <1>6, JobCases DEF Accepted, Dropped

-----------------------------------------------------------------------------
(* The connection thread                                                   *)

LEMMA Parts ==
    ASSUME WatchTypeOK
    PROVE  /\ client.seen \in Seq(Messages) /\ client.result \in Results
           /\ wire \in Seq(Messages) /\ server.batch \in Seq(Messages)
           /\ server.pc \in ServerPcs /\ server.snapshot \in BOOLEAN
           /\ server.since \in Nat /\ server.since <= Len(told) /\ Len(told) \in Nat
           /\ server = [pc |-> server.pc, since |-> server.since,
                        snapshot |-> server.snapshot, batch |-> server.batch]
           /\ client = [seen |-> client.seen, result |-> client.result]
           /\ Lead \in {0, 1}
BY DEF WatchTypeOK, Lead

(* The two ends of the stream by name: a fact about a name is an easier    *)
(* one to use than a fact about a field.                                   *)
Seen  == client.seen
Batch == server.batch

LEMMA StreamFacts ==
    ASSUME WatchTypeOK
    PROVE  /\ Stream = Cat(Seen, wire, Batch)
           /\ Seen \in Seq(Messages) /\ wire \in Seq(Messages) /\ Batch \in Seq(Messages)
           /\ Len(Stream) = Len(Seen) + Len(wire) + Len(Batch)
           /\ \A i \in 1..Len(Seen) : Stream[i] = Seen[i]
           /\ Len(Seen) \in Nat /\ Len(wire) \in Nat /\ Len(Batch) \in Nat
           /\ Len(Stream) \in Nat
<1>1. Seen \in Seq(Messages) /\ wire \in Seq(Messages) /\ Batch \in Seq(Messages)
  BY Parts DEF Seen, Batch
<1>2. Stream = Cat(Seen, wire, Batch)
  BY DEF Stream, Cat, Seen, Batch
<1>3. Len(Stream) = Len(Seen) + Len(wire) + Len(Batch)
  BY <1>1, <1>2, CatLen
<1>4. \A i \in 1..Len(Seen) : Stream[i] = Seen[i]
  BY <1>1, <1>2, CatHead
<1>5. Len(Seen) \in Nat /\ Len(wire) \in Nat /\ Len(Batch) \in Nat
  BY <1>1
<1>6. Len(Stream) \in Nat
  BY <1>3, <1>5
<1> QED
  BY <1>1, <1>2, <1>3, <1>4, <1>5, <1>6

(* A step that leaves the job and the messages where they are keeps the    *)
(* order of the stream and what is known of the job.                       *)
LEMMA Undisturbed ==
    ASSUME WatchInv, UNCHANGED jobVars, UNCHANGED <<Stream, Lead>>,
           server'.snapshot = server.snapshot
    PROVE  /\ ToldInv' /\ StreamInOrder' /\ Outcome' = Outcome
           /\ (server'.snapshot /\ Stream'[1].state \in Terminal => Stream'[1].state = Outcome')
<1>1. ToldInv' /\ Outcome' = Outcome
  BY DEF WatchInv, ToldInv, Outcome, jobVars, Known
<1>2. StreamInOrder'
  BY DEF WatchInv, StreamInOrder, jobVars
<1> QED
  BY <1>1, <1>2 DEF WatchInv, EndInv

LEMMA MoveKeepsInv ==
    ASSUME WatchInv, WatchStart \/ WatchSnapshotGone
    PROVE  WatchInv'
<1>1. /\ UNCHANGED jobVars /\ UNCHANGED <<wire, closing, client>>
      /\ server.pc \in {"start", "snap"}
      /\ \E pc \in {"poll", "gone"} : server' = [server EXCEPT !.pc = pc]
  BY DEF WatchStart, WatchSnapshotGone
<1>2. PICK pc \in {"poll", "gone"} : server' = [server EXCEPT !.pc = pc]
  BY <1>1
<1>3. /\ server'.pc = pc /\ server'.since = server.since
      /\ server'.snapshot = server.snapshot /\ server'.batch = server.batch
  BY <1>2, Parts DEF WatchInv
<1>4. UNCHANGED <<Stream, Lead, Reading>>
  BY <1>1, <1>3 DEF Stream, Lead, Reading
<1>5. ToldInv' /\ StreamInOrder' /\ Outcome' = Outcome
  BY <1>1, <1>3, <1>4, Undisturbed
<1>6. WatchTypeOK'
  BY <1>1, <1>2 DEF WatchInv, WatchTypeOK, ServerPcs, jobVars
<1>7. ThreadInv'
  BY <1>1, <1>3, <1>4, Parts DEF WatchInv, ThreadInv, Alive
<1>8. EndInv'
  BY <1>1, <1>3, <1>4, <1>5 DEF WatchInv, EndInv, Alive
<1>9. TruncatedOnlyByDeath'
  BY <1>1, <1>3 DEF WatchInv, TruncatedOnlyByDeath, Alive
<1> QED
  BY <1>5, <1>6, <1>7, <1>8, <1>9 DEF WatchInv

LEMMA PollKeepsInv ==
    ASSUME WatchInv, WatchPoll
    PROVE  WatchInv'
<1> USE DEF WatchInv
<1>1. UNCHANGED jobVars /\ UNCHANGED <<wire, closing, client>> /\ server.pc = "poll"
  BY DEF WatchPoll
<1>2. server.batch = <<>> /\ Alive /\ Len(client.seen) + Len(wire) = Lead + server.since
  BY <1>1 DEF ThreadInv, Alive
<1>3. CASE \E pc \in {"gone", "snap"} :
              /\ server' = [server EXCEPT !.pc = pc]
              /\ pc = "snap" => Known /\ frames = <<>> /\ ~server.snapshot
  <2>1. PICK pc \in {"gone", "snap"} :
              /\ server' = [server EXCEPT !.pc = pc]
              /\ pc = "snap" => Known /\ frames = <<>> /\ ~server.snapshot
    BY <1>3
  <2>2. /\ server'.pc = pc /\ server'.since = server.since
        /\ server'.snapshot = server.snapshot /\ server'.batch = server.batch
    BY <2>1, Parts
  <2>3. UNCHANGED <<Stream, Lead, Reading>>
    BY <1>1, <2>2 DEF Stream, Lead, Reading
  <2>4. ToldInv' /\ StreamInOrder' /\ Outcome' = Outcome
    BY <1>1, <2>2, <2>3, Undisturbed
  <2>5. WatchTypeOK'
    BY <1>1, <2>1 DEF WatchTypeOK, ServerPcs, jobVars
  <2>6. pc = "snap" => server.since = 0
    <3>1. pc = "snap" => Len(told) = 0
      BY <2>1 DEF ToldInv
    <3> QED
      BY <3>1, Parts
  <2>7. ThreadInv'
    BY <1>1, <1>2, <2>1, <2>2, <2>3, <2>6, Parts DEF ThreadInv, Alive
  <2>8. EndInv'
    BY <1>1, <1>2, <2>2, <2>3, <2>4 DEF EndInv, Alive
  <2>9. TruncatedOnlyByDeath'
    BY <1>1, <2>2 DEF TruncatedOnlyByDeath, Alive
  <2> QED
    BY <2>4, <2>5, <2>7, <2>8, <2>9
<1>4. CASE /\ Known /\ Len(frames) > server.since
           /\ server' = [server EXCEPT !.pc = "send", !.batch = Fetched(server.since)]
  <2>1. /\ server'.pc = "send" /\ server'.since = server.since
        /\ server'.snapshot = server.snapshot /\ server'.batch = Fetched(server.since)
    BY <1>4, Parts
  <2>2. told = frames
    BY <1>4 DEF ToldInv
  <2>3. /\ server'.batch \in Seq(Messages) /\ server'.batch # <<>>
        /\ Len(server'.batch) = Len(told) - server.since
        /\ \A i \in 1..(Len(told) - server.since) :
               server'.batch[i] = Message(server.since + i, told[server.since + i])
    BY <1>4, <2>1, <2>2, FetchedType, Parts
  <2>4. /\ Len(Stream) = Lead + server.since
        /\ Len(Stream') = Lead + Len(told)
        /\ \A i \in 1..Len(Stream) : Stream'[i] = Stream[i]
        /\ \A i \in 1..Len(server'.batch) :
               Stream'[Lead + server.since + i] = server'.batch[i]
    <3>1. /\ client'.seen = client.seen /\ wire' = wire
          /\ Len(server.batch) = 0 /\ Len(client.seen) + Len(wire) = Lead + server.since
      BY <1>1, <1>2
    <3>2. /\ Len(Stream) = Len(client.seen) + Len(wire)
          /\ \A i \in 1..(Len(client.seen) + Len(wire)) : Stream[i] = (client.seen \o wire)[i]
      BY <3>1, Parts, StreamParts DEF Stream
    <3>3. /\ Stream' = client.seen \o wire \o server'.batch
          /\ server'.batch \in Seq(Messages)
          /\ client.seen \in Seq(Messages) /\ wire \in Seq(Messages)
      BY <3>1, <2>3, Parts DEF Stream
    <3>4. /\ Len(Stream') = Len(client.seen) + Len(wire) + Len(server'.batch)
          /\ \A i \in 1..(Len(client.seen) + Len(wire)) : Stream'[i] = (client.seen \o wire)[i]
          /\ \A i \in 1..Len(server'.batch) :
                 Stream'[Len(client.seen) + Len(wire) + i] = server'.batch[i]
      <4> DEFINE batch == server'.batch
                 st    == client.seen \o wire \o batch
      <4>0. batch \in Seq(Messages)
        BY <3>3
      <4> HIDE DEF batch
      <4>1. /\ Len(st) = Len(client.seen) + Len(wire) + Len(batch)
            /\ \A i \in 1..(Len(client.seen) + Len(wire)) : st[i] = (client.seen \o wire)[i]
            /\ \A i \in 1..Len(batch) : st[Len(client.seen) + Len(wire) + i] = batch[i]
        BY <3>3, <4>0, StreamParts
      <4>2. Stream' = st /\ server'.batch = batch
        BY <3>3 DEF batch
      <4> HIDE DEF st
      <4> QED
        BY <4>1, <4>2
    <3>5. Len(Stream') = Lead + Len(told)
      BY <3>1, <3>4, <2>3, Parts
    <3> QED
      BY <3>1, <3>2, <3>4, <3>5
  <2>5. Lead' = Lead
    BY <2>1 DEF Lead
  <2>6. \A i \in 1..(Len(Stream') - Lead) : Stream'[i + Lead] = Message(i, told[i])
    <3>1. ASSUME NEW i \in 1..server.since
          PROVE  Stream'[i + Lead] = Message(i, told[i])
      <4>1. i + Lead \in 1..Len(Stream) /\ i \in 1..(Len(Stream) - Lead)
        BY <2>4, Parts
      <4>2. Stream[i + Lead] = Message(i, told[i])
        BY <4>1 DEF StreamInOrder
      <4> QED
        BY <4>1, <4>2, <2>4
    <3>2. ASSUME NEW i \in (server.since + 1)..Len(told)
          PROVE  Stream'[i + Lead] = Message(i, told[i])
      <4>1. /\ i - server.since \in 1..(Len(told) - server.since)
            /\ server.since + (i - server.since) = i
            /\ Lead + server.since + (i - server.since) = i + Lead
        <5>1. server.since \in Nat /\ Len(told) \in Nat /\ Lead \in Nat /\ i \in Nat
          BY Parts
        <5> QED
          BY <5>1
      <4>2. Stream'[i + Lead] = server'.batch[i - server.since]
        BY <4>1, <2>3, <2>4
      <4>3. server'.batch[i - server.since] = Message(i, told[i])
        BY <4>1, <2>3
      <4> QED
        BY <4>2, <4>3
    <3>3. \A i \in 1..(Len(Stream') - Lead) :
              i \in 1..server.since \/ i \in (server.since + 1)..Len(told)
      BY <2>4, Parts
    <3> QED
      BY <3>1, <3>2, <3>3
  <2>7. server.snapshot => Stream # <<>> /\ Stream'[1] = Stream[1]
    BY <2>4, Parts DEF Lead
  <2>8. StreamInOrder'
    BY <1>1, <2>1, <2>4, <2>5, <2>6, <2>7, Parts DEF StreamInOrder, jobVars
  <2>9. WatchTypeOK'
    <3>1. server' \in [pc : ServerPcs, since : 0..Len(told), snapshot : BOOLEAN,
                       batch : Seq(Messages)]
      <4>1. server'.batch \in Seq(Messages)
        BY <2>3
      <4>2. server' = [server EXCEPT !.pc = "send", !.batch = server'.batch]
        BY <1>4, <2>1
      <4> QED
        BY <4>1, <4>2 DEF WatchTypeOK, ServerPcs
    <3> QED
      BY <1>1, <3>1 DEF WatchTypeOK, jobVars
  <2>10. ToldInv' /\ Outcome' = Outcome
    BY <1>1 DEF ToldInv, Outcome, jobVars, Known
  <2>11. ThreadInv'
    BY <1>1, <1>2, <2>1, <2>3, <2>5 DEF ThreadInv, Alive
  <2>12. EndInv'
    BY <1>1, <1>2, <2>1, <2>7, <2>10 DEF EndInv, Alive, Reading
  <2>13. TruncatedOnlyByDeath'
    BY <1>1, <2>1 DEF TruncatedOnlyByDeath, Alive
  <2> QED
    BY <2>8, <2>9, <2>10, <2>11, <2>12, <2>13
<1> QED
  BY <1>3, <1>4 DEF WatchPoll

LEMMA SendKeepsInv ==
    ASSUME WatchInv, WatchSend
    PROVE  WatchInv'
<1> USE DEF WatchInv
<1> DEFINE over == BatchDone /\ EndsTheJob(Head(server.batch))
<1>1. /\ server.pc = "send" /\ Reading /\ Len(wire) < SocketCap
      /\ wire' = Append(wire, Head(server.batch)) /\ UNCHANGED jobVars /\ UNCHANGED client
      /\ closing' = IF over THEN "eof" ELSE closing
  BY DEF WatchSend, Write, Advance
<1>2. /\ server'.pc = IF over THEN "closed" ELSE IF BatchDone THEN "poll" ELSE "send"
      /\ server'.since = server.since + 1 /\ server'.snapshot = server.snapshot
      /\ server'.batch = Tail(server.batch)
  BY Parts DEF WatchSend, Advance
<1>3. server.batch # <<>> /\ Alive /\ closing = "open"
      /\ Len(client.seen) + Len(wire) = Lead + server.since
  BY <1>1 DEF ThreadInv, Alive
<1>4. client.seen \in Seq(Messages) /\ wire \in Seq(Messages) /\ server.batch \in Seq(Messages)
  BY Parts
<1>5. /\ wire' \in Seq(Messages) /\ Tail(server.batch) \in Seq(Messages)
      /\ Len(wire') = Len(wire) + 1 /\ wire'[Len(wire')] = Head(server.batch)
      /\ (Tail(server.batch) # <<>>) = ~BatchDone
  <2> DEFINE batch == server.batch
             m     == Head(batch)
  <2>1. batch \in Seq(Messages) /\ batch # <<>>
    BY <1>3, <1>4
  <2> HIDE DEF batch
  <2>2. m \in Messages /\ Tail(batch) \in Seq(Messages)
        /\ Len(Tail(batch)) = Len(batch) - 1 /\ Len(batch) \in Nat
    BY <2>1
  <2>3. (Tail(batch) # <<>>) = ~(Len(batch) = 1)
    <3>1. Tail(batch) = <<>> <=> Len(Tail(batch)) = 0
      BY <2>2, EmptySeq
    <3> QED
      BY <2>2, <3>1
  <2> HIDE DEF m
  <2>4. /\ Append(wire, m) \in Seq(Messages) /\ Len(Append(wire, m)) = Len(wire) + 1
        /\ Append(wire, m)[Len(wire) + 1] = m
    BY <1>4, <2>2
  <2> QED
    BY <1>1, <2>2, <2>3, <2>4 DEF BatchDone, batch, m
<1>6. UNCHANGED <<Stream, Lead, Reading, Alive>>
  <2>1. client.seen \o Append(wire, Head(server.batch)) \o Tail(server.batch) = Stream
    <3>1. Cat(client.seen, Sent(wire, server.batch), Tail(server.batch))
              = Cat(client.seen, wire, server.batch)
      BY <1>3, <1>4, SendKeepsStream
    <3> QED
      BY <3>1 DEF Cat, Sent, Stream
  <2>2. Stream' = Stream
    BY <1>1, <1>2, <2>1 DEF Stream
  <2> QED
    BY <1>1, <1>2, <1>3, <2>2 DEF Lead, Reading, Alive
<1>7. /\ ToldInv' /\ StreamInOrder' /\ Outcome' = Outcome
      /\ (server'.snapshot /\ Stream'[1].state \in Terminal => Stream'[1].state = Outcome')
  BY <1>1, <1>2, <1>6, Undisturbed
<1>8. server.since + 1 <= Len(told)
  <2>1. Len(Stream) = Lead + server.since + Len(server.batch) /\ Len(Stream) - Lead <= Len(told)
    <3>1. Len(Stream) = Len(client.seen) + Len(wire) + Len(server.batch)
      BY <1>4 DEF Stream
    <3> QED
      BY <1>3, <3>1 DEF StreamInOrder
  <2>2. Len(server.batch) >= 1 /\ Len(server.batch) \in Nat
    BY <1>3, <1>4
  <2> QED
    BY <2>1, <2>2, Parts
<1>9. WatchTypeOK'
  <2>1. server'.since \in 0..Len(told')
    BY <1>1, <1>2, <1>8, Parts DEF jobVars
  <2>2. server' = [pc |-> server'.pc, since |-> server'.since,
                   snapshot |-> server'.snapshot, batch |-> server'.batch]
    BY Parts DEF WatchSend, Advance
  <2>3. server'.pc \in ServerPcs /\ server'.snapshot \in BOOLEAN /\ closing' \in Closings
    BY <1>1, <1>2, <1>3, Parts DEF ServerPcs, Closings
  <2>4. server' \in [pc : ServerPcs, since : 0..Len(told'), snapshot : BOOLEAN,
                     batch : Seq(Messages)]
    BY <1>2, <1>5, <2>1, <2>2, <2>3
  <2>5. Len(wire') <= SocketCap
    BY <1>1, <1>4, <1>5, WatchAssumption
  <2> QED
    BY <1>1, <1>5, <2>3, <2>4, <2>5 DEF WatchTypeOK, jobVars
<1>10. ThreadInv'
  <2>1. Len(client'.seen) + Len(wire') = Lead' + server'.since
    BY <1>1, <1>2, <1>3, <1>4, <1>5, <1>6, Parts
  <2>2. (server'.pc = "send") = (server'.batch # <<>>)
    BY <1>2, <1>5
  <2>3. server'.pc \in {"closed", "poll", "send"} /\ (closing' = "open" \/ server'.pc = "closed")
    BY <1>1, <1>2, <1>3
  <2> QED
    BY <2>1, <2>2, <2>3 DEF ThreadInv
<1>11. EndInv'
  <2>1. closing' = "eof" => wire' # <<>> /\ wire'[Len(wire')].state \in Terminal
    BY <1>1, <1>3, <1>5, <1>4 DEF EndsTheJob
  <2> QED
    BY <1>1, <1>6, <1>7, <2>1 DEF EndInv
<1>12. TruncatedOnlyByDeath'
  BY <1>1, <1>3, <1>6 DEF TruncatedOnlyByDeath
<1> QED
  BY <1>7, <1>9, <1>10, <1>11, <1>12

LEMMA SnapshotKeepsInv ==
    ASSUME WatchInv, WatchSnapshot
    PROVE  WatchInv'
<1> USE DEF WatchInv
<1>1. /\ server.pc = "snap" /\ Known /\ Reading /\ Len(wire) < SocketCap
      /\ wire' = Append(wire, Snapshot(state)) /\ UNCHANGED jobVars /\ UNCHANGED client
      /\ closing' = IF state \in Terminal THEN "eof" ELSE closing
  BY DEF WatchSnapshot, Write
<1>2. /\ server'.pc = IF state \in Terminal THEN "closed" ELSE "poll"
      /\ server'.since = server.since /\ server'.snapshot = TRUE
      /\ server'.batch = server.batch
  BY Parts DEF WatchSnapshot
<1>3. /\ server.since = 0 /\ ~server.snapshot /\ Lead = 0 /\ server.batch = <<>>
      /\ Alive /\ closing = "open" /\ Len(client.seen) + Len(wire) = 0
  BY <1>1 DEF ThreadInv, Alive, Lead
<1>4. client.seen = <<>> /\ wire = <<>>
  <2>1. client.seen \in Seq(Messages) /\ wire \in Seq(Messages)
    BY Parts
  <2> QED
    BY <1>3, <2>1
<1>5. Snapshot(state) \in Messages
  BY <1>1 DEF Snapshot, Messages, Known
<1>6. wire' = <<Snapshot(state)>> /\ Stream' = <<Snapshot(state)>> /\ Lead' = 1
  BY <1>1, <1>2, <1>3, <1>4 DEF Stream, Lead
<1>7. ToldInv' /\ Outcome' = Outcome /\ Len(told) \in Nat
  BY <1>1, Parts DEF ToldInv, Outcome, jobVars, Known
<1>8. StreamInOrder'
  BY <1>1, <1>2, <1>6, <1>7 DEF StreamInOrder, Snapshot, jobVars
<1>9. WatchTypeOK'
  <2>1. wire' \in Seq(Messages) /\ Len(wire') <= SocketCap
    BY <1>5, <1>6, WatchAssumption
  <2>2. server' \in [pc : ServerPcs, since : 0..Len(told), snapshot : BOOLEAN,
                     batch : Seq(Messages)]
    BY DEF WatchSnapshot, WatchTypeOK, ServerPcs
  <2> QED
    BY <1>1, <1>3, <2>1, <2>2 DEF WatchTypeOK, jobVars, Closings
<1>10. ThreadInv'
  BY <1>1, <1>2, <1>3, <1>4, <1>6 DEF ThreadInv
<1>11. EndInv'
  <2>1. Stream'[1].state = state /\ wire'[Len(wire')].state = state /\ wire' # <<>>
    BY <1>6 DEF Snapshot
  <2>2. state \in Terminal => Outcome = state
    BY DEF ToldInv
  <2>3. Reading' = Reading /\ (closing' = "eof" => state \in Terminal)
    BY <1>1, <1>3 DEF Reading
  <2> QED
    BY <1>1, <1>7, <2>1, <2>2, <2>3 DEF EndInv
<1>12. TruncatedOnlyByDeath'
  BY <1>1, <1>3 DEF TruncatedOnlyByDeath, Reading
<1> QED
  BY <1>7, <1>8, <1>9, <1>10, <1>11, <1>12

(* A thread that stops drops what it had in hand: what is left is still    *)
(* the beginning of the stream.                                            *)
LEMMA CutStream ==
    ASSUME WatchTypeOK, UNCHANGED <<wire, client>>, server'.batch = <<>>
    PROVE  /\ Len(Stream') = Len(Seen) + Len(wire)
           /\ \A i \in 1..(Len(Seen) + Len(wire)) : Stream'[i] = Stream[i]
<1> DEFINE e == Batch'
<1>1. Stream' = Cat(Seen, wire, e) /\ e = <<>>
  BY DEF Stream, Cat, Seen, Batch
<1>2. /\ Seen \in Seq(Messages) /\ wire \in Seq(Messages) /\ Batch \in Seq(Messages)
      /\ Stream = Cat(Seen, wire, Batch)
  BY StreamFacts
<1> HIDE DEF e
<1>3. /\ Len(Cat(Seen, wire, e)) = Len(Seen) + Len(wire)
      /\ \A i \in 1..(Len(Seen) + Len(wire)) :
             Cat(Seen, wire, e)[i] = Cat(Seen, wire, Batch)[i]
  BY <1>1, <1>2, CatCut
<1> QED
  BY <1>1, <1>2, <1>3

LEMMA CutKeepsOrder ==
    ASSUME WatchInv, UNCHANGED jobVars, UNCHANGED <<wire, client>>,
           server'.batch = <<>>, server'.snapshot = server.snapshot
    PROVE  /\ ToldInv' /\ StreamInOrder' /\ Outcome' = Outcome /\ UNCHANGED <<Lead, Reading>>
           /\ (server'.snapshot /\ Stream'[1].state \in Terminal => Stream'[1].state = Outcome')
<1> USE DEF WatchInv
<1>2. /\ Len(Stream) = Len(Seen) + Len(wire) + Len(Batch)
      /\ Len(Seen) \in Nat /\ Len(wire) \in Nat /\ Len(Batch) \in Nat
      /\ Len(Stream) \in Nat
  BY StreamFacts
<1>3. /\ Len(Stream') = Len(Seen) + Len(wire)
      /\ \A i \in 1..(Len(Seen) + Len(wire)) : Stream'[i] = Stream[i]
  BY CutStream
<1>4. Lead' = Lead /\ Reading' = Reading /\ told' = told
  BY DEF Lead, Reading, jobVars
<1>5. Len(Seen) + Len(wire) >= Lead
  <2>1. CASE server.pc \in {"closed", "dead"}
    <3>1. Len(Batch) = 0
      BY <2>1 DEF ThreadInv, Batch
    <3> QED
      BY <1>2, <3>1 DEF StreamInOrder
  <2>2. CASE server.pc \notin {"closed", "dead"}
    <3>1. Len(Seen) + Len(wire) = Lead + server.since
      BY <2>2 DEF ThreadInv, Seen
    <3> QED
      BY <3>1, Parts
  <2> QED
    BY <2>1, <2>2
<1>6. Len(Stream') <= Len(Stream) /\ Len(Stream') \in Nat /\ Len(Stream) \in Nat
  <2>1. Len(Stream') = Len(Seen) + Len(wire)
    BY <1>3
  <2> QED
    BY <1>2, <2>1
<1>7. \A i \in 1..Len(Stream') : Stream'[i] = Stream[i]
  BY <1>3
<1>8. StreamInOrder'
  <2>1. Len(Stream') - Lead <= Len(told)
    BY <1>6, Parts DEF StreamInOrder
  <2>2. server.snapshot => Stream'[1] = Stream[1]
    <3>1. server.snapshot => Len(Stream') >= 1
      BY <1>3, <1>5 DEF Lead
    <3> QED
      BY <1>6, <1>7, <3>1
  <2>3. ASSUME NEW i \in 1..(Len(Stream') - Lead)
        PROVE  Stream'[i + Lead] = Message(i, told[i])
    <3>1. i + Lead \in 1..Len(Stream') /\ i \in 1..(Len(Stream) - Lead)
      BY <1>6, Parts
    <3>2. Stream[i + Lead] = Message(i, told[i])
      BY <3>1 DEF StreamInOrder
    <3> QED
      BY <1>7, <3>1, <3>2
  <2> QED
    BY <1>3, <1>4, <1>5, <2>1, <2>2, <2>3 DEF StreamInOrder
<1>9. server.snapshot => Stream'[1] = Stream[1]
  <2>1. server.snapshot => Len(Stream') >= 1
    BY <1>3, <1>5 DEF Lead
  <2> QED
    BY <1>6, <1>7, <2>1
<1>10. ToldInv' /\ Outcome' = Outcome
  BY DEF ToldInv, Outcome, jobVars, Known
<1> QED
  BY <1>4, <1>8, <1>9, <1>10 DEF EndInv

LEMMA StoppedType ==
    ASSUME WatchTypeOK, NEW pc \in ServerPcs, server' = [server EXCEPT !.pc = pc, !.batch = <<>>]
    PROVE  /\ server'.batch = <<>> /\ server'.snapshot = server.snapshot
           /\ server'.since = server.since /\ server'.pc = pc
           /\ server' \in [pc : ServerPcs, since : 0..Len(told), snapshot : BOOLEAN,
                           batch : Seq(Messages)]
<1>1. <<>> \in Seq(Messages)
  OBVIOUS
<1>2. server \in [pc : ServerPcs, since : 0..Len(told), snapshot : BOOLEAN,
                  batch : Seq(Messages)]
  BY DEF WatchTypeOK
<1> QED
  BY <1>1, <1>2

(* The thread answers an unknown job, fails to write, or dies.             *)
LEMMA StopKeepsInv ==
    ASSUME WatchInv, WatchGone \/ WatchWriteFails \/ DaemonDies
    PROVE  WatchInv'
<1> USE DEF WatchInv
<1>1. UNCHANGED jobVars /\ UNCHANGED <<wire, client>>
  BY DEF WatchGone, WatchWriteFails, DaemonDies
<1>2. /\ server'.batch = <<>> /\ server'.snapshot = server.snapshot
      /\ server'.since = server.since /\ server'.pc \in {"closed", "dead"}
      /\ server' \in [pc : ServerPcs, since : 0..Len(told), snapshot : BOOLEAN,
                      batch : Seq(Messages)]
  <2>1. CASE WatchGone
    <3>1. server.batch = <<>>
      BY <2>1 DEF WatchGone, ThreadInv
    <3> QED
      BY <2>1, <3>1, Parts DEF WatchGone, WatchTypeOK, ServerPcs
  <2>2. CASE WatchWriteFails
    BY <2>2, StoppedType DEF WatchWriteFails, ServerPcs
  <2>3. CASE DaemonDies
    BY <2>3, StoppedType DEF DaemonDies, ServerPcs
  <2> QED
    BY <2>1, <2>2, <2>3
<1>3. /\ ToldInv' /\ StreamInOrder' /\ Outcome' = Outcome /\ UNCHANGED <<Lead, Reading>>
      /\ (server'.snapshot /\ Stream'[1].state \in Terminal => Stream'[1].state = Outcome')
  BY <1>1, <1>2, CutKeepsOrder
<1>4. /\ closing' \in Closings
      /\ closing' = "eof" => ~Alive' \/ ~Reading
  <2>1. CASE WatchGone
    BY <2>1 DEF WatchGone, Closings
  <2>2. CASE WatchWriteFails
    BY <2>2 DEF WatchWriteFails, Closings
  <2>3. CASE DaemonDies
    <3>1. ~Alive'
      BY <2>3, Parts DEF DaemonDies, Alive
    <3>2. closing \in Closings
      BY DEF WatchTypeOK
    <3> QED
      BY <2>3, <3>1, <3>2 DEF DaemonDies, Closings
  <2> QED
    BY <2>1, <2>2, <2>3
<1>5. WatchTypeOK'
  BY <1>1, <1>2, <1>4 DEF WatchTypeOK, jobVars
<1>6. ThreadInv'
  BY <1>2 DEF ThreadInv, Alive
<1>7. EndInv'
  BY <1>1, <1>3, <1>4 DEF EndInv
<1>8. TruncatedOnlyByDeath'
  <2>1. ~Alive => ~Alive'
    BY Parts DEF WatchGone, WatchWriteFails, DaemonDies, Alive
  <2> QED
    BY <1>1, <2>1 DEF TruncatedOnlyByDeath
<1> QED
  BY <1>3, <1>5, <1>6, <1>7, <1>8

-----------------------------------------------------------------------------
(* The client                                                              *)

LEMMA ReadKeepsInv ==
    ASSUME WatchInv, ClientReads
    PROVE  WatchInv'
<1> USE DEF WatchInv
<1> DEFINE m == Head(wire)
<1>1. /\ Reading /\ wire # <<>> /\ wire' = Tail(wire)
      /\ UNCHANGED jobVars /\ server' = server /\ closing' = closing
      /\ client'.seen = Append(client.seen, m)
      /\ client'.result = IF m.state \in Terminal THEN m.state ELSE "none"
      /\ client' = [seen |-> client'.seen, result |-> client'.result]
  BY DEF ClientReads, EndsTheJob
<1>2. client.seen \in Seq(Messages) /\ wire \in Seq(Messages) /\ server.batch \in Seq(Messages)
  BY Parts
<1>3. /\ client'.seen \in Seq(Messages) /\ wire' \in Seq(Messages)
      /\ Len(client'.seen) = Len(client.seen) + 1 /\ Len(wire') = Len(wire) - 1
  BY <1>1, <1>2, MoveHead
<1>4. /\ \A i \in 1..Len(client.seen) : client'.seen[i] = client.seen[i]
      /\ client'.seen[Len(client'.seen)] = m /\ client'.seen # <<>> /\ m \in Messages
  <2>1. m \in Messages
    BY <1>1, <1>2
  <2> DEFINE seen == client.seen
  <2>2. seen \in Seq(Messages)
    BY <1>2
  <2> HIDE DEF m, seen
  <2>3. /\ Append(seen, m) \in Seq(Messages) /\ Len(Append(seen, m)) = Len(seen) + 1
        /\ \A i \in 1..Len(seen) : Append(seen, m)[i] = seen[i]
        /\ Append(seen, m)[Len(seen) + 1] = m
    BY <2>1, <2>2
  <2>4. client'.seen = Append(seen, m)
    BY <1>1 DEF seen
  <2>5. client'.seen # <<>>
    BY <2>2, <2>3, <2>4
  <2> QED
    BY <2>1, <2>3, <2>4, <2>5 DEF seen
<1>5. Stream' = Stream /\ Lead' = Lead /\ Alive' = Alive
  <2>1. Cat(Sent(client.seen, wire), Tail(wire), server.batch)
            = Cat(client.seen, wire, server.batch)
    BY <1>1, <1>2, ReadKeepsStream
  <2> QED
    BY <1>1, <2>1 DEF Cat, Sent, Stream, Lead, Alive
<1>6. /\ ToldInv' /\ StreamInOrder' /\ Outcome' = Outcome
      /\ (server'.snapshot /\ Stream'[1].state \in Terminal => Stream'[1].state = Outcome')
  BY <1>1, <1>5, Undisturbed
<1>7. Reading' => m.state \notin Terminal
  BY <1>1 DEF Reading, Terminal
<1>8. WatchTypeOK'
  <2>1. client'.result \in Results
    BY <1>1 DEF Results
  <2>2. client' \in [seen : Seq(Messages), result : Results]
    BY <1>1, <1>3, <2>1
  <2>3. Len(wire') <= SocketCap
    BY <1>2, <1>3, WatchAssumption DEF WatchTypeOK
  <2> QED
    BY <1>1, <1>3, <2>2, <2>3 DEF WatchTypeOK, jobVars
<1>9. ThreadInv'
  <2>1. Len(client'.seen) + Len(wire') = Len(client.seen) + Len(wire)
    BY <1>2, <1>3
  <2> QED
    BY <1>1, <1>5, <2>1 DEF ThreadInv
<1>10. EndInv'
  <2>1. Reading' => \A i \in 1..Len(client'.seen) : client'.seen[i].state \notin Terminal
    BY <1>1, <1>2, <1>3, <1>4, <1>7 DEF EndInv
  <2>2. client'.result \in Terminal =>
            client'.seen # <<>> /\ client'.seen[Len(client'.seen)].state = client'.result
    <3>1. "none" \notin Terminal
      BY DEF Terminal
    <3> QED
      BY <1>1, <1>4, <3>1
  <2>3. closing' = "eof" /\ Alive' /\ Reading' =>
            wire' # <<>> /\ wire'[Len(wire')].state \in Terminal
    <3> SUFFICES ASSUME closing' = "eof", Alive', Reading'
                 PROVE  wire' # <<>> /\ wire'[Len(wire')].state \in Terminal
      OBVIOUS
    <3>1. wire[Len(wire)].state \in Terminal
      BY <1>1, <1>5 DEF EndInv
    <3>2. Len(wire) # 1
      BY <1>1, <1>2, <1>7, <3>1
    <3>3. Len(wire) - 1 \in Nat \ {0}
      BY <1>1, <1>2, <3>2
    <3>4. wire'[Len(wire')] = wire[Len(wire)]
      BY <1>1, <1>2, <1>3, <3>3
    <3>5. wire' # <<>>
      BY <1>3, <3>3
    <3> QED
      BY <3>1, <3>4, <3>5
  <2> QED
    BY <1>6, <2>1, <2>2, <2>3 DEF EndInv
<1>11. TruncatedOnlyByDeath'
  BY <1>1 DEF TruncatedOnlyByDeath, Terminal
<1> QED
  BY <1>6, <1>8, <1>9, <1>10, <1>11

LEMMA LeaveKeepsInv ==
    ASSUME WatchInv, ClientEnds \/ ClientIdles \/ ClientInterrupted
    PROVE  WatchInv'
<1> USE DEF WatchInv
<1>1. /\ Reading /\ UNCHANGED jobVars /\ UNCHANGED <<server, wire, closing>>
      /\ \E result \in Results \ (Terminal \cup {"none"}) :
             /\ client' = [client EXCEPT !.result = result]
             /\ result = "truncated" => wire = <<>> /\ closing = "eof"
  <2>1. CASE ClientEnds
    <3>1. closing \in Closings \ {"open"}
      BY <2>1 DEF ClientEnds, WatchTypeOK
    <3>2. ResultOf(closing) \in {"truncated", "brokenFrame", "Server"}
          /\ (ResultOf(closing) = "truncated" => closing = "eof")
      BY <3>1 DEF ResultOf, Closings
    <3> QED
      <4>1. ResultOf(closing) \in Results \ (Terminal \cup {"none"})
        BY <3>2 DEF Results, Terminal
      <4> QED
        BY <2>1, <3>2, <4>1 DEF ClientEnds, Ends
  <2>2. CASE ClientIdles
    <3>1. "watchIdle" \in Results \ (Terminal \cup {"none"}) /\ "watchIdle" # "truncated"
      BY DEF Results, Terminal
    <3> QED
      BY <2>2, <3>1 DEF ClientIdles, Ends
  <2>3. CASE ClientInterrupted
    <3>1. "interrupted" \in Results \ (Terminal \cup {"none"}) /\ "interrupted" # "truncated"
      BY DEF Results, Terminal
    <3> QED
      BY <2>3, <3>1 DEF ClientInterrupted, Ends
  <2> QED
    BY <2>1, <2>2, <2>3
<1>2. PICK result \in Results \ (Terminal \cup {"none"}) :
             /\ client' = [client EXCEPT !.result = result]
             /\ result = "truncated" => wire = <<>> /\ closing = "eof"
  BY <1>1
<1>3. client'.seen = client.seen /\ client'.result = result /\ ~Reading'
  BY <1>2, Parts DEF Reading
<1>4. UNCHANGED <<Stream, Lead, Alive>>
  BY <1>1, <1>3 DEF Stream, Lead, Alive
<1>5. /\ ToldInv' /\ StreamInOrder' /\ Outcome' = Outcome
      /\ (server'.snapshot /\ Stream'[1].state \in Terminal => Stream'[1].state = Outcome')
  BY <1>1, <1>4, Undisturbed
<1>6. WatchTypeOK'
  BY <1>1, <1>2 DEF WatchTypeOK, jobVars
<1>7. ThreadInv'
  BY <1>1, <1>3, <1>4 DEF ThreadInv
<1>8. EndInv'
  BY <1>1, <1>2, <1>3, <1>5 DEF EndInv
<1>9. TruncatedOnlyByDeath'
  BY <1>1, <1>2, <1>3, <1>4 DEF TruncatedOnlyByDeath, EndInv
<1> QED
  BY <1>5, <1>6, <1>7, <1>8, <1>9

-----------------------------------------------------------------------------
(* Results                                                                 *)

LEMMA WatchInvInit == WatchInit => WatchInv
<1> SUFFICES ASSUME WatchInit PROVE WatchInv
  OBVIOUS
<1>1. WatchTypeOK
  BY WatchTypeInit
<1>2. /\ state = "Unborn" /\ frames = <<>> /\ told = <<>> /\ wire = <<>>
      /\ server.batch = <<>> /\ server.pc = "start" /\ server.since = 0 /\ ~server.snapshot
      /\ client.seen = <<>> /\ client.result = "none" /\ closing = "open"
  BY DEF WatchInit, Init
<1>3. Stream = <<>> /\ Lead = 0
  BY <1>2 DEF Stream, Lead
<1>4. StreamInOrder
  BY <1>2, <1>3 DEF StreamInOrder
<1>5. ToldInv
  BY <1>2, StateSets DEF ToldInv, Known
<1>6. ThreadInv
  BY <1>2, <1>3 DEF ThreadInv
<1>7. EndInv /\ TruncatedOnlyByDeath
  BY <1>2 DEF EndInv, TruncatedOnlyByDeath, Terminal
<1> QED
  BY <1>1, <1>4, <1>5, <1>6, <1>7 DEF WatchInv

LEMMA WatchInvStep == WatchInv /\ [WatchNext]_vars => WatchInv'
<1> SUFFICES ASSUME WatchInv, [WatchNext]_vars PROVE WatchInv'
  OBVIOUS
<1>1. CASE JobRuns \/ JobEnds \/ JobForgotten
  BY <1>1, JobKeepsInv
<1>2. CASE WatchStart \/ WatchSnapshotGone
  BY <1>2, MoveKeepsInv
<1>3. CASE WatchPoll
  BY <1>3, PollKeepsInv
<1>4. CASE WatchSend
  BY <1>4, SendKeepsInv
<1>5. CASE WatchSnapshot
  BY <1>5, SnapshotKeepsInv
<1>6. CASE WatchGone \/ WatchWriteFails \/ DaemonDies
  BY <1>6, StopKeepsInv
<1>7. CASE ClientReads
  BY <1>7, ReadKeepsInv
<1>8. CASE ClientEnds \/ ClientIdles \/ ClientInterrupted
  BY <1>8, LeaveKeepsInv
<1>9. CASE UNCHANGED vars
  BY <1>9 DEF vars, WatchInv, WatchTypeOK, StreamInOrder, ToldInv, ThreadInv, EndInv,
       TruncatedOnlyByDeath, Stream, Lead, Outcome, Known, Reading, Alive
<1> QED
  BY <1>1, <1>2, <1>3, <1>4, <1>5, <1>6, <1>7, <1>8, <1>9 DEF WatchNext, ServerNext, ClientNext

(* In every behaviour of a watch the stream, what the job told, the state  *)
(* of the thread and the end of the watch fit together (ipc.rs             *)
(* stream_job_watch, watch.rs drain_with).                                 *)
THEOREM WatchInvariant == WatchSpec => []WatchInv
BY WatchInvInit, WatchInvStep, PTL DEF WatchSpec

(* The types, and that the thread is never ahead of the job.               *)
THEOREM WatchTypeCorrect == WatchSpec => []WatchTypeOK
BY WatchInvariant, PTL DEF WatchInv

(* However long the job runs, however it is cancelled, ended and forgotten *)
(* meanwhile, a client gets one snapshot at most and then every frame from *)
(* the first on, once and in order (ipc.rs stream_job_watch).              *)
THEOREM FramesArriveInOrder == WatchSpec => []StreamInOrder
BY WatchInvariant, PTL DEF WatchInv

(* Only the death of the daemon leaves a client without an outcome and     *)
(* without an error (ipc.rs stream_job_watch; cli/client.rs outcome).      *)
THEOREM NoSilentEnd == WatchSpec => []TruncatedOnlyByDeath
BY WatchInvariant, PTL DEF WatchInv

(* The outcome a client exits with is the job's, and nothing before it was *)
(* withheld, but by a snapshot of an ended job (watch.rs drain_with).      *)
LEMMA InvImpliesWhole == WatchInv => OutcomeIsWhole
<1> SUFFICES ASSUME WatchInv, client.result \in Terminal
             PROVE  /\ client.result = Outcome
                    /\ Len(Seen) - Lead = Len(told) \/ Seen[Len(Seen)].at = 0
  BY DEF OutcomeIsWhole, Seen
<1> USE DEF WatchInv
<1> DEFINE n == Len(Seen)
<1>1. Seen \in Seq(Messages) /\ Lead \in {0, 1} /\ Len(told) \in Nat
  BY Parts, StreamFacts
<1>2. Seen # <<>> /\ Seen[n].state = client.result
  BY DEF EndInv, Seen
<1>3. n \in Nat \ {0}
  BY <1>1, <1>2
<1>4. Stream[n] = Seen[n] /\ n <= Len(Stream) /\ Len(Stream) \in Nat
  <2>1. n \in 1..n
    BY <1>3
  <2>2. Stream[n] = Seen[n]
    BY <2>1, StreamFacts
  <2>3. /\ Len(Stream) = Len(Seen) + Len(wire) + Len(Batch)
        /\ Len(wire) \in Nat /\ Len(Batch) \in Nat /\ Len(Stream) \in Nat
    BY StreamFacts
  <2> QED
    BY <1>3, <2>2, <2>3
<1>5. CASE server.snapshot /\ n = 1
  BY <1>2, <1>4, <1>5 DEF EndInv, StreamInOrder
<1>6. CASE ~(server.snapshot /\ n = 1)
  <2>1. n - Lead \in 1..(Len(Stream) - Lead) /\ (n - Lead) + Lead = n
    <3>1. Lead = 0 \/ (Lead = 1 /\ n # 1)
      BY <1>1, <1>6 DEF Lead
    <3> HIDE DEF n
    <3> QED
      BY <1>3, <1>4, <3>1
  <2>2. Stream[n] = Message(n - Lead, told[n - Lead])
    BY <2>1 DEF StreamInOrder
  <2>3. told[n - Lead].state = client.result /\ n - Lead \in 1..Len(told)
    BY <1>1, <1>2, <1>4, <2>1, <2>2 DEF Message, StreamInOrder
  <2>4. n - Lead = Len(told)
    BY <2>3 DEF ToldInv
  <2>5. told # <<>>
    BY <2>3
  <2> QED
    BY <2>3, <2>4, <2>5 DEF Outcome
<1> QED
  BY <1>5, <1>6

(* A client that exits with an outcome exits with the job's own, for every *)
(* interleaving of the job with the thread and the client.                 *)
THEOREM OutcomesAreTrue == WatchSpec => []OutcomeIsWhole
BY WatchInvariant, InvImpliesWhole, PTL

=============================================================================
