-------------------------- MODULE RadioSessionProofs --------------------------
(***************************************************************************)
(* Proofs about RadioSession, for every number of connection threads and   *)
(* every set of Soft-APs, open and WPA2: the mutex keeps its users apart,  *)
(* the busy flag is clear when nothing is under way, and a job that began  *)
(* alone is undisturbed and leaves the host as it found it.                *)
(***************************************************************************)
EXTENDS RadioSession, FiniteSetTheorems, TLAPS

-----------------------------------------------------------------------------
(* The inductive invariant                                                 *)

(* The line is bounded because nobody stands in it twice; the bound itself *)
(* follows.                                                                *)
Types ==
    /\ held \in BOOLEAN
    /\ line \in Seq(Procs)
    /\ pc \in [Procs -> Points]
    /\ want \in [Procs -> [kind : Kinds, ap : Aps \cup {NoAp}]]
    /\ radio \in RadioStates
    /\ host \in HostStates
    /\ alone \in BOOLEAN

(* Who stands in line, and which points are reached with the mutex only.   *)
Holding == {"address", "up", "ready", "unlock"}
LineInv ==
    /\ \A i, j \in 1..Len(line) : line[i] = line[j] => i = j
    /\ \A p \in Procs : InLine(p) <=> \E i \in 1..Len(line) : line[i] = p
    /\ \A p \in Procs : pc[p] \in Holding => HasLock(p)

(* What a process works on, and where that can take it.                    *)
ScanPoints == {"idle", "lock", "talk", "unlock"}
KindInv ==
    /\ \A t \in Threads :
           /\ want[t].kind # "job"
           /\ pc[t] = "idle" => want[t].kind = "scan"
           /\ want[t].kind = "scan" => pc[t] \in ScanPoints
           /\ pc[t] \notin {"ready", "relock"}
    /\ pc[Worker] # "idle" => want[Worker].kind = "job"
    /\ pc[Worker] # "hold"

(* A flag that is set was set by a request that will clear it.             *)
HeldInv ==
    held => \E p \in Procs : pc[p] # "idle" /\ want[p].kind # "scan"

(* The release will put back whatever was changed.                         *)
Undoable ==
    /\ host.address => radio.assigned
    /\ host.relaxed => radio.saved
    /\ host.exception => radio.policy # "none"
    /\ host.parked => radio.policy = "moved"

Prepared ==
    /\ host.link = want[Worker].ap
    /\ host.address /\ host.relaxed /\ host.exception
    /\ HostIsLocal => host.parked

(* A job that is alone: nobody else touches radio and host, so their state *)
(* follows from where the job is.                                          *)
AloneInv ==
    alone =>
        /\ held
        /\ pc[Worker] # "idle"
        /\ \A t \in Threads : want[t].kind = "scan"
        /\ pc[Worker] \in {"lock", "join", "unlock", "drop"} => Clean
        /\ pc[Worker] \in {"address", "up", "ready", "talk", "relock", "release"} => Undoable
        /\ pc[Worker] \in {"address", "up"} =>
               host.link = want[Worker].ap /\ ~host.relaxed /\ ~host.parked
        /\ pc[Worker] = "up" => host.address
        /\ pc[Worker] \in {"ready", "talk", "relock"} => Prepared

RadioInv == Types /\ LineInv /\ KindInv /\ HeldInv /\ AloneInv

-----------------------------------------------------------------------------
(* The line                                                                *)

(* A process moves between points that have the same place in the line.    *)
LEMMA LineStays ==
    ASSUME Types, LineInv, NEW p \in Procs, NEW point \in Points,
           line' = line, pc' = [pc EXCEPT ![p] = point],
           point \in Queued \/ (point = "talk" /\ p \in Threads) <=> InLine(p),
           point \in Holding => HasLock(p)
    PROVE  LineInv'
<1>1. \A q \in Procs : InLine(q)' <=> InLine(q)
  BY DEF Types, InLine
<1>2. \A q \in Procs : pc'[q] \in Holding => HasLock(q)'
  BY DEF Types, LineInv, HasLock
<1> QED
  BY <1>1, <1>2 DEF LineInv

(* A process joins the end of the line.                                    *)
LEMMA LineGrows ==
    ASSUME Types, LineInv, NEW p \in Procs, NEW point \in Points,
           ~InLine(p), line' = Append(line, p), pc' = [pc EXCEPT ![p] = point],
           point \in {"join", "release"} \/ (point = "talk" /\ p \in Threads)
    PROVE  LineInv'
<1>1. /\ Len(line') = Len(line) + 1
      /\ line'[Len(line) + 1] = p
      /\ \A i \in 1..Len(line) : line'[i] = line[i] /\ line[i] # p
      /\ Len(line) \in Nat
  BY DEF Types, LineInv
<1>2. \A i, j \in 1..Len(line') : line'[i] = line'[j] => i = j
  BY <1>1 DEF LineInv
<1>3. InLine(p)' /\ \A q \in Procs \ {p} : InLine(q)' <=> InLine(q)
  BY DEF Types, InLine, Queued
<1>4. \A q \in Procs : InLine(q)' <=> \E i \in 1..Len(line') : line'[i] = q
  <2>1. \E i \in 1..Len(line') : line'[i] = p
    BY <1>1
  <2>2. ASSUME NEW q \in Procs, q # p
        PROVE  (\E i \in 1..Len(line') : line'[i] = q) <=> \E i \in 1..Len(line) : line[i] = q
    <3>1. ASSUME NEW i \in 1..Len(line'), line'[i] = q
          PROVE  \E k \in 1..Len(line) : line[k] = q
      <4>1. i \in 1..Len(line)
        BY <1>1, <2>2, <3>1
      <4> QED
        BY <1>1, <3>1, <4>1
    <3>2. ASSUME NEW i \in 1..Len(line), line[i] = q
          PROVE  \E k \in 1..Len(line') : line'[k] = q
      <4>1. i \in 1..Len(line') /\ line'[i] = q
        BY <1>1, <3>2
      <4> QED
        BY <4>1
    <3> QED
      BY <3>1, <3>2
  <2> QED
    BY <1>3, <2>1, <2>2 DEF LineInv
<1>5. \A q \in Procs : pc'[q] \in Holding => HasLock(q)'
  <2>1. ASSUME NEW q \in Procs, pc'[q] \in Holding
        PROVE  HasLock(q)'
    <3>1. q # p /\ HasLock(q)
      BY <2>1 DEF Types, LineInv, Holding
    <3>2. line # <<>> /\ line[1] = q
      BY <3>1 DEF HasLock
    <3>3. line' # <<>> /\ line'[1] = q
      BY <1>1, <3>2 DEF Types
    <3> QED
      BY <3>3 DEF HasLock
  <2> QED
    BY <2>1
<1> QED
  BY <1>2, <1>4, <1>5 DEF LineInv

(* The process at the head leaves the line.                                *)
LEMMA LineShrinks ==
    ASSUME Types, LineInv, NEW p \in Procs, NEW point \in Points,
           HasLock(p), line' = Tail(line), pc' = [pc EXCEPT ![p] = point],
           point \in {"idle", "drop"} \/ (point = "talk" /\ p \notin Threads)
    PROVE  LineInv'
<1>1. /\ line # <<>> /\ line[1] = p /\ Len(line) \in Nat /\ Len(line) >= 1
      /\ Len(line') = Len(line) - 1
      /\ \A i \in 1..Len(line') : line'[i] = line[i + 1] /\ i + 1 \in 1..Len(line)
  BY DEF Types, HasLock
<1>2. \A i, j \in 1..Len(line') : line'[i] = line'[j] => i = j
  BY <1>1 DEF LineInv
<1>3. ~InLine(p)' /\ \A q \in Procs \ {p} : InLine(q)' <=> InLine(q)
  BY DEF Types, InLine, Queued
<1>4. \A q \in Procs : InLine(q)' <=> \E i \in 1..Len(line') : line'[i] = q
  <2>1. ASSUME NEW i \in 1..Len(line') PROVE line'[i] # p
    <3>1. i + 1 \in 1..Len(line) /\ line'[i] = line[i + 1] /\ 1 \in 1..Len(line) /\ i + 1 # 1
      BY <1>1
    <3> QED
      BY <1>1, <3>1 DEF LineInv
  <2>2. ASSUME NEW q \in Procs, q # p
        PROVE  (\E i \in 1..Len(line') : line'[i] = q) <=> \E i \in 1..Len(line) : line[i] = q
    <3>1. ASSUME NEW i \in 1..Len(line'), line'[i] = q
          PROVE  \E k \in 1..Len(line) : line[k] = q
      BY <1>1, <3>1
    <3>2. ASSUME NEW i \in 1..Len(line), line[i] = q
          PROVE  \E k \in 1..Len(line') : line'[k] = q
      <4>1. i # 1
        BY <1>1, <2>2, <3>2
      <4>2. i - 1 \in 1..Len(line')
        BY <1>1, <4>1
      <4>3. line'[i - 1] = line[(i - 1) + 1]
        BY <1>1, <4>2
      <4>4. (i - 1) + 1 = i
        BY <1>1, <3>2
      <4>5. line'[i - 1] = q
        BY <3>2, <4>3, <4>4
      <4> QED
        BY <4>2, <4>5
    <3> QED
      BY <3>1, <3>2
  <2> QED
    BY <1>3, <2>1, <2>2 DEF LineInv
<1>5. \A q \in Procs : pc'[q] \in Holding => HasLock(q)'
  <2>1. ASSUME NEW q \in Procs, pc'[q] \in Holding
        PROVE  FALSE
    <3>1. q # p /\ HasLock(q)
      BY <2>1 DEF Types, LineInv, Holding
    <3> QED
      BY <3>1 DEF HasLock
  <2> QED
    BY <2>1
<1> QED
  BY <1>2, <1>4, <1>5 DEF LineInv

-----------------------------------------------------------------------------
(* The invariant holds                                                     *)

(* The invariant holds of an idle daemon.                                 *)
LEMMA RadioInit == Init => RadioInv
<1> SUFFICES ASSUME Init PROVE RadioInv
  OBVIOUS
<1> USE RadioAssumption
<1>1. Types
  <2>1. radio \in RadioStates /\ host \in HostStates
    BY DEF Init, RadioStates, Forgotten, Policies, HostStates, Untouched
  <2>2. want \in [Procs -> [kind : Kinds, ap : Aps \cup {NoAp}]]
    BY DEF Init, Nothing, Kinds
  <2>3. pc \in [Procs -> Points] /\ line \in Seq(Procs)
    BY DEF Init, Points
  <2>4. held \in BOOLEAN /\ alone \in BOOLEAN
    BY DEF Init
  <2> QED
    BY <2>1, <2>2, <2>3, <2>4 DEF Types
<1>2. LineInv
  BY DEF Init, LineInv, InLine, Queued, Holding, Procs
<1>3. KindInv
  BY DEF Init, KindInv, Nothing, Procs, ScanPoints
<1>4. HeldInv /\ AloneInv
  BY DEF Init, HeldInv, AloneInv
<1> QED
  BY <1>1, <1>2, <1>3, <1>4 DEF RadioInv

(* Each action keeps the types.                                            *)
LEMMA TypesKept ==
    ASSUME Types, LineInv, Next PROVE Types'
<1> USE RadioAssumption DEF Types, Procs
<1>1. ASSUME NEW ap \in Aps, JobStarts(ap) PROVE Types'
  BY <1>1 DEF JobStarts, GoTo, Points, Kinds
<1>2. CASE JobReady
  <2>1. line # <<>>
    BY <1>2 DEF JobReady, At, LineInv, Holding, HasLock
  <2>2. line' \in Seq(Procs)
    BY <1>2, <2>1 DEF JobReady
  <2>3. pc' \in [Procs -> Points]
    BY <1>2 DEF JobReady, GoTo, Points
  <2> QED
    BY <1>2, <2>2, <2>3 DEF JobReady
<1>3. CASE JobTalks
  BY <1>3 DEF JobTalks, GoTo, Points
<1>4. ASSUME NEW t \in Threads, NEW kind \in {"probe", "identify"}, NEW ap \in Aps,
             ThreadStarts(t, kind, ap)
      PROVE  Types'
  BY <1>4 DEF ThreadStarts, GoTo, Points, Kinds
<1>5. ASSUME NEW t \in Threads, ScanStarts(t) \/ ThreadHold(t) \/ ThreadTalks(t)
      PROVE  Types'
  BY <1>5 DEF ScanStarts, ThreadHold, ThreadTalks, GoTo, Points
<1>6. ASSUME NEW p \in Procs, Lock(p) PROVE Types'
  BY <1>6 DEF Lock, GoTo, Points
<1>7. ASSUME NEW p \in Procs, Join(p) \/ JoinFails(p) \/ LinkUpFails(p) PROVE Types'
  <2>1. CASE Join(p)
    BY <1>7, <2>1 DEF Join, GoTo, Points, RadioStates, HostStates, Policies
  <2>2. CASE JoinFails(p)
    <3>1. host' \in HostStates
      <4>1. PICK left \in {host.link, NoAp} : host' = [host EXCEPT !.link = left]
        BY <2>2 DEF JoinFails
      <4> QED
        BY <4>1 DEF HostStates
    <3>2. pc' \in [Procs -> Points]
      BY <2>2 DEF JoinFails, GivesUp, GoTo, Points
    <3> QED
      BY <2>2, <3>1, <3>2 DEF JoinFails
  <2>3. CASE LinkUpFails(p)
    BY <1>7, <2>3 DEF LinkUpFails, GivesUp, GoTo, Points
  <2> QED
    BY <1>7, <2>1, <2>2, <2>3
<1>8. ASSUME NEW p \in Procs, SetAddress(p) PROVE Types'
  <2>1. host' \in HostStates /\ radio' \in RadioStates
    BY <1>8 DEF SetAddress, RadioStates, HostStates, Policies
  <2>2. pc' \in [Procs -> Points]
    BY <1>8 DEF SetAddress, GivesUp, GoTo, Points
  <2> QED
    BY <1>8, <2>1, <2>2 DEF SetAddress
<1>9. ASSUME NEW p \in Procs, PrepareSoftap(p) PROVE Types'
  <2>1. host' \in HostStates /\ radio' \in RadioStates
    BY <1>9 DEF PrepareSoftap, RadioStates, HostStates, Policies, Relocated
  <2> QED
    BY <1>9, <2>1 DEF PrepareSoftap, GoTo, Points
<1>10. ASSUME NEW p \in Procs, Release(p) PROVE Types'
  <2>1. host' \in HostStates /\ radio' \in RadioStates
    <3>1. Undone \in HostStates
      BY DEF Undone, HostStates, RadioStates
    <3>2. Forgotten \in RadioStates
      BY DEF Forgotten, RadioStates, Policies
    <3> QED
      BY <1>10, <3>1, <3>2 DEF Release
  <2> QED
    BY <1>10, <2>1 DEF Release, GoTo, Points
<1>11. ASSUME NEW p \in Procs, Unlock(p) PROVE Types'
  <2>1. line # <<>>
    BY <1>11 DEF Unlock, At, LineInv, Holding, HasLock
  <2> QED
    BY <1>11, <2>1 DEF Unlock, GoTo, Points
<1>12. ASSUME NEW p \in Procs, DropHold(p) PROVE Types'
  BY <1>12 DEF DropHold, GoTo, Points, Nothing, Kinds
<1> QED
  BY <1>1, <1>2, <1>3, <1>4, <1>5, <1>6, <1>7, <1>8, <1>9, <1>10, <1>11, <1>12
     DEF Next, WorkerNext, ThreadNext

(* Each action keeps the line.                                             *)
LEMMA LineKept ==
    ASSUME Types, LineInv, KindInv, Next PROVE LineInv'
<1> USE RadioAssumption DEF Procs, GoTo, At
<1>1. ASSUME NEW ap \in Aps, JobStarts(ap) PROVE LineInv'
  BY <1>1, LineStays DEF JobStarts, Points, Queued, InLine, Holding
<1>2. CASE JobReady
  <2>1. HasLock(Worker) /\ InLine(Worker)
    BY <1>2 DEF JobReady, LineInv, Holding, InLine, Queued
  <2>2. CASE pc' = [pc EXCEPT ![Worker] = "release"] /\ line' = line
    BY <2>1, <2>2, LineStays DEF Points, Queued, Holding
  <2>3. CASE pc' = [pc EXCEPT ![Worker] = "talk"] /\ line' = Tail(line)
    BY <2>1, <2>3, LineShrinks DEF Points
  <2> QED
    BY <1>2, <2>2, <2>3 DEF JobReady
<1>3. CASE JobTalks
  BY <1>3, LineStays DEF JobTalks, Points, Queued, InLine, Holding
<1>4. ASSUME NEW t \in Threads, NEW kind \in {"probe", "identify"}, NEW ap \in Aps,
             ThreadStarts(t, kind, ap)
      PROVE  LineInv'
  BY <1>4, LineStays DEF ThreadStarts, Points, Queued, InLine, Holding
<1>5. ASSUME NEW t \in Threads, ScanStarts(t) \/ ThreadHold(t) \/ ThreadTalks(t)
      PROVE  LineInv'
  <2>1. CASE ScanStarts(t)
    BY <2>1, LineStays DEF ScanStarts, Points, Queued, InLine, Holding
  <2>2. CASE ThreadHold(t)
    BY <2>2, LineStays DEF ThreadHold, Points, Queued, InLine, Holding
  <2>3. CASE ThreadTalks(t)
    BY <2>3, LineStays DEF ThreadTalks, Points, Queued, InLine, Holding
  <2> QED
    BY <1>5, <2>1, <2>2, <2>3
<1>6. ASSUME NEW p \in Procs, Lock(p) PROVE LineInv'
  <2>1. ~InLine(p)
    BY <1>6 DEF Lock, InLine, Queued
  <2>2. want[p].kind = "scan" => p \in Threads \/ pc[p] = "relock"
    BY <1>6 DEF Lock, KindInv
  <2>3. PICK point \in {"join", "release", "talk"} :
            /\ pc' = [pc EXCEPT ![p] = point]
            /\ point = "talk" => p \in Threads
    BY <1>6, <2>2 DEF Lock
  <2> QED
    BY <1>6, <2>1, <2>3, LineGrows DEF Lock, Points
<1>7. ASSUME NEW p \in Procs,
             Join(p) \/ JoinFails(p) \/ SetAddress(p) \/ LinkUpFails(p)
      PROVE  LineInv'
  <2>1. HasLock(p) /\ InLine(p) /\ line' = line
    BY <1>7 DEF Join, JoinFails, SetAddress, LinkUpFails, InLine, Queued
  <2>2. PICK point \in {"address", "up", "release", "unlock"} : pc' = [pc EXCEPT ![p] = point]
    BY <1>7 DEF Join, JoinFails, SetAddress, LinkUpFails, GivesUp
  <2> QED
    BY <2>1, <2>2, LineStays DEF Points, Queued
<1>8. ASSUME NEW p \in Procs, PrepareSoftap(p) PROVE LineInv'
  <2>1. HasLock(p) /\ InLine(p) /\ line' = line
    BY <1>8 DEF PrepareSoftap, InLine, Queued
  <2>2. PICK point \in {"ready", "talk"} :
            /\ pc' = [pc EXCEPT ![p] = point]
            /\ point = "talk" => p \in Threads
    <3>1. p = Worker => want[p].kind = "job"
      BY <1>8 DEF PrepareSoftap, KindInv
    <3> QED
      BY <1>8, <3>1 DEF PrepareSoftap
  <2> QED
    BY <2>1, <2>2, LineStays DEF Points, Queued, Holding
<1>9. ASSUME NEW p \in Procs, Release(p) PROVE LineInv'
  BY <1>9, LineStays DEF Release, Points, Queued, InLine, Holding
<1>10. ASSUME NEW p \in Procs, Unlock(p) PROVE LineInv'
  <2>1. HasLock(p) /\ line' = Tail(line)
    BY <1>10 DEF Unlock, LineInv, Holding
  <2>2. PICK point \in {"idle", "drop"} : pc' = [pc EXCEPT ![p] = point]
    BY <1>10 DEF Unlock
  <2> QED
    BY <2>1, <2>2, LineShrinks DEF Points
<1>11. ASSUME NEW p \in Procs, DropHold(p) PROVE LineInv'
  BY <1>11, LineStays DEF DropHold, Points, Queued, InLine, Holding
<1> QED
  BY <1>1, <1>2, <1>3, <1>4, <1>5, <1>6, <1>7, <1>8, <1>9, <1>10, <1>11
     DEF Next, WorkerNext, ThreadNext

(* Each action keeps what a process works on at its points.                *)
LEMMA KindKept ==
    ASSUME Types, KindInv, Next PROVE KindInv'
<1> USE RadioAssumption DEF Types, KindInv, ScanPoints, Procs, GoTo, At
<1>1. ASSUME NEW ap \in Aps, JobStarts(ap) PROVE KindInv'
  BY <1>1 DEF JobStarts
<1>2. CASE JobReady \/ JobTalks
  BY <1>2 DEF JobReady, JobTalks
<1>3. ASSUME NEW t \in Threads, NEW kind \in {"probe", "identify"}, NEW ap \in Aps,
             ThreadStarts(t, kind, ap)
      PROVE  KindInv'
  BY <1>3 DEF ThreadStarts
<1>4. ASSUME NEW t \in Threads, ScanStarts(t) \/ ThreadHold(t) \/ ThreadTalks(t)
      PROVE  KindInv'
  BY <1>4 DEF ScanStarts, ThreadHold, ThreadTalks
<1>5. ASSUME NEW p \in Procs, Lock(p) PROVE KindInv'
  BY <1>5 DEF Lock
<1>6. ASSUME NEW p \in Procs,
             Join(p) \/ JoinFails(p) \/ SetAddress(p) \/ LinkUpFails(p)
      PROVE  KindInv'
  <2>1. PICK point \in {"address", "up", "release", "unlock"} : pc' = [pc EXCEPT ![p] = point]
    BY <1>6 DEF Join, JoinFails, SetAddress, LinkUpFails, GivesUp
  <2>2. want' = want /\ pc[p] \in {"join", "address", "up"}
    BY <1>6 DEF Join, JoinFails, SetAddress, LinkUpFails
  <2> QED
    BY <2>1, <2>2
<1>7. ASSUME NEW p \in Procs, PrepareSoftap(p) PROVE KindInv'
  <2>1. PICK point \in {"ready", "talk"} :
            /\ pc' = [pc EXCEPT ![p] = point]
            /\ point = "ready" => p = Worker
    BY <1>7 DEF PrepareSoftap
  <2>2. want' = want /\ pc[p] = "up"
    BY <1>7 DEF PrepareSoftap
  <2> QED
    BY <2>1, <2>2
<1>8. ASSUME NEW p \in Procs, Release(p) PROVE KindInv'
  BY <1>8 DEF Release
<1>9. ASSUME NEW p \in Procs, Unlock(p) PROVE KindInv'
  BY <1>9 DEF Unlock
<1>10. ASSUME NEW p \in Procs, DropHold(p) PROVE KindInv'
  BY <1>10 DEF DropHold, Nothing
<1> QED
  BY <1>1, <1>2, <1>3, <1>4, <1>5, <1>6, <1>7, <1>8, <1>9, <1>10
     DEF Next, WorkerNext, ThreadNext

(* A step that neither sets the flag nor ends a request that set it.       *)
LEMMA HeldStays ==
    ASSUME Types, HeldInv, held' = held, want' = want, NEW p \in Procs,
           NEW point \in Points, pc' = [pc EXCEPT ![p] = point],
           point # "idle" \/ want[p].kind = "scan"
    PROVE  HeldInv'
<1> SUFFICES ASSUME held PROVE HeldInv'
  BY DEF HeldInv
<1>1. PICK q \in Procs : pc[q] # "idle" /\ want[q].kind # "scan"
  BY DEF HeldInv
<1>2. pc'[q] # "idle" /\ want'[q].kind # "scan"
  BY <1>1 DEF Types
<1> QED
  BY <1>2 DEF HeldInv

(* The request that set the flag is under way until it clears it.          *)
LEMMA HeldKept ==
    ASSUME Types, KindInv, HeldInv, Next PROVE HeldInv'
<1> USE RadioAssumption DEF Procs, GoTo, At
<1>1. ASSUME NEW ap \in Aps, JobStarts(ap) PROVE HeldInv'
  <2>1. pc'[Worker] # "idle" /\ want'[Worker].kind # "scan"
    BY <1>1 DEF JobStarts, Types
  <2> QED
    BY <2>1 DEF HeldInv
<1>2. CASE JobReady
  BY <1>2, HeldStays DEF JobReady, Points
<1>3. CASE JobTalks
  BY <1>3, HeldStays DEF JobTalks, Points
<1>4. ASSUME NEW t \in Threads, NEW kind \in {"probe", "identify"}, NEW ap \in Aps,
             ThreadStarts(t, kind, ap)
      PROVE  HeldInv'
  BY <1>4 DEF ThreadStarts, HeldInv
<1>5. ASSUME NEW t \in Threads, ScanStarts(t) \/ ThreadTalks(t) PROVE HeldInv'
  BY <1>5, HeldStays DEF ScanStarts, ThreadTalks, Points
<1>6. ASSUME NEW t \in Threads, ThreadHold(t) PROVE HeldInv'
  <2>1. pc'[t] # "idle" /\ want'[t].kind # "scan"
    BY <1>6 DEF ThreadHold, Types, KindInv, ScanPoints
  <2> QED
    BY <2>1 DEF HeldInv
<1>7. ASSUME NEW p \in Procs, Lock(p) PROVE HeldInv'
  <2>1. PICK point \in {"join", "release", "talk"} : pc' = [pc EXCEPT ![p] = point]
    BY <1>7 DEF Lock
  <2> QED
    BY <1>7, <2>1, HeldStays DEF Lock, Points
<1>8. ASSUME NEW p \in Procs,
             Join(p) \/ JoinFails(p) \/ SetAddress(p) \/ LinkUpFails(p)
      PROVE  HeldInv'
  <2>1. PICK point \in {"address", "up", "release", "unlock"} : pc' = [pc EXCEPT ![p] = point]
    BY <1>8 DEF Join, JoinFails, SetAddress, LinkUpFails, GivesUp
  <2>2. want' = want /\ held' = held
    BY <1>8 DEF Join, JoinFails, SetAddress, LinkUpFails
  <2> QED
    BY <2>1, <2>2, HeldStays DEF Points
<1>9. ASSUME NEW p \in Procs, PrepareSoftap(p) PROVE HeldInv'
  <2>1. PICK point \in {"ready", "talk"} : pc' = [pc EXCEPT ![p] = point]
    BY <1>9 DEF PrepareSoftap
  <2> QED
    BY <1>9, <2>1, HeldStays DEF PrepareSoftap, Points
<1>10. ASSUME NEW p \in Procs, Release(p) PROVE HeldInv'
  BY <1>10, HeldStays DEF Release, Points
<1>11. ASSUME NEW p \in Procs, Unlock(p) PROVE HeldInv'
  <2>1. PICK point \in {"idle", "drop"} :
            /\ pc' = [pc EXCEPT ![p] = point]
            /\ point = "idle" => want[p].kind = "scan"
    BY <1>11 DEF Unlock
  <2> QED
    BY <1>11, <2>1, HeldStays DEF Unlock, Points
<1>12. ASSUME NEW p \in Procs, DropHold(p) PROVE HeldInv'
  BY <1>12 DEF DropHold, HeldInv
<1> QED
  BY <1>1, <1>2, <1>3, <1>4, <1>5, <1>6, <1>7, <1>8, <1>9, <1>10, <1>11, <1>12
     DEF Next, WorkerNext, ThreadNext

(* While a job is alone, the others scan: they touch neither radio nor     *)
(* host, and cannot clear the flag.                                        *)
LEMMA ThreadsKeepAlone ==
    ASSUME Types, KindInv, AloneInv, alone', NEW t \in Threads,
           \/ \E kind \in {"probe", "identify"}, ap \in Aps : ThreadStarts(t, kind, ap)
           \/ ScanStarts(t)
           \/ ThreadNext(t)
    PROVE  AloneInv'
<1> USE RadioAssumption DEF At, GoTo
<1>1. alone
  <2>1. CASE \E kind \in {"probe", "identify"}, ap \in Aps : ThreadStarts(t, kind, ap)
    BY <2>1 DEF ThreadStarts
  <2>2. CASE ScanStarts(t) \/ ThreadHold(t) \/ ThreadTalks(t) \/ Lock(t) \/ Unlock(t)
    BY <2>2 DEF ScanStarts, ThreadHold, ThreadTalks, Lock, Unlock
  <2>3. CASE \/ Join(t) \/ JoinFails(t) \/ SetAddress(t) \/ LinkUpFails(t)
             \/ PrepareSoftap(t) \/ Release(t)
    BY <2>3 DEF Join, JoinFails, SetAddress, LinkUpFails, PrepareSoftap, Release
  <2>4. CASE DropHold(t)
    BY <2>4 DEF DropHold
  <2> QED
    BY <2>1, <2>2, <2>3, <2>4 DEF ThreadNext
<1>2. held /\ want[t].kind = "scan" /\ pc[t] \in ScanPoints
  BY <1>1 DEF AloneInv, KindInv
<1>3. CASE ScanStarts(t) \/ ThreadTalks(t) \/ Lock(t) \/ Unlock(t)
  <2>1. /\ held' = held /\ want' = want /\ radio' = radio /\ host' = host
        /\ pc'[Worker] = pc[Worker]
    BY <1>3 DEF ScanStarts, ThreadTalks, Lock, Unlock, Types, Procs
  <2> QED
    BY <1>1, <2>1 DEF AloneInv, Clean, Undoable, Prepared
<1>4. CASE \E kind \in {"probe", "identify"}, ap \in Aps : ThreadStarts(t, kind, ap)
  BY <1>2, <1>4 DEF ThreadStarts
<1>5. CASE \/ ThreadHold(t) \/ Join(t) \/ JoinFails(t) \/ SetAddress(t) \/ LinkUpFails(t)
           \/ PrepareSoftap(t) \/ Release(t) \/ DropHold(t)
  BY <1>2, <1>5 DEF ThreadHold, Join, JoinFails, SetAddress, LinkUpFails, PrepareSoftap,
                    Release, DropHold, ScanPoints
<1> QED
  BY <1>3, <1>4, <1>5 DEF ThreadNext

(* What a release undoes is what there is to undo.                         *)
LEMMA ReleaseCleans ==
    ASSUME Types, Undoable PROVE Undone = Untouched
<1>1. Undone \in HostStates /\ Untouched \in HostStates
  BY DEF Types, Undone, Untouched, HostStates, RadioStates
<1>2. /\ Undone.link = NoAp
      /\ Undone.address = (host.address /\ ~radio.assigned)
      /\ Undone.relaxed = (host.relaxed /\ ~radio.saved)
      /\ Undone.exception = (host.exception /\ radio.policy = "none")
      /\ Undone.parked = (host.parked /\ radio.policy # "moved")
  BY DEF Types, Undone, HostStates
<1>3. ~Undone.address /\ ~Undone.relaxed /\ ~Undone.exception /\ ~Undone.parked
  BY <1>2 DEF Undoable
<1> QED
  BY <1>1, <1>2, <1>3 DEF HostStates, Untouched

(* The job's own steps.                                                    *)
LEMMA JobKeepsAlone ==
    ASSUME Types, KindInv, AloneInv, alone, alone', WorkerNext
    PROVE  AloneInv'
<1> USE RadioAssumption DEF At, GoTo, Procs
<1>1. /\ held /\ pc[Worker] # "idle" /\ want[Worker].kind = "job"
      /\ \A t \in Threads : want[t].kind = "scan"
  BY DEF AloneInv, KindInv
<1>2. CASE JobReady
  <2>1. /\ want' = want /\ radio' = radio /\ host' = host /\ held' = held
        /\ pc[Worker] = "ready" /\ pc'[Worker] \in {"release", "talk"}
    BY <1>2 DEF JobReady, Types
  <2> QED
    BY <1>1, <2>1 DEF AloneInv, Undoable, Prepared
<1>3. CASE JobTalks
  <2>1. /\ want' = want /\ radio' = radio /\ host' = host /\ held' = held
        /\ pc[Worker] = "talk" /\ pc'[Worker] = "relock"
    BY <1>3 DEF JobTalks, Types
  <2> QED
    BY <1>1, <2>1 DEF AloneInv, Undoable, Prepared
<1>4. CASE Lock(Worker)
  <2>1. /\ want' = want /\ radio' = radio /\ host' = host /\ held' = held
        /\ \/ pc[Worker] = "lock" /\ pc'[Worker] = "join"
           \/ pc[Worker] = "relock" /\ pc'[Worker] = "release"
    BY <1>1, <1>4 DEF Lock, Types
  <2> QED
    BY <1>1, <2>1 DEF AloneInv, Clean, Undoable, Prepared
<1>5. CASE Join(Worker)
  <2>1. /\ want' = want /\ held' = held
        /\ pc[Worker] = "join" /\ pc'[Worker] = "address"
    BY <1>5 DEF Join, Types
  <2>2. radio = Forgotten /\ host = Untouched
    BY <2>1 DEF AloneInv, Clean
  <2>3. /\ ~host'.address /\ ~host'.relaxed /\ ~host'.exception /\ ~host'.parked
        /\ host'.link = want[Worker].ap
    BY <1>5, <2>2 DEF Join, Untouched
  <2> QED
    BY <1>1, <2>1, <2>3 DEF AloneInv, Undoable
<1>6. CASE JoinFails(Worker)
  <2>1. /\ want' = want /\ held' = held /\ radio' = radio
        /\ pc[Worker] = "join" /\ pc'[Worker] = "release"
    BY <1>1, <1>6 DEF JoinFails, GivesUp, Types
  <2>2. host = Untouched
    BY <2>1 DEF AloneInv, Clean
  <2>3. ~host'.address /\ ~host'.relaxed /\ ~host'.exception /\ ~host'.parked
    BY <1>6, <2>2 DEF JoinFails, Untouched
  <2> QED
    BY <1>1, <2>1, <2>3 DEF AloneInv, Undoable
<1>7. CASE SetAddress(Worker)
  <2>1. /\ want' = want /\ held' = held
        /\ pc[Worker] = "address" /\ pc'[Worker] \in {"up", "release"}
        /\ pc'[Worker] = "up" => host'.address
    BY <1>1, <1>7 DEF SetAddress, GivesUp, Types, HostStates
  <2>2. Undoable /\ host.link = want[Worker].ap /\ ~host.relaxed /\ ~host.parked
    BY <2>1 DEF AloneInv
  <2>3. /\ host'.link = host.link /\ host'.relaxed = host.relaxed
        /\ host'.exception = host.exception /\ host'.parked = host.parked
        /\ radio'.saved = radio.saved /\ radio'.policy = radio.policy /\ radio'.assigned
    BY <1>7 DEF SetAddress, Types, HostStates, RadioStates
  <2> QED
    BY <1>1, <2>1, <2>2, <2>3 DEF AloneInv, Undoable
<1>8. CASE LinkUpFails(Worker)
  <2>1. /\ want' = want /\ radio' = radio /\ host' = host /\ held' = held
        /\ pc[Worker] = "up" /\ pc'[Worker] = "release"
    BY <1>1, <1>8 DEF LinkUpFails, GivesUp, Types
  <2> QED
    BY <1>1, <2>1 DEF AloneInv, Undoable
<1>9. CASE PrepareSoftap(Worker)
  <2>1. /\ want' = want /\ held' = held
        /\ pc[Worker] = "up" /\ pc'[Worker] = "ready"
    BY <1>1, <1>9 DEF PrepareSoftap, Types
  <2>2. /\ Undoable /\ host.link = want[Worker].ap /\ host.address
        /\ ~host.relaxed /\ ~host.parked
    BY <2>1 DEF AloneInv
  <2>3. /\ radio'.saved = ~host.relaxed /\ radio'.assigned = radio.assigned
        /\ radio'.policy = IF Relocated THEN "moved" ELSE "plain"
        /\ host'.link = host.link /\ host'.address = host.address
        /\ host'.relaxed /\ host'.exception
        /\ host'.parked = (host.parked \/ Relocated)
    BY <1>9 DEF PrepareSoftap, Types, HostStates, RadioStates
  <2>4. /\ radio'.saved /\ radio'.policy # "none"
        /\ host'.parked => radio'.policy = "moved"
        /\ HostIsLocal => host'.parked
    BY <2>2, <2>3 DEF Relocated
  <2> QED
    BY <1>1, <2>1, <2>2, <2>3, <2>4 DEF AloneInv, Undoable, Prepared
<1>10. CASE Release(Worker)
  <2>1. /\ want' = want /\ held' = held
        /\ pc[Worker] = "release" /\ pc'[Worker] = "unlock"
        /\ host' = Undone /\ radio' = Forgotten
    BY <1>10 DEF Release, Types
  <2>2. Undone = Untouched
    BY <2>1, ReleaseCleans DEF AloneInv
  <2> QED
    BY <1>1, <2>1, <2>2 DEF AloneInv, Clean, Untouched, Forgotten
<1>11. CASE Unlock(Worker)
  <2>1. /\ want' = want /\ radio' = radio /\ host' = host /\ held' = held
        /\ pc[Worker] = "unlock" /\ pc'[Worker] = "drop"
    BY <1>1, <1>11 DEF Unlock, Types
  <2> QED
    BY <1>1, <2>1 DEF AloneInv, Clean
<1>12. CASE DropHold(Worker)
  BY <1>12 DEF DropHold
<1> QED
  BY <1>2, <1>3, <1>4, <1>5, <1>6, <1>7, <1>8, <1>9, <1>10, <1>11, <1>12 DEF WorkerNext

(* A job that is alone: its own steps, and those of the others.            *)
LEMMA AloneKept ==
    ASSUME Types, KindInv, AloneInv, Next PROVE AloneInv'
<1> SUFFICES ASSUME alone' PROVE AloneInv'
  BY DEF AloneInv
<1> USE RadioAssumption DEF At, GoTo, Procs
<1>1. ASSUME NEW ap \in Aps, JobStarts(ap) PROVE AloneInv'
  <2>1. /\ Clean /\ \A t \in Threads : InSession(t) => want[t].kind = "scan"
    BY <1>1 DEF JobStarts
  <2>2. \A t \in Threads : want[t].kind = "scan"
    BY <2>1 DEF KindInv, InSession
  <2>3. /\ held' /\ pc'[Worker] = "lock" /\ radio' = radio /\ host' = host
        /\ \A t \in Threads : want'[t] = want[t]
    BY <1>1 DEF JobStarts, Types
  <2> QED
    BY <2>1, <2>2, <2>3 DEF AloneInv, Clean
<1>2. CASE WorkerNext
  <2>1. alone
    <3>1. CASE JobReady \/ JobTalks \/ Lock(Worker) \/ Unlock(Worker) \/ Release(Worker)
      BY <3>1 DEF JobReady, JobTalks, Lock, Unlock, Release
    <3>2. CASE \/ Join(Worker) \/ JoinFails(Worker) \/ SetAddress(Worker)
               \/ LinkUpFails(Worker) \/ PrepareSoftap(Worker)
      BY <3>2 DEF Join, JoinFails, SetAddress, LinkUpFails, PrepareSoftap
    <3>3. CASE DropHold(Worker)
      BY <3>3 DEF DropHold
    <3> QED
      BY <1>2, <3>1, <3>2, <3>3 DEF WorkerNext
  <2> QED
    BY <1>2, <2>1, JobKeepsAlone
<1>3. CASE \E t \in Threads :
             \/ \E kind \in {"probe", "identify"}, ap \in Aps : ThreadStarts(t, kind, ap)
             \/ ScanStarts(t)
             \/ ThreadNext(t)
  BY <1>3, ThreadsKeepAlone
<1> QED
  BY <1>1, <1>2, <1>3 DEF Next

LEMMA RadioStep ==
    ASSUME RadioInv, [Next]_vars PROVE RadioInv'
<1>1. CASE Next
  BY <1>1, TypesKept, LineKept, KindKept, HeldKept, AloneKept DEF RadioInv
<1>2. CASE UNCHANGED vars
  BY <1>2 DEF vars, RadioInv, Types, LineInv, KindInv, HeldInv, AloneInv, InLine, HasLock,
              Clean, Undoable, Prepared
<1> QED
  BY <1>1, <1>2

(* The inductive invariant: types, the line, what a process works on,      *)
(* whose the flag is, and how far a job that is alone has come.            *)
THEOREM RadioInvariant == Spec => []RadioInv
<1>1. RadioInv /\ [Next]_vars => RadioInv'
  BY RadioStep
<1> QED
  BY <1>1, RadioInit, PTL DEF Spec

(* Nobody stands in line twice, so the line is no longer than the          *)
(* processes are many.                                                     *)
LEMMA LineIsShort ==
    ASSUME Types, LineInv PROVE Len(line) <= Cardinality(Procs)
<1>1. IsFiniteSet(Procs) /\ Cardinality(Procs) \in Nat
  BY RadioAssumption, FS_AddElement, FS_CardinalityType DEF Procs
<1>2. Len(line) \in Nat /\ IsFiniteSet(1..Len(line)) /\ Cardinality(1..Len(line)) = Len(line)
  <2>1. Len(line) \in Nat
    BY DEF Types
  <2>2. /\ IsFiniteSet(1..Len(line))
        /\ Cardinality(1..Len(line)) = IF 1 > Len(line) THEN 0 ELSE Len(line) - 1 + 1
    BY <2>1, FS_Interval
  <2> QED
    BY <2>1, <2>2
<1>3. line \in [1..Len(line) -> Procs]
  BY DEF Types
<1>4. SUFFICES ASSUME Cardinality(Procs) < Cardinality(1..Len(line)) PROVE FALSE
  BY <1>1, <1>2
<1>5. \E x, y \in 1..Len(line) : x # y /\ line[x] = line[y]
  BY <1>1, <1>2, <1>3, <1>4, FS_PigeonHole
<1> QED
  BY <1>5 DEF LineInv

(* What the invariant says of the properties.                              *)
LEMMA RadioTypes == RadioInv => TypeOK
BY LineIsShort DEF RadioInv, Types, TypeOK

LEMMA RadioExclusive == RadioInv => OneInTheRadio
<1> SUFFICES ASSUME RadioInv PROVE OneInTheRadio
  OBVIOUS
<1>1. ASSUME NEW p \in Procs
      PROVE  Cardinality({i \in 1..Len(line) : line[i] = p}) = (IF InLine(p) THEN 1 ELSE 0)
  <2>1. CASE InLine(p)
    <3>1. PICK i \in 1..Len(line) : line[i] = p
      BY <2>1 DEF RadioInv, LineInv
    <3>2. {k \in 1..Len(line) : line[k] = p} = {i}
      BY <3>1 DEF RadioInv, LineInv
    <3> QED
      BY <2>1, <3>2, FS_Singleton
  <2>2. CASE ~InLine(p)
    <3>1. {k \in 1..Len(line) : line[k] = p} = {}
      BY <2>2 DEF RadioInv, LineInv
    <3> QED
      BY <2>2, <3>1, FS_EmptySet
  <2> QED
    BY <2>1, <2>2
<1>2. \A p \in Procs : pc[p] \in {"address", "up", "ready", "unlock"} => HasLock(p)
  BY DEF RadioInv, LineInv, Holding
<1> QED
  BY <1>1, <1>2 DEF OneInTheRadio

LEMMA RadioUndisturbed == RadioInv => JobAloneIsUndisturbed
BY DEF RadioInv, AloneInv, Prepared, JobAloneIsUndisturbed

LEMMA RadioLeftClean == RadioInv => JobAloneLeavesClean
BY DEF RadioInv, AloneInv, JobAloneLeavesClean

LEMMA RadioFree == RadioInv => QuietMeansFree
<1> SUFFICES ASSUME RadioInv, Quiet PROVE ~held /\ line = <<>>
  BY DEF QuietMeansFree
<1>1. ~held
  BY DEF RadioInv, HeldInv, Quiet
<1>2. \A i \in 1..Len(line) : FALSE
  BY DEF RadioInv, Types, LineInv, Quiet, InLine, Queued
<1> QED
  BY <1>1, <1>2 DEF RadioInv, Types

(* Types hold always, and the line of the fair mutex is bounded            *)
(* (runtime.rs, the radio mutex).                                          *)
THEOREM RadioTypeCorrect == Spec => []TypeOK
BY RadioTypes, RadioInvariant, PTL

(* Between acquiring and dropping the mutex a process is the only one that *)
(* touches the radio (runtime.rs probe, identify, scan, run_program_job).  *)
THEOREM RadioIsExclusive == Spec => []OneInTheRadio
BY RadioExclusive, RadioInvariant, PTL

(* A job that began alone keeps its Soft-AP, its address and its routes    *)
(* for as long as it talks to its device (runtime.rs RadioHold).           *)
THEOREM JobKeepsItsRadio == Spec => []JobAloneIsUndisturbed
BY RadioUndisturbed, RadioInvariant, PTL

(* A job that began alone leaves the host as it found it, whichever step   *)
(* failed (runtime.rs run_program_job; radio.rs release).                  *)
THEOREM JobCleansUp == Spec => []JobAloneLeavesClean
BY RadioLeftClean, RadioInvariant, PTL

(* With no request under way the flag is clear and nobody has the mutex    *)
(* (runtime.rs RadioHold::drop).                                           *)
THEOREM NothingIsLeftBusy == Spec => []QuietMeansFree
BY RadioFree, RadioInvariant, PTL

-----------------------------------------------------------------------------
(* What the broken promises need                                           *)

(* The runs radio_takeover, radio_restore and radio_exit show three        *)
(* comments of the code violated.  Here is what each would take.  The flag *)
(* is looked at and set in two steps, so a probe or a blink that was let   *)
(* in can overlap a job; suppose that none does.                           *)
Apart == InSession(Worker) => \A t \in Threads : InSession(t) => want[t].kind = "scan"

(* Then what was changed on the host has an owner, who will release it,    *)
(* and who is alone with the radio, so that nobody prepares it twice.      *)
Owns(p) == pc[p] \in {"ready", "relock", "release"} \/ (pc[p] = "talk" /\ want[p].kind # "scan")

Changed == host.relaxed \/ host.parked \/ host.exception

ApartInv ==
    /\ Undoable
    /\ Changed => \E p \in Procs : Owns(p)
    /\ \A t \in Threads : pc[t] \in {"talk", "release"} /\ want[t].kind # "scan" => HasLock(t)
    /\ pc[Worker] \in {"address", "up", "ready", "talk", "relock"} => host.link = want[Worker].ap

(* A step of one process leaves the others where they are.                 *)
LEMMA ApartFrame ==
    ASSUME ApartInv, NEW p \in Procs,
           \A q \in Procs \ {p} : pc'[q] = pc[q] /\ want'[q] = want[q],
           Undoable',
           Changed' => Changed \/ Owns(p)',
           Owns(p) /\ Changed' => Owns(p)',
           \A t \in Threads \ {p} : HasLock(t) => HasLock(t)',
           p \in Threads /\ pc'[p] \in {"talk", "release"} /\ want'[p].kind # "scan" => HasLock(p)',
           pc'[Worker] \in {"address", "up", "ready", "talk", "relock"} => host'.link = want'[Worker].ap
    PROVE  ApartInv'
<1>1. Changed' => \E q \in Procs : Owns(q)'
  <2>1. CASE Changed' /\ Owns(p)'
    BY <2>1
  <2>2. CASE Changed' /\ ~Owns(p)'
    <3>1. PICK q \in Procs : Owns(q)
      BY <2>2 DEF ApartInv
    <3>2. q # p
      BY <2>2, <3>1
    <3> QED
      BY <3>1, <3>2 DEF Owns
  <2> QED
    BY <2>1, <2>2
<1>2. ASSUME NEW t \in Threads, pc'[t] \in {"talk", "release"}, want'[t].kind # "scan"
      PROVE  HasLock(t)'
  <2>1. CASE t = p
    BY <1>2, <2>1
  <2>2. CASE t # p
    BY <1>2, <2>2 DEF ApartInv, Procs
  <2> QED
    BY <2>1, <2>2
<1> QED
  BY <1>1, <1>2 DEF ApartInv

(* Who is at the radio finds nothing changed: an owner would have the      *)
(* mutex, or be the job that nobody overlaps.                              *)
LEMMA NothingChangedYet ==
    ASSUME RadioInv, Apart, ApartInv, NEW p \in Procs, pc[p] = "up"
    PROVE  ~Changed
<1> SUFFICES ASSUME NEW q \in Procs, Owns(q) PROVE FALSE
  BY DEF ApartInv
<1> USE RadioAssumption DEF Procs, RadioInv
<1>1. q # p /\ HasLock(p)
  BY DEF Owns, LineInv, Holding
<1>2. CASE q = Worker
  <2>1. p \in Threads /\ want[p].kind # "scan" /\ InSession(p) /\ InSession(Worker)
    BY <1>1, <1>2 DEF Owns, KindInv, ScanPoints, InSession
  <2> QED
    BY <2>1 DEF Apart
<1>3. CASE q \in Threads
  <2>1. pc[q] \in {"talk", "release"} /\ want[q].kind # "scan"
    BY <1>3 DEF Owns, KindInv, ScanPoints
  <2>2. HasLock(q)
    BY <1>3, <2>1 DEF ApartInv
  <2> QED
    BY <1>1, <2>2 DEF HasLock
<1> QED
  BY <1>2, <1>3

(* A thread that is past the flag for a probe or a blink keeps the worker  *)
(* out.                                                                    *)
LEMMA WorkerKeptOut ==
    ASSUME KindInv, Apart, NEW t \in Threads, pc[t] \notin ScanPoints PROVE pc[Worker] = "idle"
BY DEF KindInv, Apart, InSession, ScanPoints

(* Each step of somebody who acquires, waits, talks or leaves.             *)
LEMMA ApartWaits ==
    ASSUME RadioInv, ApartInv, NEW p \in Procs, NEW point \in Points,
           radio' = radio, host' = host,
           \A q \in Procs \ {p} : pc'[q] = pc[q] /\ want'[q] = want[q],
           pc'[p] = point, ~Owns(p),
           \A t \in Threads \ {p} : HasLock(t) => HasLock(t)',
           p \in Threads /\ point \in {"talk", "release"} => want'[p].kind = "scan",
           p = Worker => point \notin {"address", "up", "ready", "talk", "relock"}
    PROVE  ApartInv'
<1>1. Undoable' /\ Changed' = Changed
  BY DEF ApartInv, Undoable, Changed
<1>2. pc'[Worker] \in {"address", "up", "ready", "talk", "relock"} => host'.link = want'[Worker].ap
  BY DEF ApartInv, Procs
<1> QED
  BY <1>1, <1>2, ApartFrame

LEMMA ApartKept ==
    ASSUME RadioInv, Apart, Apart', ApartInv, Next PROVE ApartInv'
<1> USE RadioAssumption DEF RadioInv, Procs, GoTo, At
<1>1. ASSUME NEW ap \in Aps, JobStarts(ap) PROVE ApartInv'
  <2>1. /\ radio' = radio /\ host' = host /\ line' = line /\ pc'[Worker] = "lock"
        /\ \A q \in Procs \ {Worker} : pc'[q] = pc[q] /\ want'[q] = want[q]
        /\ ~Owns(Worker)
    BY <1>1 DEF JobStarts, Types, Owns
  <2> QED
    BY <2>1, ApartWaits DEF Points, HasLock
<1>2. CASE JobReady
  <2>1. /\ radio' = radio /\ host' = host /\ want' = want
        /\ pc[Worker] = "ready" /\ pc'[Worker] \in {"release", "talk"}
        /\ \A q \in Procs \ {Worker} : pc'[q] = pc[q]
    BY <1>2 DEF JobReady, Types
  <2>2. HasLock(Worker) /\ want[Worker].kind = "job"
    BY <2>1 DEF LineInv, Holding, KindInv
  <2>3. \A t \in Threads : ~HasLock(t)
    BY <2>2 DEF HasLock
  <2>4. Undoable' /\ Changed' = Changed /\ Owns(Worker)'
    BY <2>1, <2>2 DEF ApartInv, Undoable, Changed, Owns
  <2>5. host'.link = want'[Worker].ap
    BY <2>1 DEF ApartInv
  <2> QED
    BY <2>1, <2>3, <2>4, <2>5, ApartFrame
<1>3. CASE JobTalks
  <2>1. /\ radio' = radio /\ host' = host /\ want' = want /\ line' = line
        /\ pc[Worker] = "talk" /\ pc'[Worker] = "relock"
        /\ \A q \in Procs \ {Worker} : pc'[q] = pc[q]
    BY <1>3 DEF JobTalks, Types
  <2>2. Undoable' /\ Changed' = Changed /\ Owns(Worker)' /\ host'.link = want'[Worker].ap
    BY <2>1 DEF ApartInv, Undoable, Changed, Owns
  <2> QED
    BY <2>1, <2>2, ApartFrame DEF HasLock
<1>4. ASSUME NEW t \in Threads,
             \/ \E kind \in {"probe", "identify"}, ap \in Aps : ThreadStarts(t, kind, ap)
             \/ ScanStarts(t) \/ ThreadHold(t)
      PROVE  ApartInv'
  <2>1. /\ radio' = radio /\ host' = host /\ line' = line /\ pc'[t] \in {"hold", "lock"}
        /\ \A q \in Procs \ {t} : pc'[q] = pc[q] /\ want'[q] = want[q]
        /\ ~Owns(t)
    BY <1>4 DEF ThreadStarts, ScanStarts, ThreadHold, Types, Owns
  <2> QED
    BY <2>1, ApartWaits DEF Points, HasLock
<1>5. ASSUME NEW t \in Threads, ThreadTalks(t) PROVE ApartInv'
  <2>1. /\ radio' = radio /\ host' = host /\ want' = want /\ line' = line
        /\ pc[t] = "talk" /\ HasLock(t)
        /\ pc'[t] = IF want[t].kind = "scan" THEN "unlock" ELSE "release"
        /\ \A q \in Procs \ {t} : pc'[q] = pc[q]
    BY <1>5 DEF ThreadTalks, Types
  <2>2. /\ Undoable' /\ Changed' = Changed
        /\ Owns(t) => Owns(t)'
        /\ \A s \in Threads : HasLock(s)' = HasLock(s)
    BY <2>1 DEF ApartInv, Undoable, Changed, Owns, HasLock
  <2>3. pc'[Worker] \in {"address", "up", "ready", "talk", "relock"} => host'.link = want'[Worker].ap
    BY <2>1 DEF ApartInv
  <2> QED
    BY <2>1, <2>2, <2>3, ApartFrame
<1>6. ASSUME NEW p \in Procs, Lock(p) PROVE ApartInv'
  <2>1. /\ radio' = radio /\ host' = host /\ want' = want /\ line' = Append(line, p)
        /\ \A q \in Procs \ {p} : pc'[q] = pc[q]
    BY <1>6 DEF Lock, Types
  <2>2. \A t \in Threads : HasLock(t) => HasLock(t)'
    BY <2>1 DEF HasLock, Types
  <2>3. CASE pc[p] = "relock"
    <3>1. p = Worker /\ pc'[p] = "release"
      BY <1>6, <2>3 DEF Lock, Types, KindInv
    <3>2. Undoable' /\ Changed' = Changed /\ Owns(Worker)'
      BY <2>1, <3>1 DEF ApartInv, Undoable, Changed, Owns
    <3> QED
      BY <2>1, <2>2, <3>1, <3>2, ApartFrame
  <2>4. CASE pc[p] = "lock"
    <3>1. pc'[p] = IF want[p].kind = "scan" THEN "talk" ELSE "join"
      BY <1>6, <2>4 DEF Lock, Types
    <3>2. ~Owns(p) /\ (p = Worker => pc'[p] = "join")
      BY <2>4, <3>1 DEF Owns, KindInv
    <3> QED
      BY <2>1, <2>2, <3>1, <3>2, ApartWaits DEF Points
  <2> QED
    BY <1>6, <2>3, <2>4 DEF Lock
<1>7. ASSUME NEW p \in Procs, Join(p) \/ JoinFails(p) \/ SetAddress(p) \/ LinkUpFails(p)
      PROVE  ApartInv'
  <2>1. /\ HasLock(p) /\ line' = line /\ want' = want /\ pc[p] \in {"join", "address", "up"}
        /\ \A q \in Procs \ {p} : pc'[q] = pc[q]
    BY <1>7 DEF Join, JoinFails, SetAddress, LinkUpFails, GivesUp, Types
  <2>2. ~Owns(p)
    BY <2>1 DEF Owns
  <2>3. p \in Threads => pc'[Worker] = "idle"
    BY <2>1, WorkerKeptOut DEF ScanPoints
  <2>4. Changed' = Changed /\ Undoable'
    <3>1. CASE Join(p)
      BY <3>1 DEF Join, Types, HostStates, RadioStates, ApartInv, Undoable, Changed
    <3>2. CASE JoinFails(p)
      BY <3>2 DEF JoinFails, Types, HostStates, RadioStates, ApartInv, Undoable, Changed
    <3>3. CASE SetAddress(p)
      BY <3>3 DEF SetAddress, Types, HostStates, RadioStates, ApartInv, Undoable, Changed
    <3>4. CASE LinkUpFails(p)
      BY <3>4 DEF LinkUpFails, ApartInv, Undoable, Changed
    <3> QED
      BY <1>7, <3>1, <3>2, <3>3, <3>4
  <2>5. \A t \in Threads : HasLock(t)' = HasLock(t)
    BY <2>1 DEF HasLock
  <2>6. ASSUME p = Worker, pc'[p] \in {"address", "up", "ready", "talk", "relock"}
        PROVE  host'.link = want'[Worker].ap
    <3>1. CASE Join(p)
      BY <2>6, <3>1 DEF Join, Types, HostStates
    <3>2. CASE JoinFails(p)
      BY <2>6, <3>2 DEF JoinFails, GivesUp, Types
    <3>3. CASE SetAddress(p)
      BY <2>1, <2>6, <3>3 DEF SetAddress, Types, HostStates, ApartInv
    <3>4. CASE LinkUpFails(p)
      BY <2>6, <3>4 DEF LinkUpFails, GivesUp, Types
    <3> QED
      BY <1>7, <3>1, <3>2, <3>3, <3>4
  <2> QED
    BY <2>1, <2>2, <2>3, <2>4, <2>5, <2>6, ApartFrame
<1>8. ASSUME NEW p \in Procs, PrepareSoftap(p) PROVE ApartInv'
  <2>1. /\ HasLock(p) /\ line' = line /\ want' = want /\ pc[p] = "up"
        /\ pc'[p] = IF want[p].kind = "job" THEN "ready" ELSE "talk"
        /\ \A q \in Procs \ {p} : pc'[q] = pc[q]
    BY <1>8 DEF PrepareSoftap, Types
  <2>2. ~host.relaxed /\ ~host.parked
    BY <2>1, NothingChangedYet DEF Changed
  <2>3. p \in Threads => want[p].kind # "scan" /\ pc'[Worker] = "idle"
    BY <2>1, WorkerKeptOut DEF ScanPoints, KindInv
  <2>4. Owns(p)'
    BY <2>1, <2>3 DEF Owns, KindInv
  <2>5. Undoable'
    <3>1. /\ radio'.saved /\ radio'.assigned = radio.assigned
          /\ radio'.policy = IF Relocated THEN "moved" ELSE "plain"
          /\ host'.address = host.address
          /\ host'.parked = (host.parked \/ Relocated)
      BY <1>8, <2>2 DEF PrepareSoftap, Types, HostStates, RadioStates
    <3> QED
      BY <2>2, <3>1 DEF ApartInv, Undoable
  <2>6. \A t \in Threads : HasLock(t)' = HasLock(t)
    BY <2>1 DEF HasLock
  <2>7. p = Worker => host'.link = want'[Worker].ap
    BY <1>8, <2>1 DEF PrepareSoftap, Types, HostStates, ApartInv
  <2> QED
    BY <2>1, <2>3, <2>4, <2>5, <2>6, <2>7, ApartFrame
<1>9. ASSUME NEW p \in Procs, Release(p) PROVE ApartInv'
  <2>1. /\ HasLock(p) /\ line' = line /\ want' = want /\ pc[p] = "release" /\ pc'[p] = "unlock"
        /\ \A q \in Procs \ {p} : pc'[q] = pc[q]
        /\ host' = Undone /\ radio' = Forgotten
    BY <1>9 DEF Release, Types
  <2>2. host' = Untouched
    BY <2>1, ReleaseCleans DEF ApartInv
  <2>3. p \in Threads => pc'[Worker] = "idle"
    BY <2>1, WorkerKeptOut DEF ScanPoints
  <2>4. ~Changed' /\ Undoable'
    BY <2>2 DEF Untouched, Changed, Undoable
  <2>5. \A t \in Threads : HasLock(t)' = HasLock(t)
    BY <2>1 DEF HasLock
  <2> QED
    BY <2>1, <2>3, <2>4, <2>5, ApartFrame
<1>10. ASSUME NEW p \in Procs, Unlock(p) PROVE ApartInv'
  <2>1. /\ radio' = radio /\ host' = host /\ want' = want
        /\ pc[p] = "unlock" /\ pc'[p] \in {"idle", "drop"}
        /\ \A q \in Procs \ {p} : pc'[q] = pc[q]
        /\ ~Owns(p)
    BY <1>10 DEF Unlock, Types, Owns
  <2>2. \A t \in Threads \ {p} : ~HasLock(t)
    BY <2>1 DEF LineInv, Holding, HasLock
  <2> QED
    BY <2>1, <2>2, ApartWaits DEF Points
<1>11. ASSUME NEW p \in Procs, DropHold(p) PROVE ApartInv'
  <2>1. /\ radio' = radio /\ host' = host /\ line' = line /\ pc'[p] = "idle"
        /\ \A q \in Procs \ {p} : pc'[q] = pc[q] /\ want'[q] = want[q]
        /\ ~Owns(p)
    BY <1>11 DEF DropHold, Types, Owns
  <2> QED
    BY <2>1, ApartWaits DEF Points, HasLock
<1> QED
  BY <1>1, <1>2, <1>3, <1>4, <1>5, <1>6, <1>7, <1>8, <1>9, <1>10, <1>11
     DEF Next, WorkerNext, ThreadNext

LEMMA ApartStep ==
    ASSUME RadioInv, Apart, Apart', ApartInv, [Next]_vars PROVE ApartInv'
<1>1. CASE UNCHANGED vars
  BY <1>1 DEF vars, ApartInv, Undoable, Changed, Owns, HasLock
<1> QED
  BY <1>1, ApartKept

LEMMA ApartKeepsPromises ==
    RadioInv /\ ApartInv => SoftApStaysAssociated /\ HostSettingsRestored
BY RadioAssumption DEF ApartInv, Owns, Changed, Quiet, SoftApStaysAssociated, HostSettingsRestored

(* As long as no probe or blink overlaps a job, the Soft-AP stays          *)
(* associated while the job talks and every setting of the host comes      *)
(* back: that overlap is all that radio_takeover and radio_restore need    *)
(* (runtime.rs run_program_job, probe, identify; netcfg.rs restore).       *)
THEOREM ApartIsEnough == Spec /\ []Apart => [](SoftApStaysAssociated /\ HostSettingsRestored)
<1>1. Init => ApartInv
  BY RadioAssumption
     DEF Init, ApartInv, Undoable, Changed, Untouched, Procs
<1>2. RadioInv /\ Apart /\ Apart' /\ ApartInv /\ [Next]_vars => ApartInv'
  BY ApartStep
<1> QED
  BY <1>1, <1>2, RadioInvariant, ApartKeepsPromises, PTL DEF Spec

(* The third promise fails without any overlap: a blink, and a probe that  *)
(* fails late, leave without a release.  Suppose there are none.           *)
OnlyScans == \A t \in Threads : want[t].kind = "scan"

(* Then every job is alone, and nobody else changes anything.              *)
ScanInv ==
    /\ InSession(Worker) => alone
    /\ ~InSession(Worker) => Clean

LEMMA ScanStep ==
    ASSUME RadioInv, OnlyScans, OnlyScans', ScanInv, [Next]_vars PROVE ScanInv'
<1> USE RadioAssumption DEF Procs, GoTo, At, InSession
<1>1. ASSUME NEW ap \in Aps, JobStarts(ap) PROVE ScanInv'
  BY <1>1 DEF JobStarts, ScanInv, OnlyScans, RadioInv, Types
<1>2. CASE WorkerNext
  <2>1. CASE DropHold(Worker)
    <3>1. Clean
      BY <2>1 DEF DropHold, ScanInv, RadioInv, AloneInv
    <3> QED
      BY <2>1, <3>1 DEF DropHold, ScanInv, RadioInv, Types, Clean
  <2>2. CASE ~DropHold(Worker)
    <3>1. alone' = alone /\ pc[Worker] # "idle" /\ pc'[Worker] # "idle"
      <4>1. CASE JobReady \/ JobTalks \/ Lock(Worker) \/ Release(Worker)
        BY <4>1 DEF JobReady, JobTalks, Lock, Release, RadioInv, Types
      <4>2. CASE \/ Join(Worker) \/ JoinFails(Worker) \/ SetAddress(Worker)
                 \/ LinkUpFails(Worker) \/ PrepareSoftap(Worker)
        BY <4>2 DEF Join, JoinFails, SetAddress, LinkUpFails, PrepareSoftap, GivesUp,
                    RadioInv, Types
      <4>3. CASE Unlock(Worker)
        BY <4>3 DEF Unlock, RadioInv, Types, KindInv
      <4> QED
        BY <1>2, <2>2, <4>1, <4>2, <4>3 DEF WorkerNext
    <3> QED
      BY <3>1 DEF ScanInv
  <2> QED
    BY <2>1, <2>2
<1>3. ASSUME NEW t \in Threads, NEW kind \in {"probe", "identify"}, NEW ap \in Aps,
             ThreadStarts(t, kind, ap)
      PROVE  ScanInv'
  <2>1. want'[t].kind = kind
    BY <1>3 DEF ThreadStarts, RadioInv, Types
  <2> QED
    BY <2>1 DEF OnlyScans
<1>4. ASSUME NEW t \in Threads, ScanStarts(t) \/ ThreadNext(t)
      PROVE  ScanInv'
  <2>1. want[t].kind = "scan" /\ pc[t] \in ScanPoints
    BY DEF OnlyScans, RadioInv, KindInv
  <2>2. ScanStarts(t) \/ ThreadTalks(t) \/ Lock(t) \/ Unlock(t)
    BY <1>4, <2>1 DEF ThreadNext, ThreadHold, Join, JoinFails, SetAddress, LinkUpFails,
                      PrepareSoftap, Release, DropHold, ScanPoints
  <2>3. alone' = alone /\ radio' = radio /\ host' = host /\ pc'[Worker] = pc[Worker]
    BY <2>2 DEF ScanStarts, ThreadTalks, Lock, Unlock, RadioInv, Types
  <2> QED
    BY <2>3 DEF ScanInv, Clean
<1>5. CASE UNCHANGED vars
  BY <1>5 DEF vars, ScanInv, Clean
<1> QED
  BY <1>1, <1>2, <1>3, <1>4, <1>5 DEF Next

LEMMA ScansKeepPromises ==
    ASSUME RadioInv, ScanInv
    PROVE  SoftApStaysAssociated /\ HostSettingsRestored /\ ReleasedOnEveryExit
<1>1. SoftApStaysAssociated
  BY DEF RadioInv, AloneInv, Prepared, ScanInv, InSession, SoftApStaysAssociated
<1>2. Quiet => host = Untouched
  BY DEF Quiet, ScanInv, InSession, Clean, Procs
<1> QED
  BY <1>1, <1>2 DEF Untouched, HostSettingsRestored, ReleasedOnEveryExit

(* With jobs and scans only, every promise is kept, "on every exit path"   *)
(* too: a job releases the radio whichever step failed and wherever it was *)
(* cancelled (runtime.rs run_program_job, run_firmware_job; radio.rs).     *)
THEOREM JobsAndScansReleaseAlways ==
    Spec /\ []OnlyScans
        => [](SoftApStaysAssociated /\ HostSettingsRestored /\ ReleasedOnEveryExit)
<1>1. Init => ScanInv
  BY DEF Init, ScanInv, InSession, Clean, Procs
<1>2. RadioInv /\ OnlyScans /\ OnlyScans' /\ ScanInv /\ [Next]_vars => ScanInv'
  BY ScanStep
<1>3. RadioInv /\ ScanInv => SoftApStaysAssociated /\ HostSettingsRestored /\ ReleasedOnEveryExit
  BY ScansKeepPromises
<1> QED
  BY <1>1, <1>2, <1>3, RadioInvariant, PTL DEF Spec

=============================================================================
