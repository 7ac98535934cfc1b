------------------------- MODULE CandidateCacheProofs -------------------------
(***************************************************************************)
(* Proofs about CandidateCache, for every number of connection threads and *)
(* every set of Soft-APs, command stations, ports and hosts: what the      *)
(* cache shows of a mode is one scan's answer, and a job loses a known     *)
(* candidate to scans only.                                                *)
(***************************************************************************)
EXTENDS CandidateCache, FiniteSetTheorems, TLAPS

-----------------------------------------------------------------------------
(* The inductive invariant                                                 *)

(* What a thread that is on its way has in hand.                           *)
ThreadInv ==
    \A t \in Threads :
        /\ At(t, "apply") => thread[t].found \subseteq KeysOf[thread[t].mode]
        /\ At(t, "apply") /\ thread[t].update => thread[t].mode = "usb"
        /\ thread[t].pc \in {"look", "insert", "submit"} => thread[t].choice.key \in Keys
        /\ At(t, "insert") => thread[t].choice.key \notin ApKeys
        /\ At(t, "look") => thread[t].choice.key \in Z21Keys /\ ~thread[t].choice.byHand

(* What is known of a candidate is still there as long as too few scans    *)
(* have come by: one for what a scan had found, two for what was entered   *)
(* by hand, none for a port or a host.                                     *)
KeptIn(entries, c) ==
    c.known /\ c.key \in Keys =>
        /\ c.key \in UsbKeys \cup LanKeys => entries[c.key] # "absent"
        /\ c.since = 0 => entries[c.key] # "absent"
        /\ c.byHand => c.key \notin ApKeys
        /\ c.byHand /\ c.key \in Z21Keys /\ c.since = 0 => entries[c.key] = "manual"
        /\ c.byHand /\ c.since = 1 => entries[c.key] # "absent"

Kept(c) == KeptIn(cache, c)

KeptInv ==
    /\ \A t \in Threads : Kept(thread[t].choice)
    /\ job.state = "queued" => Kept(job.choice)

CacheInv == TypeOK /\ ThreadInv /\ KeptInv /\ OneScanPerMode /\ LostOnlyToScans

-----------------------------------------------------------------------------
(* Keys                                                                    *)

(* The keys of each mode.                                                  *)
LEMMA ModesAndKeys ==
    /\ KeysOf["ap"] = ApKeys /\ KeysOf["z21"] = Z21Keys
    /\ KeysOf["usb"] = UsbKeys /\ KeysOf["lan"] = LanKeys
    /\ \A m \in Modes : KeysOf[m] \subseteq Keys
  BY DEF KeysOf, Modes, Keys

(* An update without a port goes on only with a port.                      *)
LEMMA OnlyOneIsOne ==
    ASSUME NEW keys, keys \subseteq Keys, TheOnly(keys) # NoKey
    PROVE  TheOnly(keys) \in keys
<1>1. Cardinality(keys) = 1
  BY DEF TheOnly
<1>2. keys # {}
  BY <1>1, FS_EmptySet
<1>3. PICK k \in keys : TRUE
  BY <1>2
<1> QED
  BY <1>1, <1>3 DEF TheOnly

(* Counting a scan changes how often, and nothing else.                    *)
LEMMA CountedIs ==
    ASSUME NEW m \in Modes, NEW c \in Choice
    PROVE  /\ Counted(m, c) \in Choice
           /\ Counted(m, c).key = c.key /\ Counted(m, c).known = c.known
           /\ Counted(m, c).byHand = c.byHand /\ Counted(m, c).kind = c.kind
           /\ Counted(m, c).since =
                 (IF m \in Purging /\ c.known /\ c.key \in KeysOf[m] /\ c.since < SinceCap
                  THEN c.since + 1 ELSE c.since)
<1>1. CASE m \in Purging /\ c.known /\ c.key \in KeysOf[m] /\ c.since < SinceCap
  <2>1. c.since + 1 \in 0..SinceCap
    BY <1>1 DEF Choice, SinceCap
  <2> DEFINE more == c.since + 1
  <2>2. Counted(m, c) = [c EXCEPT !.since = more]
    BY <1>1 DEF Counted
  <2>3. more \in 0..SinceCap
    BY <2>1
  <2> HIDE DEF more
  <2>4. /\ Counted(m, c) \in Choice
        /\ Counted(m, c).key = c.key /\ Counted(m, c).known = c.known
        /\ Counted(m, c).byHand = c.byHand /\ Counted(m, c).kind = c.kind
        /\ Counted(m, c).since = more
    BY <2>2, <2>3 DEF Choice
  <2> QED
    BY <1>1, <2>4 DEF more
<1>2. CASE ~(m \in Purging /\ c.known /\ c.key \in KeysOf[m] /\ c.since < SinceCap)
  BY <1>2 DEF Counted
<1> QED
  BY <1>1, <1>2

-----------------------------------------------------------------------------
(* Init, and the steps of a thread                                         *)

(* The invariant holds of an empty cache.                                  *)
LEMMA CacheInit == Init => CacheInv
<1> SUFFICES ASSUME Init
             PROVE  CacheInv
  OBVIOUS
<1>1. NoChoice \in Choice
  BY DEF NoChoice, Choice, SinceCap
<1>2. Idle \in ThreadStates
  BY <1>1 DEF Idle, ThreadStates, Modes
<1>3. NoJob \in JobStates
  BY <1>1 DEF NoJob, JobStates
<1>4. TypeOK
  BY <1>2, <1>3 DEF Init, TypeOK, Entries, Idle, NoJob
<1>5. ThreadInv
  BY DEF Init, ThreadInv, At, Idle
<1>6. KeptInv
  BY DEF Init, KeptInv, Kept, KeptIn, Idle, NoChoice, NoJob
<1>7. OneScanPerMode /\ LostOnlyToScans
  BY DEF Init, OneScanPerMode, LostOnlyToScans, NoJob, Keys, Purging
<1> QED
  BY <1>4, <1>5, <1>6, <1>7 DEF CacheInv

(* A thread moves on and leaves cache and job alone.                       *)
LEMMA ThreadMoves ==
    ASSUME CacheInv, NEW t \in Threads, NEW r \in ThreadStates,
           thread' = [thread EXCEPT ![t] = r], UNCHANGED <<cache, job, answer>>,
           r.pc = "apply" => r.found \subseteq KeysOf[r.mode] /\ (r.update => r.mode = "usb"),
           r.pc \in {"look", "insert", "submit"} => r.choice.key \in Keys,
           r.pc = "insert" => r.choice.key \notin ApKeys,
           r.pc = "look" => r.choice.key \in Z21Keys /\ ~r.choice.byHand,
           Kept(r.choice)
    PROVE  CacheInv'
<1>1. thread'[t] = r /\ \A u \in Threads \ {t} : thread'[u] = thread[u]
  BY DEF CacheInv, TypeOK
<1>2. TypeOK'
  BY <1>1 DEF CacheInv, TypeOK
<1>3. ThreadInv'
  BY <1>1 DEF CacheInv, ThreadInv, At
<1>4. KeptInv'
  <2>1. \A u \in Threads : Kept(thread[u].choice)'
    BY <1>1 DEF CacheInv, KeptInv, Kept, KeptIn
  <2>2. (job.state = "queued" => Kept(job.choice))'
    BY DEF CacheInv, KeptInv, Kept, KeptIn
  <2> QED
    BY <2>1, <2>2 DEF KeptInv
<1>5. OneScanPerMode' /\ LostOnlyToScans'
  BY DEF CacheInv, OneScanPerMode, LostOnlyToScans
<1> QED
  BY <1>2, <1>3, <1>4, <1>5 DEF CacheInv

(* A thread with no request in hand.                                       *)
LEMMA NoChoiceIs ==
    /\ NoChoice \in Choice /\ ~NoChoice.known /\ NoChoice.key = NoKey
    /\ Idle \in ThreadStates /\ Idle.pc = "idle" /\ Idle.choice = NoChoice
  BY DEF NoChoice, Choice, SinceCap, Idle, ThreadStates, Modes

(* A scan has its answer: it found keys of its mode.                       *)
LEMMA ScanAnswersKeeps ==
    ASSUME CacheInv, NEW t \in Threads, NEW m \in Modes, NEW update \in BOOLEAN,
           ScanAnswers(t, m, update)
    PROVE  CacheInv'
<1>1. PICK found \in SUBSET KeysOf[m] :
          thread' = [thread EXCEPT ![t] = [Idle EXCEPT !.pc = "apply", !.mode = m,
                                                       !.found = found, !.update = update]]
  BY DEF ScanAnswers, Becomes
<1> DEFINE r == [Idle EXCEPT !.pc = "apply", !.mode = m, !.found = found, !.update = update]
<1>2. found \in SUBSET Keys
  BY ModesAndKeys
<1>3. /\ r \in ThreadStates
      /\ r.pc = "apply" /\ r.mode = m /\ r.found = found /\ r.update = update
      /\ r.choice = NoChoice
  BY <1>2, NoChoiceIs DEF ThreadStates
<1>4. Kept(r.choice)
  BY <1>3, NoChoiceIs DEF Kept, KeptIn
<1>5. (update => m = "usb") /\ UNCHANGED <<cache, job, answer>>
  BY DEF ScanAnswers
<1> HIDE DEF r
<1> QED
  BY <1>1, <1>3, <1>4, <1>5, ThreadMoves DEF r

(* A request is chosen: what is known of it is what the cache has.         *)
LEMMA ChooseKeeps ==
    ASSUME CacheInv, NEW t \in Threads, NEW k \in Keys,
           ChooseProgram(t, k) \/ ChooseUpdate(t, k)
    PROVE  CacheInv'
<1>1. PICK c \in Choice, r \in ThreadStates :
          /\ thread' = [thread EXCEPT ![t] = r]
          /\ r.choice = c /\ c.key = k /\ c.known = (cache[k] # "absent") /\ ~c.byHand
          /\ r.pc \in {"look", "insert", "submit"}
          /\ r.pc = "insert" => k \notin ApKeys
          /\ r.pc = "look" => k \in Z21Keys
  <2>1. CASE ChooseProgram(t, k)
    <3>1. PICK known \in BOOLEAN : known = (cache[k] # "absent")
      OBVIOUS
    <3> DEFINE c == [NoChoice EXCEPT !.key = k, !.known = known]
               r == [Idle EXCEPT !.pc = IF k \in Z21Keys THEN "look" ELSE "submit", !.choice = c]
    <3>2. thread' = [thread EXCEPT ![t] = r]
      BY <2>1, <3>1 DEF ChooseProgram, Becomes
    <3>3. c \in Choice /\ c.key = k /\ c.known = known /\ ~c.byHand
      <4>1. c \in Choice
        BY NoChoiceIs DEF Choice
      <4>2. c.key = k /\ c.known = known /\ ~c.byHand
        BY DEF NoChoice
      <4> QED
        BY <4>1, <4>2
    <3> HIDE DEF c
    <3>4. /\ r \in ThreadStates /\ r.choice = c /\ r.pc \in {"look", "submit"}
          /\ r.pc = "look" => k \in Z21Keys
      BY <3>3, NoChoiceIs DEF ThreadStates
    <3> HIDE DEF r
    <3> QED
      BY <3>1, <3>2, <3>3, <3>4
  <2>2. CASE ChooseUpdate(t, k)
    <3>1. PICK known \in BOOLEAN : known = (cache[k] # "absent")
      OBVIOUS
    <3>5. PICK point \in UpdateGoesOn(k) :
             thread' = [thread EXCEPT ![t] =
                 [Idle EXCEPT !.pc = point,
                              !.choice = [NoChoice EXCEPT !.key = k, !.kind = "update",
                                                          !.known = cache[k] # "absent"]]]
      BY <2>2 DEF ChooseUpdate, Becomes
    <3>6. point \in {"insert", "submit"} /\ (point = "insert" => k \notin ApKeys)
      BY DEF UpdateGoesOn
    <3> DEFINE c == [NoChoice EXCEPT !.key = k, !.kind = "update", !.known = known]
               r == [Idle EXCEPT !.pc = point, !.choice = c]
    <3>2. thread' = [thread EXCEPT ![t] = r]
      BY <3>1, <3>5
    <3>3. c \in Choice /\ c.key = k /\ c.known = known /\ ~c.byHand
      <4>1. c \in Choice
        BY NoChoiceIs DEF Choice
      <4>2. c.key = k /\ c.known = known /\ ~c.byHand
        BY DEF NoChoice
      <4> QED
        BY <4>1, <4>2
    <3> HIDE DEF c
    <3>4. /\ r \in ThreadStates /\ r.choice = c /\ r.pc \in {"insert", "submit"}
          /\ r.pc = "insert" => k \notin ApKeys
      BY <3>3, <3>6, NoChoiceIs DEF ThreadStates
    <3> HIDE DEF r
    <3> QED
      BY <3>1, <3>2, <3>3, <3>4
  <2> QED
    BY <2>1, <2>2
<1>2. Kept(r.choice)
  BY <1>1 DEF Kept, KeptIn
<1>3. UNCHANGED <<cache, job, answer>>
  BY DEF ChooseProgram, ChooseUpdate
<1> QED
  BY <1>1, <1>2, <1>3, ThreadMoves

(* A FRED program looks whether its station is known.                      *)
LEMMA FredLooksKeeps ==
    ASSUME CacheInv, NEW t \in Threads, FredLooks(t)
    PROVE  CacheInv'
<1>1. thread[t] \in ThreadStates /\ thread[t].choice \in Choice
  BY DEF CacheInv, TypeOK, ThreadStates
<1>2. thread[t].choice.key \in Z21Keys /\ thread[t].choice.byHand = FALSE
  BY <1>1 DEF FredLooks, At, CacheInv, ThreadInv, Choice
<1>3. PICK known \in BOOLEAN : known = (cache[thread[t].choice.key] # "absent")
  OBVIOUS
<1> DEFINE c == [thread[t].choice EXCEPT !.known = known, !.byHand = FALSE, !.since = 0]
           r == [thread[t] EXCEPT !.pc = IF known THEN "submit" ELSE "insert", !.choice = c]
<1>4. thread' = [thread EXCEPT ![t] = r] /\ UNCHANGED <<cache, job, answer>>
  <2>1. c = [thread[t].choice EXCEPT !.known = known, !.since = 0]
    BY <1>1, <1>2 DEF Choice
  <2>2. r = [thread[t] EXCEPT !.pc = IF known THEN "submit" ELSE "insert",
                              !.choice.known = known, !.choice.since = 0]
    BY <1>1, <2>1 DEF ThreadStates
  <2> HIDE DEF r
  <2> QED
    BY <1>3, <2>2 DEF FredLooks, Becomes
<1>5. /\ c \in Choice /\ c.key = thread[t].choice.key /\ c.known = known
      /\ c.byHand = FALSE /\ c.since = 0
  <2>1. 0 \in 0..SinceCap
    BY DEF SinceCap
  <2>2. c \in Choice
    BY <1>1, <2>1 DEF Choice
  <2>3. /\ c.key = thread[t].choice.key /\ c.known = known
        /\ c.byHand = FALSE /\ c.since = 0
    BY <1>1 DEF Choice
  <2> QED
    BY <2>2, <2>3
<1> HIDE DEF c
<1>6. r \in ThreadStates /\ r.choice = c /\ r.pc = (IF known THEN "submit" ELSE "insert")
  BY <1>1, <1>5 DEF ThreadStates
<1> HIDE DEF r
<1>7. Kept(r.choice)
  BY <1>3, <1>5, <1>6 DEF Kept, KeptIn
<1>8. r.choice.key \in Z21Keys /\ r.choice.key \in Keys /\ r.choice.key \notin ApKeys
  BY <1>2, <1>5, <1>6, CacheAssumption DEF Keys
<1> QED
  BY <1>4, <1>5, <1>6, <1>7, <1>8, ThreadMoves

(* A candidate is entered by hand.                                         *)
LEMMA EntersByHandKeeps ==
    ASSUME CacheInv, NEW t \in Threads, EntersByHand(t)
    PROVE  CacheInv'
<1> DEFINE k == thread[t].choice.key
           r == [thread[t] EXCEPT !.pc = "submit", !.choice.known = TRUE,
                                  !.choice.byHand = TRUE, !.choice.since = 0]
<1>1. thread[t] \in ThreadStates /\ thread[t].choice \in Choice
  BY DEF CacheInv, TypeOK, ThreadStates
<1>2. k \in Keys /\ k \notin ApKeys
  BY DEF EntersByHand, At, CacheInv, ThreadInv
<1> DEFINE c == [thread[t].choice EXCEPT !.known = TRUE, !.byHand = TRUE, !.since = 0]
<1>3. /\ r \in ThreadStates /\ r.pc = "submit" /\ r.choice.key = k
      /\ r.choice.known = TRUE /\ r.choice.byHand = TRUE /\ r.choice.since = 0
  <2>1. c \in Choice /\ c.key = k /\ c.known = TRUE /\ c.byHand = TRUE /\ c.since = 0
    <3>1. 0 \in 0..SinceCap
      BY DEF SinceCap
    <3>2. c \in Choice
      BY <1>1, <3>1 DEF Choice
    <3>3. c.key = k /\ c.known = TRUE /\ c.byHand = TRUE /\ c.since = 0
      BY <1>1 DEF Choice
    <3> QED
      BY <3>2, <3>3
  <2>2. r = [thread[t] EXCEPT !.pc = "submit", !.choice = c]
    BY <1>1 DEF ThreadStates, Choice
  <2> HIDE DEF c, r
  <2>3. r \in ThreadStates /\ r.pc = "submit" /\ r.choice = c
    BY <1>1, <2>1, <2>2 DEF ThreadStates
  <2> QED
    BY <2>1, <2>3
<1>4. /\ thread' = [thread EXCEPT ![t] = r] /\ cache' = [cache EXCEPT ![k] = "manual"]
      /\ UNCHANGED <<job, answer>>
  BY DEF EntersByHand, Becomes
<1> HIDE DEF r, k
<1>5. thread'[t] = r /\ \A u \in Threads \ {t} : thread'[u] = thread[u]
  BY <1>4 DEF CacheInv, TypeOK
<1>6. cache'[k] = "manual" /\ \A x \in Keys \ {k} : cache'[x] = cache[x]
  BY <1>2, <1>4 DEF CacheInv, TypeOK
<1>7. TypeOK'
  BY <1>2, <1>3, <1>4, <1>5 DEF CacheInv, TypeOK, Entries
<1>8. ThreadInv'
  BY <1>2, <1>3, <1>5 DEF CacheInv, ThreadInv, At
<1>9. KeptInv'
  <2>1. \A u \in Threads \ {t} : Kept(thread[u].choice)'
    BY <1>5, <1>6 DEF CacheInv, KeptInv, Kept, KeptIn
  <2>2. Kept(thread[t].choice)'
    BY <1>2, <1>3, <1>5, <1>6 DEF Kept, KeptIn
  <2>3. (job.state = "queued" => Kept(job.choice))'
    BY <1>4, <1>6 DEF CacheInv, KeptInv, Kept, KeptIn
  <2> QED
    BY <2>1, <2>2, <2>3 DEF KeptInv
<1>10. OneScanPerMode'
  BY <1>2, <1>4, <1>6 DEF CacheInv, OneScanPerMode, Keys
<1>11. LostOnlyToScans'
  BY <1>4 DEF CacheInv, LostOnlyToScans
<1> QED
  BY <1>7, <1>8, <1>9, <1>10, <1>11 DEF CacheInv

(* A request for a job reaches the registry.                               *)
LEMMA SubmitKeeps ==
    ASSUME CacheInv, NEW t \in Threads, Submit(t)
    PROVE  CacheInv'
<1>1. /\ thread' = [thread EXCEPT ![t] = Idle] /\ UNCHANGED <<cache, answer>>
      /\ thread[t].pc = "submit"
  BY DEF Submit, Becomes, At
<1>2. thread'[t] = Idle /\ \A u \in Threads \ {t} : thread'[u] = thread[u]
  BY <1>1 DEF CacheInv, TypeOK
<1>3. \/ job' = job
      \/ job' = [state |-> "queued", choice |-> thread[t].choice]
  BY DEF Submit
<1>4. /\ thread[t].choice \in Choice /\ thread[t].choice.key \in Keys /\ Kept(thread[t].choice)
  BY <1>1 DEF CacheInv, TypeOK, ThreadStates, KeptInv
<1>5. TypeOK'
  <2>1. thread' \in [Threads -> ThreadStates]
    BY <1>1, NoChoiceIs DEF CacheInv, TypeOK
  <2>2. job' \in JobStates /\ (job'.state \in {"queued", "lost"} => job'.choice.key \in Keys)
    BY <1>3, <1>4 DEF CacheInv, TypeOK, JobStates
  <2> QED
    BY <1>1, <1>2, <2>1, <2>2, NoChoiceIs DEF CacheInv, TypeOK
<1>6. ThreadInv'
  BY <1>2, NoChoiceIs DEF CacheInv, ThreadInv, At
<1>7. KeptInv'
  <2>1. ~NoChoice.known
    BY NoChoiceIs
  <2>2. \A u \in Threads : Kept(thread[u].choice)'
    BY <1>1, <1>2, <2>1, NoChoiceIs DEF CacheInv, KeptInv, Kept, KeptIn
  <2>3. (job.state = "queued" => Kept(job.choice))'
    BY <1>1, <1>3, <1>4 DEF CacheInv, KeptInv, Kept
  <2> QED
    BY <2>2, <2>3 DEF KeptInv
<1>8. OneScanPerMode'
  BY <1>1 DEF CacheInv, OneScanPerMode
<1>9. LostOnlyToScans'
  BY <1>3 DEF CacheInv, LostOnlyToScans
<1> QED
  BY <1>5, <1>6, <1>7, <1>8, <1>9 DEF CacheInv

-----------------------------------------------------------------------------
(* A scan is applied                                                       *)

Applied(m, found, entries, k) ==
    IF k \in found THEN "scanned"
    ELSE IF k \in KeysOf[m] /\ (m = "ap" \/ (m = "z21" /\ entries[k] # "manual"))
    THEN "absent" ELSE entries[k]

(* What is known is kept, or the scan is counted.                          *)
LEMMA CountedKept ==
    ASSUME NEW m \in Modes, NEW found \in SUBSET KeysOf[m], NEW c \in Choice,
           NEW before \in [Keys -> Entries], NEW after, KeptIn(before, c),
           \A k \in Keys : after[k] = Applied(m, found, before, k)
    PROVE  KeptIn(after, Counted(m, c))
<1> SUFFICES ASSUME c.known, c.key \in Keys
             PROVE  KeptIn(after, Counted(m, c))
  BY CountedIs DEF KeptIn
<1> DEFINE k == c.key
           more == m \in Purging /\ k \in KeysOf[m]
<1>1. Counted(m, c).key = k /\ Counted(m, c).byHand = c.byHand
  BY CountedIs
<1>2. c.since \in {0, 1, 2}
  BY DEF Choice, SinceCap
<1>3. /\ more => Counted(m, c).since \in {1, 2} /\ (Counted(m, c).since = 1 => c.since = 0)
      /\ ~more => Counted(m, c).since = c.since
  BY <1>2, CountedIs DEF SinceCap
<1>4. CASE ~more
  <2>1. after[k] = before[k] \/ (after[k] = "scanned" /\ k \notin Z21Keys)
    BY <1>4, ModesAndKeys, CacheAssumption DEF Applied, Purging, Modes, KeysOf
  <2> QED
    BY <1>1, <1>3, <1>4, <2>1 DEF KeptIn
<1>5. CASE more /\ m = "ap"
  <2>1. k \notin UsbKeys \cup LanKeys /\ k \in ApKeys
    BY <1>5, ModesAndKeys, CacheAssumption
  <2> QED
    BY <1>1, <1>3, <1>5, <2>1 DEF KeptIn
<1>6. CASE more /\ m = "z21"
  <2>1. k \notin UsbKeys \cup LanKeys /\ k \in Z21Keys /\ k \notin ApKeys
    BY <1>6, ModesAndKeys, CacheAssumption
  <2>2. before[k] = "manual" => after[k] # "absent"
    BY <1>6 DEF Applied
  <2> QED
    BY <1>1, <1>3, <1>6, <2>1, <2>2 DEF KeptIn
<1> QED
  BY <1>4, <1>5, <1>6 DEF Purging

(* Each mode purges and inserts keys of its own only, and every choice     *)
(* that is under way is counted.                                           *)
LEMMA ScanAppliedKeeps ==
    ASSUME CacheInv, NEW t \in Threads, ScanApplied(t)
    PROVE  CacheInv'
<1> DEFINE m == thread[t].mode
           found == thread[t].found
<1>1. /\ thread[t] \in ThreadStates /\ m \in Modes /\ found \in SUBSET KeysOf[m]
      /\ At(t, "apply") /\ (thread[t].update => m = "usb")
  BY DEF ScanApplied, CacheInv, TypeOK, ThreadStates, ThreadInv, At
<1>2. cache' \in [Keys -> Entries] /\ \A k \in Keys : cache'[k] = Applied(m, found, cache, k)
  <2>1. cache' = [k \in Keys |-> Applied(m, found, cache, k)]
    BY DEF ScanApplied, Purged, Applied
  <2>2. \A k \in Keys : Applied(m, found, cache, k) \in Entries
    BY DEF CacheInv, TypeOK, Entries, Applied
  <2> QED
    BY <2>1, <2>2
<1>3. answer' \in [Purging -> SUBSET Keys]
      /\ \A n \in Purging : answer'[n] = (IF n = m THEN found ELSE answer[n])
  BY <1>1, ModesAndKeys DEF ScanApplied, CacheInv, TypeOK
<1>4. /\ AfterScan(t) \in ThreadStates /\ AfterScan(t).pc \in {"idle", "insert"}
      /\ AfterScan(t).choice.byHand = FALSE /\ AfterScan(t).choice.since = 0
      /\ AfterScan(t).pc = "idle" => AfterScan(t).choice.known = FALSE
      /\ AfterScan(t).pc = "insert" => AfterScan(t).choice.key \in found /\ m = "usb"
  <2>1. CASE thread[t].update /\ TheOnly(found) # NoKey
    <3> DEFINE key == TheOnly(found)
               c == [NoChoice EXCEPT !.key = key, !.kind = "update", !.known = TRUE]
    <3>1. key \in found /\ key \in Keys
      BY <1>1, <2>1, OnlyOneIsOne, ModesAndKeys
    <3> HIDE DEF key
    <3>2. c \in Choice
      BY <3>1, NoChoiceIs DEF Choice
    <3>3. c.key = key /\ c.byHand = FALSE /\ c.since = 0
      BY DEF NoChoice
    <3>4. AfterScan(t) = [Idle EXCEPT !.pc = "insert", !.choice = c]
      BY <2>1 DEF AfterScan, UpdateOf, key
    <3> HIDE DEF c
    <3>5. /\ AfterScan(t) \in ThreadStates /\ AfterScan(t).pc = "insert"
          /\ AfterScan(t).choice = c
      BY <3>2, <3>4, NoChoiceIs DEF ThreadStates
    <3> QED
      BY <1>1, <2>1, <3>1, <3>3, <3>5
  <2>2. CASE ~(thread[t].update /\ TheOnly(found) # NoKey)
    <3>1. AfterScan(t) = Idle /\ NoChoice.since = 0 /\ NoChoice.byHand = FALSE /\ NoChoice.known = FALSE
      BY <2>2 DEF AfterScan, NoChoice
    <3> QED
      BY <3>1, NoChoiceIs
  <2> QED
    BY <2>1, <2>2
<1>5. /\ thread'[t] = AfterScan(t)
      /\ \A u \in Threads \ {t} :
             /\ thread'[u] \in ThreadStates
             /\ thread'[u].pc = thread[u].pc /\ thread'[u].mode = thread[u].mode
             /\ thread'[u].found = thread[u].found /\ thread'[u].update = thread[u].update
             /\ thread'[u].choice = Counted(m, thread[u].choice)
  <2>1. thread'[t] = AfterScan(t)
    BY DEF ScanApplied
  <2>2. ASSUME NEW u \in Threads \ {t}
        PROVE  /\ thread'[u] \in ThreadStates
               /\ thread'[u].pc = thread[u].pc /\ thread'[u].mode = thread[u].mode
               /\ thread'[u].found = thread[u].found /\ thread'[u].update = thread[u].update
               /\ thread'[u].choice = Counted(m, thread[u].choice)
    <3>1. thread[u] \in ThreadStates /\ thread[u].choice \in Choice
      BY DEF CacheInv, TypeOK, ThreadStates
    <3>2. Counted(m, thread[u].choice) \in Choice
      BY <1>1, <3>1, CountedIs
    <3>3. thread'[u] = [thread[u] EXCEPT !.choice = Counted(m, thread[u].choice)]
      BY DEF ScanApplied
    <3> QED
      BY <3>1, <3>2, <3>3 DEF ThreadStates
  <2> QED
    BY <2>1, <2>2
<1>6. /\ \A u \in Threads : thread[u].choice \in Choice
      /\ job.choice \in Choice /\ job \in JobStates
  BY DEF CacheInv, TypeOK, ThreadStates, JobStates
<1>7. /\ job' \in JobStates /\ job'.state = job.state
      /\ job'.choice = Counted(m, job.choice)
  <2>1. Counted(m, job.choice) \in Choice
    BY <1>1, <1>6, CountedIs
  <2>2. job' = [job EXCEPT !.choice = Counted(m, job.choice)]
    BY <1>6 DEF ScanApplied, JobStates
  <2> QED
    BY <1>6, <2>1, <2>2 DEF JobStates
<1>8. /\ \A u \in Threads : /\ Counted(m, thread[u].choice).key = thread[u].choice.key
                            /\ Counted(m, thread[u].choice).byHand = thread[u].choice.byHand
      /\ Counted(m, job.choice).key = job.choice.key
      /\ Counted(m, job.choice).known = job.choice.known
      /\ Counted(m, job.choice).byHand = job.choice.byHand
      /\ Counted(m, job.choice).since >= job.choice.since
      /\ job.choice.since \in Nat /\ Counted(m, job.choice).since \in Nat
  BY <1>1, <1>6, CountedIs DEF Choice, SinceCap
<1>9. found \in SUBSET Keys
  BY <1>1, ModesAndKeys
<1>10. thread' \in [Threads -> ThreadStates]
  <2>1. \A u \in Threads : thread'[u] \in ThreadStates
    BY <1>4, <1>5
  <2> QED
    BY <2>1 DEF ScanApplied
<1> HIDE DEF m, found
<1>11. TypeOK'
  BY <1>2, <1>3, <1>4, <1>5, <1>7, <1>8, <1>9, <1>10 DEF CacheInv, TypeOK
<1>12. ThreadInv'
  <2>1. m = "usb" => \A k \in found : k \notin ApKeys
    BY <1>1, ModesAndKeys, CacheAssumption
  <2> QED
    BY <1>4, <1>5, <1>8, <1>9, <2>1 DEF CacheInv, ThreadInv, At
<1>13. KeptInv'
  <2>1. cache \in [Keys -> Entries]
    BY DEF CacheInv, TypeOK
  <2>2. \A u \in Threads \ {t} : KeptIn(cache', Counted(m, thread[u].choice))
    BY <1>1, <1>2, <1>6, <2>1, CountedKept DEF CacheInv, KeptInv, Kept
  <2>3. job.state = "queued" => KeptIn(cache', Counted(m, job.choice))
    BY <1>1, <1>2, <1>6, <2>1, CountedKept DEF CacheInv, KeptInv, Kept
  <2>4. KeptIn(cache', AfterScan(t).choice)
    BY <1>2, <1>4 DEF KeptIn, Applied
  <2> QED
    BY <1>5, <1>7, <2>2, <2>3, <2>4 DEF KeptInv, Kept
<1>14. OneScanPerMode'
  <2>1. \A k \in ApKeys : (cache[k] # "absent" <=> k \in answer["ap"])'
    BY <1>1, <1>2, <1>3, ModesAndKeys, CacheAssumption
    DEF CacheInv, OneScanPerMode, Applied, Modes, Purging, Keys
  <2>2. \A k \in Z21Keys : /\ (cache[k] = "scanned" => k \in answer["z21"])'
                           /\ (k \in answer["z21"] => cache[k] # "absent")'
    BY <1>1, <1>2, <1>3, ModesAndKeys, CacheAssumption
    DEF CacheInv, OneScanPerMode, TypeOK, Entries, Applied, Modes, Purging, Keys
  <2> QED
    BY <2>1, <2>2 DEF OneScanPerMode
<1>15. LostOnlyToScans'
  BY <1>7, <1>8 DEF CacheInv, LostOnlyToScans
<1> QED
  BY <1>11, <1>12, <1>13, <1>14, <1>15 DEF CacheInv

-----------------------------------------------------------------------------
(* The worker                                                              *)

(* The worker finds the candidate, does without it, or fails for want of   *)
(* it.                                                                     *)
LEMMA LooksUpKeeps ==
    ASSUME CacheInv, LooksUp
    PROVE  CacheInv'
<1>1. job.state = "queued" /\ UNCHANGED <<cache, thread, answer>>
  BY DEF LooksUp
<1>2. /\ job \in JobStates /\ job.choice \in Choice /\ job.choice.key \in Keys
      /\ Kept(job.choice)
  BY <1>1 DEF CacheInv, TypeOK, JobStates, KeptInv
<1>3. CASE NeedsEntry(job.choice) /\ cache[job.choice.key] = "absent"
  <2>1. job' = [job EXCEPT !.state = "lost"]
    BY <1>3 DEF LooksUp
  <2>2. job' \in JobStates /\ job'.state = "lost" /\ job'.choice = job.choice
    BY <1>2, <2>1 DEF JobStates
  <2>3. LostOnlyToScans'
    <3>1. SUFFICES ASSUME job.choice.known
                   PROVE  /\ job.choice.key \in ApKeys \cup Z21Keys
                          /\ job.choice.since >= (IF job.choice.byHand THEN 2 ELSE 1)
      BY <2>2 DEF LostOnlyToScans
    <3>2. job.choice.since \in {0, 1, 2}
      BY <1>2 DEF Choice, SinceCap
    <3> QED
      BY <1>2, <1>3, <3>1, <3>2 DEF Kept, KeptIn, Keys
  <2> QED
    BY <1>1, <1>2, <2>2, <2>3
    DEF CacheInv, TypeOK, ThreadInv, At, KeptInv, Kept, OneScanPerMode
<1>4. CASE ~(NeedsEntry(job.choice) /\ cache[job.choice.key] = "absent")
  <2>1. job' = [state |-> "runs", choice |-> NoChoice]
    BY <1>4 DEF LooksUp
  <2>2. job' \in JobStates /\ job'.state = "runs"
    BY <2>1, NoChoiceIs DEF JobStates
  <2> QED
    BY <1>1, <2>2
    DEF CacheInv, TypeOK, ThreadInv, At, KeptInv, Kept, OneScanPerMode, LostOnlyToScans
<1> QED
  BY <1>3, <1>4

(* The slot is free again.                                                 *)
LEMMA JobOverKeeps ==
    ASSUME CacheInv, JobOver
    PROVE  CacheInv'
<1>1. job' \in JobStates /\ job'.state = "none"
  BY NoChoiceIs DEF JobOver, NoJob, JobStates
<1> QED
  BY <1>1
  DEF JobOver, CacheInv, TypeOK, ThreadInv, At, KeptInv, Kept, OneScanPerMode, LostOnlyToScans

-----------------------------------------------------------------------------
(* The theorems                                                            *)

(* The inductive invariant of the cache, the threads that scan and submit, *)
(* and the job that is to be looked up (runtime.rs, ipc.rs).               *)
THEOREM CacheInvariant == Spec => []CacheInv
<1>1. CacheInv /\ [Next]_vars => CacheInv'
  <2> SUFFICES ASSUME CacheInv, [Next]_vars
               PROVE  CacheInv'
    OBVIOUS
  <2>1. CASE UNCHANGED vars
    BY <2>1 DEF vars, CacheInv, TypeOK, ThreadInv, At, KeptInv, Kept, OneScanPerMode,
                LostOnlyToScans
  <2>2. CASE Next
    BY <2>2, ScanAnswersKeeps, ChooseKeeps, ScanAppliedKeeps, FredLooksKeeps, EntersByHandKeeps,
       SubmitKeeps, LooksUpKeeps, JobOverKeeps DEF Next
  <2> QED
    BY <2>1, <2>2
<1> QED
  BY <1>1, CacheInit, PTL DEF Spec

(* Types; and no job is submitted without a key (ipc.rs dispatch).         *)
THEOREM CacheTypeCorrect == Spec => []TypeOK
<1>1. CacheInv => TypeOK
  BY DEF CacheInv
<1> QED
  BY <1>1, CacheInvariant, PTL

(* The cache shows one scan's answer per mode, whatever the threads do in  *)
(* between (runtime.rs scan, scan_z21).                                    *)
THEOREM ScansDoNotMix == Spec => []OneScanPerMode
<1>1. CacheInv => OneScanPerMode
  BY DEF CacheInv
<1> QED
  BY <1>1, CacheInvariant, PTL

(* A job that was accepted with a known candidate loses it to scans only,  *)
(* one entered by hand to two (runtime.rs scan_z21, run_program_job).      *)
THEOREM KnownCandidatesStay == Spec => []LostOnlyToScans
<1>1. CacheInv => LostOnlyToScans
  BY DEF CacheInv
<1> QED
  BY <1>1, CacheInvariant, PTL

=============================================================================
