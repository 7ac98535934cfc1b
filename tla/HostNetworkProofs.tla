-------------------------- MODULE HostNetworkProofs --------------------------
(***************************************************************************)
(* Proofs about HostNetwork, for every set of sysctls and of commands that *)
(* may fail: a session without a failure reaches its device, a release     *)
(* leaves the host as it was found, and there is a `lookup local` rule     *)
(* whenever the two commands that add one succeed.                         *)
(***************************************************************************)
EXTENDS HostNetwork, TLAPS

-----------------------------------------------------------------------------
(* The inductive invariants                                                *)

(* A supplicant that is remembered runs, and is remembered once: it can be *)
(* killed.                                                                 *)
ChildInv ==
    /\ radio.child => host.daemons > 0
    /\ pc = "kill" => ~radio.child /\ (undo.child => host.daemons > 0)

TypeInv == TypeOK /\ ChildInv

(* How far a session without a failure has come.                           *)
Joined == {"address", "up", "talk"} \cup Installing
SteerInv ==
    ~failed =>
        /\ pc \in Joined => host.link = "joined"
        /\ pc \in Joined \ {"address"} => host.address
        /\ pc \in Joined \ {"address", "up", "sysctl"} => host.relaxed = Sysctls
        /\ pc \in {"rule", "look", "park", "unlocal", "talk"} => host.table
        /\ pc \in {"look", "park", "unlocal", "talk"} => host.exc
        /\ pc # "unpark"
        /\ pc = "talk" /\ HostIsLocal => ~host.local0

(* Of the two rules the one that has to be there.                          *)
LocalInv ==
    /\ host.local0 \/ host.local1
    /\ pc \in {"park", "unlocal", "unpark", "delpark"} => host.local0
    /\ pc = "unlocal" => host.local1

(* What was changed is remembered, by the radio or by the release.  While  *)
(* the policy route is installed nothing is remembered of it; nothing can  *)
(* leave from there.                                                       *)
Undoing == {"kill", "delrule", "relocal", "delpark", "flush", "disconnect", "deladdress"}
LocalAsFound == host.local0 /\ ~host.local1
RulesAsFound == ~host.table /\ ~host.exc /\ LocalAsFound

SysctlInv ==
    /\ host.relaxed = found \cup radio.saved
    /\ radio.saved \cap found = {}
    /\ pc \in Joining \cup {"sysctl"} => radio.saved = {}

SessionInv ==
    /\ pc \in {"idle", "join", "down"} \cup Undoing => radio = Forgotten
    /\ host.daemons = (IF radio.child \/ (pc = "kill" /\ undo.child) THEN 1 ELSE 0)
    /\ host.address => radio.assigned \/ (pc \in Undoing /\ undo.assigned)
    /\ pc \in {"idle", "deladdress", "down"} => host.link # "joined"

PolicyInv ==
    /\ pc \in {"idle"} \cup Joining \cup Installing => radio.policy = "none"
    /\ pc = "talk" => radio.policy # "none"
    /\ pc \in {"idle", "sysctl", "route", "disconnect", "deladdress", "down"} \cup Joining
           => RulesAsFound
    /\ pc \in {"rule", "relocal", "delpark", "flush"} => ~host.exc
    /\ pc \in {"rule", "look", "park", "flush"} => LocalAsFound
    /\ pc \in {"unlocal", "unpark", "delpark"} => host.local0
    /\ pc \in {"talk", "restore"} /\ radio.policy # "moved" => LocalAsFound
    /\ pc \in {"kill", "delrule"} /\ undo.policy # "moved" => LocalAsFound
    /\ pc = "restore" /\ radio.policy = "none" => RulesAsFound
    /\ pc = "kill" /\ undo.policy = "none" => RulesAsFound

UndoInv == ~marred => SysctlInv /\ SessionInv /\ PolicyInv

-----------------------------------------------------------------------------
(* Types                                                                   *)

(* Each command changes a field or two to values of their types.           *)
LEMMA TypeKept ==
    ASSUME TypeInv, Next
    PROVE  TypeInv'
<1>1. CASE SessionStarts
  BY <1>1 DEF SessionStarts, GoTo, TypeInv, TypeOK, ChildInv, Points, Joining, Installing, Releasing
<1>2. CASE Scans
  BY <1>2
  DEF Scans, TypeInv, TypeOK, ChildInv, Points, Joining, Installing, Releasing, HostStates,
      MaxDaemons
<1>3. CASE Overtaken
  BY <1>3 DEF Overtaken, GoTo, TypeInv, TypeOK, ChildInv, Points, Joining, Installing, Releasing
<1>4. CASE ConnectOpen
  BY <1>4
  DEF ConnectOpen, GoTo, Succeeds, GivesUp, TypeInv, TypeOK, ChildInv, Points, Joining,
      Installing, Releasing, HostStates, MaxDaemons
<1>5. CASE ConnectPsk
  <2>1. CASE /\ host.daemons < MaxDaemons
             /\ host' = [host EXCEPT !.link = "joined", !.daemons = @ + 1, !.conf = TRUE]
             /\ radio' = [radio EXCEPT !.child = TRUE]
             /\ GoTo("address")
             /\ Succeeds
    <3>1. host' \in HostStates /\ host'.daemons > 0
      <4>1. host.daemons + 1 \in 1..MaxDaemons
        BY <2>1 DEF TypeInv, TypeOK, HostStates, MaxDaemons
      <4> DEFINE daemons == host.daemons + 1
      <4>2. host' = [host EXCEPT !.link = "joined", !.daemons = daemons, !.conf = TRUE]
        BY <2>1
      <4>3. daemons \in 0..MaxDaemons /\ daemons > 0
        BY <4>1 DEF MaxDaemons
      <4> HIDE DEF daemons
      <4> QED
        BY <4>2, <4>3 DEF TypeInv, TypeOK, HostStates
    <3>2. radio' \in Memories
      BY <1>5, <2>1 DEF TypeInv, TypeOK, Memories
    <3> QED
      BY <1>5, <2>1, <3>1, <3>2
      DEF ConnectPsk, GoTo, Succeeds, TypeInv, TypeOK, ChildInv, Points, Joining
  <2>2. CASE /\ \E link \in {host.link, "up"}, conf \in BOOLEAN :
                    host' = [host EXCEPT !.link = link, !.conf = conf]
             /\ failed' = TRUE
             /\ GivesUp
             /\ UNCHANGED radio
    <3>1. host' \in HostStates /\ host'.daemons = host.daemons
      BY <1>5, <2>2 DEF TypeInv, TypeOK, HostStates
    <3> QED
      BY <1>5, <2>2, <3>1
      DEF ConnectPsk, GoTo, GivesUp, TypeInv, TypeOK, ChildInv, Points, Releasing
  <2> QED
    BY <1>5, <2>1, <2>2 DEF ConnectPsk
<1>6. CASE SetAddress
  BY <1>6
  DEF SetAddress, GoTo, Succeeds, GivesUp, TypeInv, TypeOK, ChildInv, Points, Joining, Installing,
      Releasing, HostStates, MaxDaemons, Memories, Policies
<1>7. CASE LinkUp
  BY <1>7
  DEF LinkUp, GoTo, Succeeds, GivesUp, TypeInv, TypeOK, ChildInv, Points, Joining, Installing,
      Releasing
<1>8. CASE RelaxSysctls
  <2>1. host' \in HostStates
    BY <1>8
    DEF RelaxSysctls, GoTo, Fails, Succeeds, TypeInv, TypeOK, ChildInv, HostStates, MaxDaemons
  <2>2. radio' \in Memories
    BY <1>8 DEF RelaxSysctls, GoTo, Fails, Succeeds, TypeInv, TypeOK, Memories, Policies
  <2>3. pc' \in Points /\ failed' \in BOOLEAN /\ marred' \in BOOLEAN
    BY <1>8
    DEF RelaxSysctls, GoTo, Fails, Succeeds, TypeInv, TypeOK, Points, Joining, Installing,
        Releasing
  <2>4. ChildInv'
    BY <1>8, <2>1, <2>2
    DEF RelaxSysctls, GoTo, Fails, Succeeds, TypeInv, TypeOK, ChildInv, HostStates, MaxDaemons,
        Memories
  <2> QED
    BY <1>8, <2>1, <2>2, <2>3, <2>4 DEF RelaxSysctls, TypeInv, TypeOK
<1>9. CASE ReplaceRoute
  BY <1>9
  DEF ReplaceRoute, GoTo, Fails, Succeeds, Installed, TypeInv, TypeOK, ChildInv, Points, Joining,
      Installing, Releasing, HostStates, MaxDaemons, Memories, Policies
<1>10. CASE AddRule
  <2>1. PICK exc \in BOOLEAN, table \in BOOLEAN :
            host' = [host EXCEPT !.exc = exc, !.table = table]
    <3>1. CASE host' = [host EXCEPT !.exc = TRUE]
      BY <3>1 DEF TypeInv, TypeOK, HostStates
    <3>2. ASSUME NEW left \in BOOLEAN, host' = [host EXCEPT !.table = left]
          PROVE  \E exc \in BOOLEAN, table \in BOOLEAN :
                     host' = [host EXCEPT !.exc = exc, !.table = table]
      <4>1. host' = [host EXCEPT !.exc = host.exc, !.table = left] /\ host.exc \in BOOLEAN
        BY <3>2 DEF TypeInv, TypeOK, HostStates
      <4> QED
        BY <4>1
    <3> QED
      BY <1>10, <3>1, <3>2 DEF AddRule
  <2>2. host' \in HostStates /\ host'.daemons = host.daemons
    BY <2>1 DEF TypeInv, TypeOK, HostStates
  <2>3. radio' \in Memories /\ radio'.child = radio.child
    BY <1>10 DEF AddRule, Installed, TypeInv, TypeOK, Memories, Policies
  <2> QED
    BY <1>10, <2>2, <2>3
    DEF AddRule, Fails, Succeeds, GoTo, Installed, TypeInv, TypeOK, ChildInv, Points, Installing
<1>11. CASE LooksForLocal
  BY <1>11
  DEF LooksForLocal, GoTo, Fails, Succeeds, Installed, TypeInv, TypeOK, ChildInv, Points, Joining,
      Installing, Releasing, Memories, Policies
<1>12. CASE ParkLocal
  BY <1>12
  DEF ParkLocal, GoTo, Fails, Succeeds, TypeInv, TypeOK, ChildInv, Points, Joining, Installing,
      Releasing, HostStates, MaxDaemons
<1>13. CASE DropLocal
  BY <1>13
  DEF DropLocal, GoTo, Fails, Succeeds, Installed, TypeInv, TypeOK, ChildInv, Points, Joining,
      Installing, Releasing, HostStates, MaxDaemons, Memories, Policies
<1>14. CASE UnparkLocal
  <2>1. host' \in HostStates
    BY <1>14
    DEF UnparkLocal, UndoFails, Succeeds, Installed, GoTo, TypeInv, TypeOK, ChildInv, HostStates,
        MaxDaemons
  <2>2. radio' \in Memories
    BY <1>14
    DEF UnparkLocal, UndoFails, Succeeds, Installed, GoTo, TypeInv, TypeOK, Memories, Policies
  <2>3. pc' \in Points /\ failed' \in BOOLEAN /\ marred' \in BOOLEAN
    BY <1>14
    DEF UnparkLocal, UndoFails, Succeeds, Installed, GoTo, TypeInv, TypeOK, Points, Joining,
        Installing, Releasing
  <2>4. ChildInv'
    BY <1>14, <2>1, <2>2
    DEF UnparkLocal, UndoFails, Succeeds, Installed, GoTo, TypeInv, TypeOK, ChildInv, HostStates,
        MaxDaemons, Memories
  <2> QED
    BY <1>14, <2>1, <2>2, <2>3, <2>4 DEF UnparkLocal, TypeInv, TypeOK
<1>15. CASE Release
  BY <1>15 DEF Release, GoTo, TypeInv, TypeOK, ChildInv, Points, Joining, Installing, Releasing
<1>16. CASE Restore
  BY <1>16
  DEF Restore, GoTo, UndoFails, Succeeds, Forgotten, TypeInv, TypeOK, ChildInv, Points, Joining,
      Installing, Releasing, HostStates, MaxDaemons, Memories, Policies
<1>17. CASE KillSupplicant
  <2>1. host' \in HostStates
    BY <1>17 DEF KillSupplicant, GoTo, Succeeds, TypeInv, TypeOK, ChildInv, HostStates, MaxDaemons
  <2>2. radio' \in Memories
    BY <1>17 DEF KillSupplicant, GoTo, Succeeds, TypeInv, TypeOK, Memories, Policies
  <2>3. pc' \in Points /\ failed' \in BOOLEAN /\ marred' \in BOOLEAN
    BY <1>17
    DEF KillSupplicant, GoTo, Succeeds, TypeInv, TypeOK, Points, Joining, Installing, Releasing
  <2>4. ChildInv'
    BY <1>17, <2>1, <2>2
    DEF KillSupplicant, GoTo, Succeeds, TypeInv, TypeOK, ChildInv, HostStates, MaxDaemons,
        Memories
  <2> QED
    BY <1>17, <2>1, <2>2, <2>3, <2>4 DEF KillSupplicant, TypeInv, TypeOK
<1>18. CASE DeleteRule
  BY <1>18
  DEF DeleteRule, GoTo, UndoFails, Succeeds, TypeInv, TypeOK, ChildInv, Points, Joining,
      Installing, Releasing, HostStates, MaxDaemons
<1>19. CASE RestoreLocal
  BY <1>19
  DEF RestoreLocal, GoTo, UndoFails, Succeeds, TypeInv, TypeOK, ChildInv, Points, Joining,
      Installing, Releasing, HostStates, MaxDaemons
<1>20. CASE DeletePark
  BY <1>20
  DEF DeletePark, GoTo, UndoFails, Succeeds, TypeInv, TypeOK, ChildInv, Points, Joining,
      Installing, Releasing, HostStates, MaxDaemons
<1>21. CASE FlushTable
  BY <1>21
  DEF FlushTable, GoTo, UndoFails, Succeeds, TypeInv, TypeOK, ChildInv, Points, Joining,
      Installing, Releasing, HostStates, MaxDaemons
<1>22. CASE Disconnect
  BY <1>22
  DEF Disconnect, GoTo, UndoFails, Succeeds, TypeInv, TypeOK, ChildInv, Points, Joining,
      Installing, Releasing, HostStates, MaxDaemons
<1>23. CASE RemoveAddress
  BY <1>23
  DEF RemoveAddress, GoTo, UndoFails, Succeeds, TypeInv, TypeOK, ChildInv, Points, Joining,
      Installing, Releasing, HostStates, MaxDaemons
<1>24. CASE LinkDown
  BY <1>24
  DEF LinkDown, GoTo, UndoFails, Succeeds, Forgotten, TypeInv, TypeOK, ChildInv, Points, Joining,
      Installing, Releasing, HostStates, MaxDaemons, Memories, Policies
<1>25. CASE Killed
  BY <1>25
  DEF Killed, GoTo, Forgotten, TypeInv, TypeOK, ChildInv, Points, Joining, Installing, Releasing,
      Memories, Policies
<1> QED
  BY <1>1, <1>2, <1>3, <1>4, <1>5, <1>6, <1>7, <1>8, <1>9, <1>10, <1>11, <1>12, <1>13, <1>14,
     <1>15, <1>16, <1>17, <1>18, <1>19, <1>20, <1>21, <1>22, <1>23, <1>24, <1>25 DEF Next

-----------------------------------------------------------------------------
(* A session without a failure                                             *)

(* Each command that sets up brings the session one step further, or marks *)
(* it as failed.                                                           *)
LEMMA SteerKept ==
    ASSUME TypeInv, SteerInv, Next
    PROVE  SteerInv'
<1>1. CASE SessionStarts
  BY <1>1 DEF SessionStarts, GoTo, SteerInv, Joined, Installing
<1>2. CASE Scans
  BY <1>2 DEF Scans, SteerInv, Joined, Installing, TypeInv, TypeOK, HostStates
<1>3. CASE Overtaken
  BY <1>3 DEF Overtaken, GoTo, SteerInv, Joined, Installing
<1>4. CASE ConnectOpen
  BY <1>4
  DEF ConnectOpen, GoTo, Succeeds, GivesUp, SteerInv, Joined, Installing, TypeInv, TypeOK,
      HostStates
<1>5. CASE ConnectPsk
  BY <1>5
  DEF ConnectPsk, GoTo, Succeeds, GivesUp, SteerInv, Joined, Installing, TypeInv, TypeOK,
      HostStates
<1>6. CASE SetAddress
  BY <1>6
  DEF SetAddress, GoTo, Succeeds, GivesUp, SteerInv, Joined, Installing, TypeInv, TypeOK,
      HostStates
<1>7. CASE LinkUp
  BY <1>7 DEF LinkUp, GoTo, Succeeds, GivesUp, SteerInv, Joined, Installing
<1>8. CASE RelaxSysctls
  BY <1>8
  DEF RelaxSysctls, GoTo, Fails, Succeeds, SteerInv, Joined, Installing, TypeInv, TypeOK,
      HostStates
<1>9. CASE ReplaceRoute
  BY <1>9
  DEF ReplaceRoute, GoTo, Fails, Succeeds, Installed, SteerInv, Joined, Installing, TypeInv,
      TypeOK, HostStates
<1>10. CASE AddRule
  BY <1>10
  DEF AddRule, GoTo, Fails, Succeeds, Installed, SteerInv, Joined, Installing, TypeInv, TypeOK,
      HostStates
<1>11. CASE LooksForLocal
  BY <1>11 DEF LooksForLocal, GoTo, Fails, Succeeds, Installed, SteerInv, Joined, Installing
<1>12. CASE ParkLocal
  BY <1>12
  DEF ParkLocal, GoTo, Fails, Succeeds, SteerInv, Joined, Installing, TypeInv, TypeOK, HostStates
<1>13. CASE DropLocal
  BY <1>13
  DEF DropLocal, GoTo, Fails, Succeeds, Installed, SteerInv, Joined, Installing, TypeInv, TypeOK,
      HostStates
<1>14. CASE UnparkLocal
  BY <1>14
  DEF UnparkLocal, UndoFails, Succeeds, Installed, GoTo, SteerInv, Joined, Installing, TypeInv,
      TypeOK, HostStates
<1>15. CASE Release
  BY <1>15 DEF Release, GoTo, SteerInv, Joined, Installing
<1>16. CASE Restore
  BY <1>16
  DEF Restore, GoTo, UndoFails, Succeeds, Forgotten, SteerInv, Joined, Installing, TypeInv,
      TypeOK, HostStates
<1>17. CASE KillSupplicant
  BY <1>17
  DEF KillSupplicant, GoTo, Succeeds, SteerInv, Joined, Installing, TypeInv, TypeOK, HostStates
<1>18. CASE DeleteRule
  BY <1>18
  DEF DeleteRule, GoTo, UndoFails, Succeeds, SteerInv, Joined, Installing, TypeInv, TypeOK,
      HostStates
<1>19. CASE RestoreLocal
  BY <1>19
  DEF RestoreLocal, GoTo, UndoFails, Succeeds, SteerInv, Joined, Installing, TypeInv, TypeOK,
      HostStates
<1>20. CASE DeletePark
  BY <1>20
  DEF DeletePark, GoTo, UndoFails, Succeeds, SteerInv, Joined, Installing, TypeInv, TypeOK,
      HostStates
<1>21. CASE FlushTable
  BY <1>21
  DEF FlushTable, GoTo, UndoFails, Succeeds, SteerInv, Joined, Installing, TypeInv, TypeOK,
      HostStates
<1>22. CASE Disconnect
  BY <1>22
  DEF Disconnect, GoTo, UndoFails, Succeeds, SteerInv, Joined, Installing, TypeInv, TypeOK,
      HostStates
<1>23. CASE RemoveAddress
  BY <1>23
  DEF RemoveAddress, GoTo, UndoFails, Succeeds, SteerInv, Joined, Installing, TypeInv, TypeOK,
      HostStates
<1>24. CASE LinkDown
  BY <1>24
  DEF LinkDown, GoTo, UndoFails, Succeeds, Forgotten, SteerInv, Joined, Installing, TypeInv,
      TypeOK, HostStates
<1>25. CASE Killed
  BY <1>25 DEF Killed, GoTo, Forgotten, SteerInv, Joined, Installing
<1> QED
  BY <1>1, <1>2, <1>3, <1>4, <1>5, <1>6, <1>7, <1>8, <1>9, <1>10, <1>11, <1>12, <1>13, <1>14,
     <1>15, <1>16, <1>17, <1>18, <1>19, <1>20, <1>21, <1>22, <1>23, <1>24, <1>25 DEF Next

-----------------------------------------------------------------------------
(* The rules for local delivery                                            *)

(* Neither rule is removed unless the other is there.                      *)
LEMMA LocalKept ==
    ASSUME TypeInv, LocalInv, {"park", "relocal"} \cap MayFail = {}, Next
    PROVE  LocalInv'
<1>1. CASE SessionStarts
  BY <1>1 DEF SessionStarts, GoTo, LocalInv
<1>2. CASE Scans
  BY <1>2 DEF Scans, LocalInv, TypeInv, TypeOK, HostStates
<1>3. CASE Overtaken
  BY <1>3 DEF Overtaken, GoTo, LocalInv
<1>4. CASE ConnectOpen
  BY <1>4 DEF ConnectOpen, GoTo, Succeeds, GivesUp, LocalInv, TypeInv, TypeOK, HostStates
<1>5. CASE ConnectPsk
  BY <1>5 DEF ConnectPsk, GoTo, Succeeds, GivesUp, LocalInv, TypeInv, TypeOK, HostStates
<1>6. CASE SetAddress
  BY <1>6 DEF SetAddress, GoTo, Succeeds, GivesUp, LocalInv, TypeInv, TypeOK, HostStates
<1>7. CASE LinkUp
  BY <1>7 DEF LinkUp, GoTo, Succeeds, GivesUp, LocalInv
<1>8. CASE RelaxSysctls
  BY <1>8 DEF RelaxSysctls, GoTo, Fails, Succeeds, LocalInv, TypeInv, TypeOK, HostStates
<1>9. CASE ReplaceRoute
  BY <1>9 DEF ReplaceRoute, GoTo, Fails, Succeeds, Installed, LocalInv, TypeInv, TypeOK, HostStates
<1>10. CASE AddRule
  BY <1>10 DEF AddRule, GoTo, Fails, Succeeds, Installed, LocalInv, TypeInv, TypeOK, HostStates
<1>11. CASE LooksForLocal
  BY <1>11 DEF LooksForLocal, GoTo, Fails, Succeeds, Installed, LocalInv
<1>12. CASE ParkLocal
  BY <1>12 DEF ParkLocal, GoTo, Fails, Succeeds, LocalInv, TypeInv, TypeOK, HostStates
<1>13. CASE DropLocal
  BY <1>13 DEF DropLocal, GoTo, Fails, Succeeds, Installed, LocalInv, TypeInv, TypeOK, HostStates
<1>14. CASE UnparkLocal
  BY <1>14
  DEF UnparkLocal, UndoFails, Succeeds, Installed, GoTo, LocalInv, TypeInv, TypeOK, HostStates
<1>15. CASE Release
  BY <1>15 DEF Release, GoTo, LocalInv
<1>16. CASE Restore
  BY <1>16 DEF Restore, GoTo, UndoFails, Succeeds, Forgotten, LocalInv, TypeInv, TypeOK, HostStates
<1>17. CASE KillSupplicant
  BY <1>17 DEF KillSupplicant, GoTo, Succeeds, LocalInv, TypeInv, TypeOK, HostStates
<1>18. CASE DeleteRule
  BY <1>18 DEF DeleteRule, GoTo, UndoFails, Succeeds, LocalInv, TypeInv, TypeOK, HostStates
<1>19. CASE RestoreLocal
  BY <1>19 DEF RestoreLocal, GoTo, UndoFails, Succeeds, LocalInv, TypeInv, TypeOK, HostStates
<1>20. CASE DeletePark
  BY <1>20 DEF DeletePark, GoTo, UndoFails, Succeeds, LocalInv, TypeInv, TypeOK, HostStates
<1>21. CASE FlushTable
  BY <1>21 DEF FlushTable, GoTo, UndoFails, Succeeds, LocalInv, TypeInv, TypeOK, HostStates
<1>22. CASE Disconnect
  BY <1>22 DEF Disconnect, GoTo, UndoFails, Succeeds, LocalInv, TypeInv, TypeOK, HostStates
<1>23. CASE RemoveAddress
  BY <1>23 DEF RemoveAddress, GoTo, UndoFails, Succeeds, LocalInv, TypeInv, TypeOK, HostStates
<1>24. CASE LinkDown
  BY <1>24 DEF LinkDown, GoTo, UndoFails, Succeeds, Forgotten, LocalInv, TypeInv, TypeOK, HostStates
<1>25. CASE Killed
  BY <1>25 DEF Killed, GoTo, Forgotten, LocalInv
<1> QED
  BY <1>1, <1>2, <1>3, <1>4, <1>5, <1>6, <1>7, <1>8, <1>9, <1>10, <1>11, <1>12, <1>13, <1>14,
     <1>15, <1>16, <1>17, <1>18, <1>19, <1>20, <1>21, <1>22, <1>23, <1>24, <1>25 DEF Next

-----------------------------------------------------------------------------
(* What a release undoes                                                   *)

(* What was relaxed and what is to be restored go together.                *)
LEMMA SysctlKept ==
    ASSUME TypeInv, SysctlInv, SessionInv, ~marred', Next
    PROVE  SysctlInv'
<1>1. CASE SessionStarts
  BY <1>1
  DEF SessionStarts, GoTo, SysctlInv, SessionInv, Undoing, Joining, TypeInv, TypeOK, Forgotten
<1>2. CASE Scans
  BY <1>2 DEF Scans, SysctlInv, SessionInv, Undoing, Joining, TypeInv, TypeOK, HostStates, Forgotten
<1>3. CASE Overtaken
  BY <1>3 DEF Overtaken, GoTo, SysctlInv, SessionInv, Undoing, Joining, TypeInv, TypeOK, Forgotten
<1>4. CASE ConnectOpen
  BY <1>4
  DEF ConnectOpen, GoTo, Succeeds, GivesUp, SysctlInv, SessionInv, Undoing, Joining, TypeInv,
      TypeOK, HostStates, Forgotten
<1>5. CASE ConnectPsk
  <2>1. host'.relaxed = host.relaxed /\ radio'.saved = radio.saved
    BY <1>5 DEF ConnectPsk, TypeInv, TypeOK, HostStates, Memories
  <2>2. pc = "join" /\ pc' \in {"address", "restore", "idle"} /\ found' = found
    BY <1>5 DEF ConnectPsk, GoTo, GivesUp
  <2> QED
    BY <2>1, <2>2 DEF SysctlInv, Joining
<1>6. CASE SetAddress
  BY <1>6
  DEF SetAddress, GoTo, Succeeds, GivesUp, SysctlInv, SessionInv, Undoing, Joining, TypeInv,
      TypeOK, HostStates, Memories, Forgotten
<1>7. CASE LinkUp
  BY <1>7
  DEF LinkUp, GoTo, Succeeds, GivesUp, SysctlInv, SessionInv, Undoing, Joining, TypeInv, TypeOK,
      Forgotten
<1>8. CASE RelaxSysctls
  BY <1>8
  DEF RelaxSysctls, GoTo, Fails, Succeeds, SysctlInv, SessionInv, Undoing, Joining, TypeInv,
      TypeOK, HostStates, Memories, Forgotten
<1>9. CASE ReplaceRoute
  BY <1>9
  DEF ReplaceRoute, GoTo, Fails, Succeeds, Installed, SysctlInv, SessionInv, Undoing, Joining,
      TypeInv, TypeOK, HostStates, Memories, Forgotten
<1>10. CASE AddRule
  BY <1>10
  DEF AddRule, GoTo, Fails, Succeeds, Installed, SysctlInv, SessionInv, Undoing, Joining, TypeInv,
      TypeOK, HostStates, Memories, Forgotten
<1>11. CASE LooksForLocal
  BY <1>11
  DEF LooksForLocal, GoTo, Fails, Succeeds, Installed, SysctlInv, SessionInv, Undoing, Joining,
      TypeInv, TypeOK, Memories, Forgotten
<1>12. CASE ParkLocal
  BY <1>12
  DEF ParkLocal, GoTo, Fails, Succeeds, SysctlInv, SessionInv, Undoing, Joining, TypeInv, TypeOK,
      HostStates, Forgotten
<1>13. CASE DropLocal
  BY <1>13
  DEF DropLocal, GoTo, Fails, Succeeds, Installed, SysctlInv, SessionInv, Undoing, Joining,
      TypeInv, TypeOK, HostStates, Memories, Forgotten
<1>14. CASE UnparkLocal
  BY <1>14
  DEF UnparkLocal, UndoFails, Succeeds, Installed, GoTo, SysctlInv, SessionInv, Undoing, Joining,
      TypeInv, TypeOK, HostStates, Memories, Forgotten
<1>15. CASE Release
  BY <1>15 DEF Release, GoTo, SysctlInv, SessionInv, Undoing, Joining, TypeInv, TypeOK, Forgotten
<1>16. CASE Restore
  BY <1>16
  DEF Restore, GoTo, UndoFails, Succeeds, Forgotten, SysctlInv, SessionInv, Undoing, Joining,
      TypeInv, TypeOK, HostStates, Memories
<1>17. CASE KillSupplicant
  BY <1>17
  DEF KillSupplicant, GoTo, Succeeds, SysctlInv, SessionInv, Undoing, Joining, TypeInv, TypeOK,
      HostStates, Forgotten
<1>18. CASE DeleteRule
  BY <1>18
  DEF DeleteRule, GoTo, UndoFails, Succeeds, SysctlInv, SessionInv, Undoing, Joining, TypeInv,
      TypeOK, HostStates, Forgotten
<1>19. CASE RestoreLocal
  BY <1>19
  DEF RestoreLocal, GoTo, UndoFails, Succeeds, SysctlInv, SessionInv, Undoing, Joining, TypeInv,
      TypeOK, HostStates, Forgotten
<1>20. CASE DeletePark
  BY <1>20
  DEF DeletePark, GoTo, UndoFails, Succeeds, SysctlInv, SessionInv, Undoing, Joining, TypeInv,
      TypeOK, HostStates, Forgotten
<1>21. CASE FlushTable
  BY <1>21
  DEF FlushTable, GoTo, UndoFails, Succeeds, SysctlInv, SessionInv, Undoing, Joining, TypeInv,
      TypeOK, HostStates, Forgotten
<1>22. CASE Disconnect
  BY <1>22
  DEF Disconnect, GoTo, UndoFails, Succeeds, SysctlInv, SessionInv, Undoing, Joining, TypeInv,
      TypeOK, HostStates, Forgotten
<1>23. CASE RemoveAddress
  BY <1>23
  DEF RemoveAddress, GoTo, UndoFails, Succeeds, SysctlInv, SessionInv, Undoing, Joining, TypeInv,
      TypeOK, HostStates, Forgotten
<1>24. CASE LinkDown
  BY <1>24
  DEF LinkDown, GoTo, UndoFails, Succeeds, Forgotten, SysctlInv, SessionInv, Undoing, Joining,
      TypeInv, TypeOK, HostStates, Memories
<1>25. CASE Killed
  BY <1>25
  DEF Killed, GoTo, Forgotten, SysctlInv, SessionInv, Undoing, Joining, TypeInv, TypeOK, Memories
<1> QED
  BY <1>1, <1>2, <1>3, <1>4, <1>5, <1>6, <1>7, <1>8, <1>9, <1>10, <1>11, <1>12, <1>13, <1>14,
     <1>15, <1>16, <1>17, <1>18, <1>19, <1>20, <1>21, <1>22, <1>23, <1>24, <1>25 DEF Next

(* The supplicant, the address and the association are remembered until    *)
(* they are undone.                                                        *)
LEMMA SessionKept ==
    ASSUME TypeInv, SessionInv, PolicyInv, SysctlInv, ~marred', Next
    PROVE  SessionInv'
<1>1. CASE SessionStarts
  BY <1>1 DEF SessionStarts, GoTo, SessionInv, Undoing, TypeInv, TypeOK, Forgotten
<1>2. CASE Scans
  BY <1>2 DEF Scans, SessionInv, Undoing, TypeInv, TypeOK, HostStates, Forgotten
<1>3. CASE Overtaken
  BY <1>3 DEF Overtaken, GoTo, SessionInv, Undoing, TypeInv, TypeOK, Forgotten
<1>4. CASE ConnectOpen
  BY <1>4
  DEF ConnectOpen, GoTo, Succeeds, GivesUp, SessionInv, Undoing, TypeInv, TypeOK, HostStates,
      Forgotten
<1>5. CASE ConnectPsk
  <2>1. pc = "join" /\ ~radio.child /\ host.daemons = 0
    <3>1. pc = "join" /\ radio = Forgotten
      BY <1>5 DEF ConnectPsk, SessionInv
    <3>2. ~radio.child
      BY <3>1 DEF Forgotten
    <3> QED
      BY <3>1, <3>2 DEF SessionInv
  <2>2. pc' \in {"address", "restore"}
    BY <1>5 DEF ConnectPsk, GoTo, GivesUp, Succeeds
  <2>3. host'.address = host.address /\ radio'.assigned = radio.assigned
    BY <1>5 DEF ConnectPsk, TypeInv, TypeOK, HostStates, Memories
  <2>4. host'.daemons = IF radio'.child THEN 1 ELSE 0
    <3>1. CASE /\ host' = [host EXCEPT !.link = "joined", !.daemons = @ + 1, !.conf = TRUE]
               /\ radio' = [radio EXCEPT !.child = TRUE]
      <4>1. host'.daemons = host.daemons + 1 /\ radio'.child
        BY <3>1 DEF TypeInv, TypeOK, HostStates, Memories
      <4> QED
        BY <2>1, <4>1
    <3>2. CASE /\ \E link \in {host.link, "up"}, conf \in BOOLEAN :
                      host' = [host EXCEPT !.link = link, !.conf = conf]
               /\ UNCHANGED radio
      BY <2>1, <3>2 DEF TypeInv, TypeOK, HostStates
    <3> QED
      BY <1>5, <3>1, <3>2 DEF ConnectPsk
  <2> QED
    BY <2>1, <2>2, <2>3, <2>4 DEF SessionInv, Undoing
<1>6. CASE SetAddress
  BY <1>6
  DEF SetAddress, GoTo, Succeeds, GivesUp, SessionInv, Undoing, TypeInv, TypeOK, HostStates,
      Memories, Forgotten
<1>7. CASE LinkUp
  BY <1>7 DEF LinkUp, GoTo, Succeeds, GivesUp, SessionInv, Undoing, TypeInv, TypeOK, Forgotten
<1>8. CASE RelaxSysctls
  BY <1>8
  DEF RelaxSysctls, GoTo, Fails, Succeeds, SessionInv, Undoing, TypeInv, TypeOK, HostStates,
      Memories, Forgotten
<1>9. CASE ReplaceRoute
  BY <1>9
  DEF ReplaceRoute, GoTo, Fails, Succeeds, Installed, SessionInv, Undoing, TypeInv, TypeOK,
      HostStates, Memories, Forgotten
<1>10. CASE AddRule
  BY <1>10
  DEF AddRule, GoTo, Fails, Succeeds, Installed, SessionInv, Undoing, TypeInv, TypeOK, HostStates,
      Memories, Forgotten
<1>11. CASE LooksForLocal
  BY <1>11
  DEF LooksForLocal, GoTo, Fails, Succeeds, Installed, SessionInv, Undoing, TypeInv, TypeOK,
      Memories, Forgotten
<1>12. CASE ParkLocal
  BY <1>12
  DEF ParkLocal, GoTo, Fails, Succeeds, SessionInv, Undoing, TypeInv, TypeOK, HostStates,
      Forgotten
<1>13. CASE DropLocal
  BY <1>13
  DEF DropLocal, GoTo, Fails, Succeeds, Installed, SessionInv, Undoing, TypeInv, TypeOK,
      HostStates, Memories, Forgotten
<1>14. CASE UnparkLocal
  BY <1>14
  DEF UnparkLocal, UndoFails, Succeeds, Installed, GoTo, SessionInv, Undoing, TypeInv, TypeOK,
      HostStates, Memories, Forgotten
<1>15. CASE Release
  BY <1>15 DEF Release, GoTo, SessionInv, Undoing, TypeInv, TypeOK, Forgotten
<1>16. CASE Restore
  BY <1>16
  DEF Restore, GoTo, UndoFails, Succeeds, Forgotten, SessionInv, Undoing, TypeInv, TypeOK,
      HostStates, Memories
<1>17. CASE KillSupplicant
  BY <1>17
  DEF KillSupplicant, GoTo, Succeeds, SessionInv, Undoing, TypeInv, TypeOK, HostStates, Forgotten
<1>18. CASE DeleteRule
  BY <1>18
  DEF DeleteRule, GoTo, UndoFails, Succeeds, SessionInv, Undoing, TypeInv, TypeOK, HostStates,
      Forgotten
<1>19. CASE RestoreLocal
  BY <1>19
  DEF RestoreLocal, GoTo, UndoFails, Succeeds, SessionInv, Undoing, TypeInv, TypeOK, HostStates,
      Forgotten
<1>20. CASE DeletePark
  BY <1>20
  DEF DeletePark, GoTo, UndoFails, Succeeds, SessionInv, Undoing, TypeInv, TypeOK, HostStates,
      Forgotten
<1>21. CASE FlushTable
  BY <1>21
  DEF FlushTable, GoTo, UndoFails, Succeeds, SessionInv, Undoing, TypeInv, TypeOK, HostStates,
      Forgotten
<1>22. CASE Disconnect
  BY <1>22
  DEF Disconnect, GoTo, UndoFails, Succeeds, SessionInv, Undoing, TypeInv, TypeOK, HostStates,
      Forgotten
<1>23. CASE RemoveAddress
  BY <1>23
  DEF RemoveAddress, GoTo, UndoFails, Succeeds, SessionInv, Undoing, TypeInv, TypeOK, HostStates,
      Forgotten
<1>24. CASE LinkDown
  BY <1>24
  DEF LinkDown, GoTo, UndoFails, Succeeds, Forgotten, SessionInv, Undoing, TypeInv, TypeOK,
      HostStates, Memories
<1>25. CASE Killed
  BY <1>25 DEF Killed, GoTo, Forgotten, SessionInv, Undoing, TypeInv, TypeOK, Memories
<1> QED
  BY <1>1, <1>2, <1>3, <1>4, <1>5, <1>6, <1>7, <1>8, <1>9, <1>10, <1>11, <1>12, <1>13, <1>14,
     <1>15, <1>16, <1>17, <1>18, <1>19, <1>20, <1>21, <1>22, <1>23, <1>24, <1>25 DEF Next

(* The rules are undone in the order in which the release needs it.        *)
LEMMA PolicyKept ==
    ASSUME TypeInv, SessionInv, PolicyInv, ~marred', Next
    PROVE  PolicyInv'
<1>1. CASE SessionStarts
  BY <1>1
  DEF SessionStarts, GoTo, PolicyInv, SessionInv, Undoing, Joining, Installing, RulesAsFound,
      LocalAsFound, TypeInv, TypeOK, Forgotten
<1>2. CASE Scans
  BY <1>2
  DEF Scans, PolicyInv, SessionInv, Undoing, Joining, Installing, RulesAsFound, LocalAsFound,
      TypeInv, TypeOK, HostStates, Forgotten
<1>3. CASE Overtaken
  BY <1>3
  DEF Overtaken, GoTo, PolicyInv, SessionInv, Undoing, Joining, Installing, RulesAsFound,
      LocalAsFound, TypeInv, TypeOK, Forgotten
<1>4. CASE ConnectOpen
  BY <1>4
  DEF ConnectOpen, GoTo, Succeeds, GivesUp, PolicyInv, SessionInv, Undoing, Joining, Installing,
      RulesAsFound, LocalAsFound, TypeInv, TypeOK, HostStates, Forgotten
<1>5. CASE ConnectPsk
  <2>1. pc = "join" /\ radio.policy = "none" /\ RulesAsFound
    BY <1>5 DEF ConnectPsk, PolicyInv, Joining
  <2>2. pc' \in {"address", "restore"}
    BY <1>5 DEF ConnectPsk, GoTo, GivesUp, Succeeds
  <2>3. radio'.policy = radio.policy
    BY <1>5 DEF ConnectPsk, TypeInv, TypeOK, Memories
  <2>4. RulesAsFound'
    BY <1>5, <2>1 DEF ConnectPsk, TypeInv, TypeOK, HostStates, RulesAsFound, LocalAsFound
  <2> QED
    BY <2>1, <2>2, <2>3, <2>4 DEF PolicyInv, Joining, Installing, RulesAsFound
<1>6. CASE SetAddress
  BY <1>6
  DEF SetAddress, GoTo, Succeeds, GivesUp, PolicyInv, SessionInv, Undoing, Joining, Installing,
      RulesAsFound, LocalAsFound, TypeInv, TypeOK, HostStates, Memories, Forgotten
<1>7. CASE LinkUp
  BY <1>7
  DEF LinkUp, GoTo, Succeeds, GivesUp, PolicyInv, SessionInv, Undoing, Joining, Installing,
      RulesAsFound, LocalAsFound, TypeInv, TypeOK, Forgotten
<1>8. CASE RelaxSysctls
  BY <1>8
  DEF RelaxSysctls, GoTo, Fails, Succeeds, PolicyInv, SessionInv, Undoing, Joining, Installing,
      RulesAsFound, LocalAsFound, TypeInv, TypeOK, HostStates, Memories, Forgotten
<1>9. CASE ReplaceRoute
  BY <1>9
  DEF ReplaceRoute, GoTo, Fails, Succeeds, Installed, PolicyInv, SessionInv, Undoing, Joining,
      Installing, RulesAsFound, LocalAsFound, TypeInv, TypeOK, HostStates, Memories, Forgotten
<1>10. CASE AddRule
  BY <1>10
  DEF AddRule, GoTo, Fails, Succeeds, Installed, PolicyInv, SessionInv, Undoing, Joining,
      Installing, RulesAsFound, LocalAsFound, TypeInv, TypeOK, HostStates, Memories, Forgotten
<1>11. CASE LooksForLocal
  BY <1>11
  DEF LooksForLocal, GoTo, Fails, Succeeds, Installed, PolicyInv, SessionInv, Undoing, Joining,
      Installing, RulesAsFound, LocalAsFound, TypeInv, TypeOK, Memories, Forgotten
<1>12. CASE ParkLocal
  BY <1>12
  DEF ParkLocal, GoTo, Fails, Succeeds, PolicyInv, SessionInv, Undoing, Joining, Installing,
      RulesAsFound, LocalAsFound, TypeInv, TypeOK, HostStates, Forgotten
<1>13. CASE DropLocal
  BY <1>13
  DEF DropLocal, GoTo, Fails, Succeeds, Installed, PolicyInv, SessionInv, Undoing, Joining,
      Installing, RulesAsFound, LocalAsFound, TypeInv, TypeOK, HostStates, Memories, Forgotten
<1>14. CASE UnparkLocal
  BY <1>14
  DEF UnparkLocal, UndoFails, Succeeds, Installed, GoTo, PolicyInv, SessionInv, Undoing, Joining,
      Installing, RulesAsFound, LocalAsFound, TypeInv, TypeOK, HostStates, Memories, Forgotten
<1>15. CASE Release
  BY <1>15
  DEF Release, GoTo, PolicyInv, SessionInv, Undoing, Joining, Installing, RulesAsFound,
      LocalAsFound, TypeInv, TypeOK, Forgotten
<1>16. CASE Restore
  BY <1>16
  DEF Restore, GoTo, UndoFails, Succeeds, Forgotten, PolicyInv, SessionInv, Undoing, Joining,
      Installing, RulesAsFound, LocalAsFound, TypeInv, TypeOK, HostStates, Memories
<1>17. CASE KillSupplicant
  BY <1>17
  DEF KillSupplicant, GoTo, Succeeds, PolicyInv, SessionInv, Undoing, Joining, Installing,
      RulesAsFound, LocalAsFound, TypeInv, TypeOK, HostStates, Forgotten
<1>18. CASE DeleteRule
  BY <1>18
  DEF DeleteRule, GoTo, UndoFails, Succeeds, PolicyInv, SessionInv, Undoing, Joining, Installing,
      RulesAsFound, LocalAsFound, TypeInv, TypeOK, HostStates, Forgotten
<1>19. CASE RestoreLocal
  BY <1>19
  DEF RestoreLocal, GoTo, UndoFails, Succeeds, PolicyInv, SessionInv, Undoing, Joining,
      Installing, RulesAsFound, LocalAsFound, TypeInv, TypeOK, HostStates, Forgotten
<1>20. CASE DeletePark
  BY <1>20
  DEF DeletePark, GoTo, UndoFails, Succeeds, PolicyInv, SessionInv, Undoing, Joining, Installing,
      RulesAsFound, LocalAsFound, TypeInv, TypeOK, HostStates, Forgotten
<1>21. CASE FlushTable
  BY <1>21
  DEF FlushTable, GoTo, UndoFails, Succeeds, PolicyInv, SessionInv, Undoing, Joining, Installing,
      RulesAsFound, LocalAsFound, TypeInv, TypeOK, HostStates, Forgotten
<1>22. CASE Disconnect
  BY <1>22
  DEF Disconnect, GoTo, UndoFails, Succeeds, PolicyInv, SessionInv, Undoing, Joining, Installing,
      RulesAsFound, LocalAsFound, TypeInv, TypeOK, HostStates, Forgotten
<1>23. CASE RemoveAddress
  BY <1>23
  DEF RemoveAddress, GoTo, UndoFails, Succeeds, PolicyInv, SessionInv, Undoing, Joining,
      Installing, RulesAsFound, LocalAsFound, TypeInv, TypeOK, HostStates, Forgotten
<1>24. CASE LinkDown
  BY <1>24
  DEF LinkDown, GoTo, UndoFails, Succeeds, Forgotten, PolicyInv, SessionInv, Undoing, Joining,
      Installing, RulesAsFound, LocalAsFound, TypeInv, TypeOK, HostStates, Memories
<1>25. CASE Killed
  BY <1>25
  DEF Killed, GoTo, Forgotten, PolicyInv, SessionInv, Undoing, Joining, Installing, RulesAsFound,
      LocalAsFound, TypeInv, TypeOK, Memories
<1> QED
  BY <1>1, <1>2, <1>3, <1>4, <1>5, <1>6, <1>7, <1>8, <1>9, <1>10, <1>11, <1>12, <1>13, <1>14,
     <1>15, <1>16, <1>17, <1>18, <1>19, <1>20, <1>21, <1>22, <1>23, <1>24, <1>25 DEF Next

-----------------------------------------------------------------------------
(* The theorems                                                            *)

(* The invariants hold of a host as it is found.                           *)
LEMMA InitHolds == Init => TypeInv /\ SteerInv /\ LocalInv /\ UndoInv
<1> SUFFICES ASSUME Init
             PROVE  TypeInv /\ SteerInv /\ LocalInv /\ UndoInv
  OBVIOUS
<1>1. TypeInv
  <2>1. host \in HostStates
    BY DEF Init, AsFound, HostStates, MaxDaemons
  <2>2. radio \in Memories /\ undo \in Memories
    BY DEF Init, Forgotten, Memories, Policies
  <2> QED
    BY <2>1, <2>2 DEF Init, Forgotten, TypeInv, TypeOK, ChildInv, Points
<1>2. SteerInv
  BY DEF Init, SteerInv, Joined, Installing
<1>3. LocalInv
  BY DEF Init, AsFound, LocalInv
<1>4. SysctlInv /\ SessionInv /\ PolicyInv
  BY DEF Init, AsFound, Forgotten, SysctlInv, SessionInv, PolicyInv, Undoing, Joining,
         RulesAsFound, LocalAsFound
<1> QED
  BY <1>1, <1>2, <1>3, <1>4 DEF UndoInv

(* The parts together: a step that leaves the session unmarred found it    *)
(* so.                                                                     *)
LEMMA UndoKept ==
    ASSUME TypeInv, UndoInv, Next
    PROVE  UndoInv'
<1> SUFFICES ASSUME ~marred'
             PROVE  (SysctlInv /\ SessionInv /\ PolicyInv)'
  BY DEF UndoInv
<1>1. ~marred
  BY DEF Next, SessionStarts, Scans, Overtaken, ConnectOpen, ConnectPsk, SetAddress, LinkUp,
         RelaxSysctls, ReplaceRoute, AddRule, LooksForLocal, ParkLocal, DropLocal, UnparkLocal,
         Release, Restore, KillSupplicant, DeleteRule, RestoreLocal, DeletePark, FlushTable,
         Disconnect, RemoveAddress, LinkDown, Killed, GivesUp, Fails, UndoFails, Succeeds
<1>2. SysctlInv /\ SessionInv /\ PolicyInv
  BY <1>1 DEF UndoInv
<1> QED
  BY <1>2, SysctlKept, SessionKept, PolicyKept

(* Two states of the host that agree on everything are the same.           *)
LEMMA SameHost ==
    ASSUME NEW h \in HostStates, NEW k \in HostStates,
           h.link = k.link, h.address = k.address, h.relaxed = k.relaxed,
           h.table = k.table, h.exc = k.exc, h.local0 = k.local0, h.local1 = k.local1,
           h.daemons = k.daemons, h.conf = k.conf
    PROVE  h = k
  BY DEF HostStates

(* The inductive invariant of a session, whatever commands fail and        *)
(* wherever the daemon is killed (radio.rs, netcfg.rs).                    *)
THEOREM HostInvariant == Spec => [](TypeInv /\ SteerInv /\ UndoInv)
<1>1. Init => TypeInv /\ SteerInv /\ UndoInv
  BY InitHolds
<1>2. TypeInv /\ SteerInv /\ UndoInv /\ [Next]_vars => (TypeInv /\ SteerInv /\ UndoInv)'
  <2> SUFFICES ASSUME TypeInv, SteerInv, UndoInv, [Next]_vars
               PROVE  (TypeInv /\ SteerInv /\ UndoInv)'
    OBVIOUS
  <2>1. CASE Next
    BY <2>1, TypeKept, SteerKept, UndoKept
  <2>2. CASE UNCHANGED vars
    <3>1. TypeInv'
      BY <2>2 DEF vars, TypeInv, TypeOK, ChildInv
    <3>2. SteerInv'
      BY <2>2 DEF vars, SteerInv
    <3>3. UndoInv'
      BY <2>2 DEF vars, UndoInv, SysctlInv, SessionInv, PolicyInv, RulesAsFound, LocalAsFound
    <3> QED
      BY <3>1, <3>2, <3>3
  <2> QED
    BY <2>1, <2>2
<1> QED
  BY <1>1, <1>2, PTL DEF Spec

(* Types; no more supplicants are killed than run (radio.rs release).      *)
THEOREM HostTypeCorrect == Spec => []TypeOK
<1>1. TypeInv => TypeOK
  BY DEF TypeInv
<1> QED
  BY <1>1, HostInvariant, PTL

(* A session whose commands all succeeded reaches its device, whatever was *)
(* left behind before it (netcfg.rs prepare_softap).                       *)
THEOREM SessionsAreSteered == Spec => []Steered
<1>1. SteerInv => Steered
  BY DEF SteerInv, Steered, Joined
<1> QED
  BY <1>1, HostInvariant, PTL

(* A release puts back what the session changed, however far it came       *)
(* (radio.rs release; netcfg.rs restore, remove_policy_route).             *)
THEOREM ReleasesAreClean == Spec => []CleanRelease
<1>1. TypeInv /\ UndoInv => CleanRelease
  <2> SUFFICES ASSUME TypeInv, UndoInv, pc = "idle", ~marred
               PROVE  /\ radio = Forgotten
                      /\ host.link # "joined"
                      /\ [host EXCEPT !.conf = FALSE, !.link = "down"] = AsFound
    BY DEF CleanRelease
  <2>1. radio = Forgotten /\ host.link # "joined" /\ host.daemons = 0 /\ ~host.address
    BY DEF UndoInv, SessionInv, Forgotten, Undoing
  <2>2. host.relaxed = found
    BY <2>1 DEF UndoInv, SysctlInv, Forgotten
  <2>3. ~host.table /\ ~host.exc /\ host.local0 /\ ~host.local1
    BY DEF UndoInv, PolicyInv, RulesAsFound, LocalAsFound
  <2>4. host \in HostStates
    BY DEF TypeInv, TypeOK
  <2>5. [host EXCEPT !.conf = FALSE, !.link = "down"] = AsFound
    <3> DEFINE left == [host EXCEPT !.conf = FALSE, !.link = "down"]
    <3>1. left \in HostStates /\ AsFound \in HostStates
      <4>1. left \in HostStates
        BY <2>4 DEF HostStates
      <4>2. found \in SUBSET Sysctls
        BY DEF TypeInv, TypeOK
      <4>3. AsFound \in HostStates
        BY <4>2 DEF HostStates, AsFound, MaxDaemons
      <4> QED
        BY <4>1, <4>3
    <3>2. /\ host.address = FALSE /\ host.table = FALSE /\ host.exc = FALSE
          /\ host.local0 = TRUE /\ host.local1 = FALSE
      BY <2>1, <2>3, <2>4 DEF HostStates
    <3>3. /\ left.link = AsFound.link /\ left.address = AsFound.address
          /\ left.relaxed = AsFound.relaxed /\ left.table = AsFound.table
          /\ left.exc = AsFound.exc /\ left.local0 = AsFound.local0
          /\ left.local1 = AsFound.local1 /\ left.daemons = AsFound.daemons
          /\ left.conf = AsFound.conf
      BY <2>1, <2>2, <2>4, <3>2 DEF HostStates, AsFound
    <3> HIDE DEF left
    <3>4. left = AsFound
      BY <3>1, <3>3, SameHost
    <3> QED
      BY <3>4 DEF left
  <2> QED
    BY <2>1, <2>5
<1> QED
  BY <1>1, HostInvariant, PTL

(* Whatever else fails and wherever the daemon is killed, there is a       *)
(* `lookup local` rule after every command, if the two commands that add   *)
(* one do not fail (netcfg.rs install_policy_route, remove_policy_route).  *)
THEOREM LocalDeliveryIsKept ==
    ASSUME {"park", "relocal"} \cap MayFail = {}
    PROVE  Spec => []LocalDelivery
<1>1. Init => TypeInv /\ LocalInv
  BY InitHolds
<1>2. TypeInv /\ LocalInv /\ [Next]_vars => (TypeInv /\ LocalInv)'
  <2> SUFFICES ASSUME TypeInv, LocalInv, [Next]_vars
               PROVE  (TypeInv /\ LocalInv)'
    OBVIOUS
  <2>1. CASE Next
    BY <2>1, TypeKept, LocalKept
  <2>2. CASE UNCHANGED vars
    BY <2>2 DEF vars, TypeInv, TypeOK, ChildInv, LocalInv
  <2> QED
    BY <2>1, <2>2
<1>3. TypeInv /\ LocalInv => LocalDelivery
  BY DEF LocalInv, LocalDelivery
<1> QED
  BY <1>1, <1>2, <1>3, PTL DEF Spec

=============================================================================
