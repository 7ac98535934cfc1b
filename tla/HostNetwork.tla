----------------------------- MODULE HostNetwork -----------------------------
(***************************************************************************)
(* What a Soft-AP session does to the host, one command at a time: the     *)
(* association, the address, the sysctls and the routing rules             *)
(* (crates/wp-link/src/radio.rs Nl80211Radio, netcfg.rs).  Every command   *)
(* may fail, and the daemon may die between any two: the kernel keeps what *)
(* was done, the daemon forgets what it has to undo.                       *)
(*                                                                         *)
(* RadioSession has these operations as single steps that succeed, and     *)
(* says who calls them when; here one caller does, which may leave without *)
(* a release or find itself overtaken by another, as it may there.         *)
(***************************************************************************)
EXTENDS Integers, FiniteSets

CONSTANTS
    Sysctls,        \* accept_local and rp_filter, of the device and of all
    HostIsLocal,    \* the hub owns the device's address on another interface
    MayFail         \* the commands that may fail

Commands == {"up", "connect", "supplicant", "address", "sysctl", "route", "rule",
             "bind", "list", "park", "unlocal", "unpark", "delrule", "relocal",
             "flush", "disconnect", "deladdress", "down"}

ASSUME HostAssumption ==
    /\ IsFiniteSet(Sysctls)
    /\ HostIsLocal \in BOOLEAN
    /\ MayFail \subseteq Commands

VARIABLES
    pc,             \* the command that comes next
    host,           \* the kernel's state, the processes and files it has
    radio,          \* what Nl80211Radio remembers to undo
    undo,           \* what release has taken from it
    failed,         \* history: a command of this session failed
    marred,         \* history: an undo was skipped, lost or failed
    found           \* the sysctls that had the wanted value at first

vars == <<pc, host, radio, undo, failed, marred, found>>

(* Joining, setting up, and tearing down.                                  *)
Joining == {"join", "address", "up"}
Installing == {"sysctl", "route", "rule", "look", "park", "unlocal", "unpark"}
Releasing == {"restore", "kill", "delrule", "relocal", "delpark", "flush",
              "disconnect", "deladdress", "down"}
Points == {"idle", "talk"} \cup Joining \cup Installing \cup Releasing

(* PolicyRoute: none; plain; moved, with relocated_local.                  *)
Policies == {"none", "plain", "moved"}
Memories == [saved : SUBSET Sysctls, assigned : BOOLEAN, policy : Policies, child : BOOLEAN]
Forgotten == [saved |-> {}, assigned |-> FALSE, policy |-> "none", child |-> FALSE]

(* local0, local1: the rules `lookup local` at preference 0 and where it   *)
(* is parked; relaxed: the sysctls with the wanted value; daemons: the     *)
(* supplicants that run; conf: the configuration file of one is there.     *)
MaxDaemons == 2
HostStates == [link : {"down", "up", "joined"}, address : BOOLEAN, relaxed : SUBSET Sysctls,
               table : BOOLEAN, exc : BOOLEAN, local0 : BOOLEAN, local1 : BOOLEAN,
               daemons : 0..MaxDaemons, conf : BOOLEAN]
AsFound == [link |-> "down", address |-> FALSE, relaxed |-> found,
            table |-> FALSE, exc |-> FALSE, local0 |-> TRUE, local1 |-> FALSE,
            daemons |-> 0, conf |-> FALSE]

Init ==
    /\ found \in SUBSET Sysctls
    /\ pc = "idle"
    /\ host = AsFound
    /\ radio = Forgotten
    /\ undo = Forgotten
    /\ failed = FALSE
    /\ marred = FALSE

GoTo(point) == pc' = point

(* A command that sets up fails, or one that undoes does.                  *)
Fails(c) == c \in MayFail /\ failed' = TRUE /\ UNCHANGED marred
UndoFails(c) == c \in MayFail /\ marred' = TRUE /\ UNCHANGED failed
Succeeds == UNCHANGED <<failed, marred>>

-----------------------------------------------------------------------------
(* Joining.  A definition whose name starts with Bug is the definition     *)
(* after it as a plausible mistake would have it; no action uses one.      *)

SessionStarts ==
    /\ pc = "idle"
    /\ failed' = FALSE
    /\ GoTo("join")
    /\ UNCHANGED <<host, radio, undo, marred, found>>

(* run_scan puts the link up and leaves it so, whether or not the scan     *)
(* itself succeeds.                                                        *)
Scans ==
    /\ pc \in {"idle", "talk"}
    /\ host.link = "down"
    /\ host' = [host EXCEPT !.link = "up"]
    /\ UNCHANGED <<pc, radio, undo, failed, marred, found>>

(* Another session, let in while this one talks to its device, sets up     *)
(* before anything was undone.                                             *)
Overtaken ==
    /\ pc = "talk"
    /\ failed' = FALSE
    /\ marred' = TRUE
    /\ GoTo("join")
    /\ UNCHANGED <<host, radio, undo, found>>

(* A caller whose step failed releases, or leaves through `?`.             *)
GivesUp ==
    \/ GoTo("restore") /\ UNCHANGED marred
    \/ GoTo("idle") /\ marred' = TRUE

(* associate, for an open network: link up, CONNECT, rescan and once more. *)
ConnectOpen ==
    /\ pc = "join"
    /\ \/ /\ host' = [host EXCEPT !.link = "joined"]
          /\ GoTo("address")
          /\ Succeeds
       \/ /\ {"up", "connect"} \cap MayFail # {}
          /\ \E link \in {host.link, "up"} : host' = [host EXCEPT !.link = link]
          /\ failed' = TRUE
          /\ GivesUp
    /\ UNCHANGED <<radio, undo, found>>

(* spawn_wpa_supplicant: a child that does not connect is killed, and its  *)
(* configuration removed; when it cannot be started that stays.  The child *)
(* that connects takes the place of one that was never released.           *)
ConnectPsk ==
    /\ pc = "join"
    /\ \/ /\ host.daemons < MaxDaemons
          /\ host' = [host EXCEPT !.link = "joined", !.daemons = @ + 1, !.conf = TRUE]
          /\ radio' = [radio EXCEPT !.child = TRUE]
          /\ GoTo("address")
          /\ Succeeds
       \/ /\ "supplicant" \in MayFail
          /\ \E link \in {host.link, "up"}, conf \in BOOLEAN :
                 host' = [host EXCEPT !.link = link, !.conf = conf]
          /\ failed' = TRUE
          /\ GivesUp
          /\ UNCHANGED radio
    /\ UNCHANGED <<undo, found>>

(* set_address: remembered first; a leftover is removed, then the address  *)
(* added.  When the netlink connection fails the leftover stays.           *)
SetAddress ==
    /\ pc = "address"
    /\ radio' = [radio EXCEPT !.assigned = TRUE]
    /\ \/ /\ host' = [host EXCEPT !.address = TRUE]
          /\ GoTo("up")
          /\ Succeeds
       \/ /\ "address" \in MayFail
          /\ \E left \in {FALSE, host.address} : host' = [host EXCEPT !.address = left]
          /\ failed' = TRUE
          /\ GivesUp
    /\ UNCHANGED <<undo, found>>

LinkUp ==
    /\ pc = "up"
    /\ \/ GoTo("sysctl") /\ Succeeds
       \/ "up" \in MayFail /\ failed' = TRUE /\ GivesUp
    /\ UNCHANGED <<host, radio, undo, found>>

-----------------------------------------------------------------------------
(* prepare_softap                                                          *)

(* netcfg::prepare_softap: what already has the wanted value, or cannot be *)
(* written, is not recorded; what was recorded before is overwritten.      *)
RelaxSysctls ==
    /\ pc = "sysctl"
    /\ \E written \in SUBSET (Sysctls \ host.relaxed) :
           /\ IF written = Sysctls \ host.relaxed THEN Succeeds ELSE Fails("sysctl")
           /\ radio' = [radio EXCEPT !.saved = written]
           /\ host' = [host EXCEPT !.relaxed = @ \cup written]
    /\ GoTo("route")
    /\ UNCHANGED <<undo, found>>

(* install_policy_route.  It ends by setting `policy`, at the first route  *)
(* or rule that cannot be added or when all is done.                       *)
BugInstalled(policy) ==                 \* remembered only if the local rule was moved
    /\ radio' = [radio EXCEPT !.policy = IF policy = "moved" THEN policy ELSE "none"]
    /\ GoTo("talk")

Installed(policy) == radio' = [radio EXCEPT !.policy = policy] /\ GoTo("talk")

ReplaceRoute ==
    /\ pc = "route"
    /\ \/ host' = [host EXCEPT !.table = TRUE] /\ Succeeds /\ GoTo("rule") /\ UNCHANGED radio
       \/ Fails("route") /\ Installed("plain") /\ UNCHANGED host
    /\ UNCHANGED <<undo, found>>

(* A rule that exists is as good as one that was added.  When the table    *)
(* is flushed again that may fail as well.                                 *)
BugAddRule ==                           \* that it exists is taken for a failure
    /\ pc = "rule"
    /\ \/ ~host.exc /\ host' = [host EXCEPT !.exc = TRUE] /\ Succeeds /\ GoTo("look") /\ UNCHANGED radio
       \/ host.exc /\ host' = [host EXCEPT !.table = FALSE] /\ Succeeds /\ Installed("plain")
    /\ UNCHANGED <<undo, found>>

AddRule ==
    /\ pc = "rule"
    /\ \/ host' = [host EXCEPT !.exc = TRUE] /\ Succeeds /\ GoTo("look") /\ UNCHANGED radio
       \/ /\ Fails("rule")
          /\ \E left \in BOOLEAN : /\ left => "flush" \in MayFail
                                 /\ host' = [host EXCEPT !.table = left]
          /\ Installed("plain")
    /\ UNCHANGED <<undo, found>>

(* is_local_address may say no for want of a socket, and the list of rules *)
(* be empty for want of `ip`; otherwise the first `lookup local` counts.   *)
LooksForLocal ==
    /\ pc = "look"
    /\ \/ HostIsLocal /\ host.local0 /\ GoTo("park") /\ Succeeds /\ UNCHANGED radio
       \/ ~(HostIsLocal /\ host.local0) /\ Succeeds /\ Installed("plain")
       \/ (Fails("bind") \/ Fails("list")) /\ Installed("plain")
    /\ UNCHANGED <<host, undo, found>>

(* The parked copy; that it cannot be added is only logged.                *)
ParkLocal ==
    /\ pc = "park"
    /\ \/ host' = [host EXCEPT !.local1 = TRUE] /\ Succeeds
       \/ Fails("park") /\ UNCHANGED host
    /\ GoTo("unlocal")
    /\ UNCHANGED <<radio, undo, found>>

DropLocal ==
    /\ pc = "unlocal"
    /\ \/ host' = [host EXCEPT !.local0 = FALSE] /\ Succeeds /\ Installed("moved")
       \/ Fails("unlocal") /\ GoTo("unpark") /\ UNCHANGED <<host, radio>>
    /\ UNCHANGED <<undo, found>>

(* `lookup local` could not be moved: the copy goes.                       *)
UnparkLocal ==
    /\ pc = "unpark"
    /\ \/ host' = [host EXCEPT !.local1 = FALSE] /\ Succeeds
       \/ UndoFails("unpark") /\ UNCHANGED host
    /\ Installed("plain")
    /\ UNCHANGED <<undo, found>>

-----------------------------------------------------------------------------
(* release                                                                 *)

Release ==
    /\ pc = "talk"
    /\ GoTo("restore")
    /\ UNCHANGED <<host, radio, undo, failed, marred, found>>

(* The fields are taken and the sysctls restored.                          *)
Restore ==
    /\ pc = "restore"
    /\ undo' = radio
    /\ radio' = Forgotten
    /\ \E kept \in SUBSET radio.saved :
           /\ IF kept = {} THEN Succeeds ELSE UndoFails("sysctl")
           /\ host' = [host EXCEPT !.relaxed = @ \ (radio.saved \ kept)]
    /\ GoTo("kill")
    /\ UNCHANGED found

(* The directory it removes is named after the interface, the one it was   *)
(* created in after the Soft-AP: the configuration stays.                  *)
BugKillSupplicant ==                    \* killed whether or not there is one
    /\ pc = "kill"
    /\ host' = [host EXCEPT !.daemons = @ - 1]
    /\ GoTo(IF undo.policy = "none" THEN "disconnect" ELSE "delrule")
    /\ Succeeds
    /\ UNCHANGED <<radio, undo, found>>

KillSupplicant ==
    /\ pc = "kill"
    /\ host' = [host EXCEPT !.daemons = IF undo.child THEN @ - 1 ELSE @]
    /\ GoTo(IF undo.policy = "none" THEN "disconnect" ELSE "delrule")
    /\ Succeeds
    /\ UNCHANGED <<radio, undo, found>>

(* remove_policy_route: every failure is logged and the next command run.  *)
DeleteRule ==
    /\ pc = "delrule"
    /\ \/ host' = [host EXCEPT !.exc = FALSE] /\ Succeeds
       \/ UndoFails("delrule") /\ UNCHANGED host
    /\ GoTo(IF undo.policy = "moved" THEN "relocal" ELSE "flush")
    /\ UNCHANGED <<radio, undo, found>>

BugRestoreLocal ==                      \* only the parked copy is dealt with
    /\ pc = "relocal"
    /\ GoTo("delpark")
    /\ Succeeds
    /\ UNCHANGED <<host, radio, undo, found>>

RestoreLocal ==
    /\ pc = "relocal"
    /\ \/ host' = [host EXCEPT !.local0 = TRUE] /\ Succeeds
       \/ UndoFails("relocal") /\ UNCHANGED host
    /\ GoTo("delpark")
    /\ UNCHANGED <<radio, undo, found>>

DeletePark ==
    /\ pc = "delpark"
    /\ \/ host' = [host EXCEPT !.local1 = FALSE] /\ Succeeds
       \/ UndoFails("unpark") /\ UNCHANGED host
    /\ GoTo("flush")
    /\ UNCHANGED <<radio, undo, found>>

FlushTable ==
    /\ pc = "flush"
    /\ \/ host' = [host EXCEPT !.table = FALSE] /\ Succeeds
       \/ UndoFails("flush") /\ UNCHANGED host
    /\ GoTo("disconnect")
    /\ UNCHANGED <<radio, undo, found>>

Disconnect ==
    /\ pc = "disconnect"
    /\ \/ host' = [host EXCEPT !.link = IF @ = "joined" THEN "up" ELSE @] /\ Succeeds
       \/ UndoFails("disconnect") /\ UNCHANGED host
    /\ GoTo("deladdress")
    /\ UNCHANGED <<radio, undo, found>>

RemoveAddress ==
    /\ pc = "deladdress"
    /\ \/ host' = [host EXCEPT !.address = @ /\ ~undo.assigned] /\ Succeeds
       \/ undo.assigned /\ UndoFails("deladdress") /\ UNCHANGED host
    /\ GoTo("down")
    /\ UNCHANGED <<radio, undo, found>>

LinkDown ==
    /\ pc = "down"
    /\ \/ host' = [host EXCEPT !.link = "down"] /\ Succeeds
       \/ UndoFails("down") /\ UNCHANGED host
    /\ undo' = Forgotten
    /\ GoTo("idle")
    /\ UNCHANGED <<radio, found>>

-----------------------------------------------------------------------------
(* The daemon is killed and started again: its memory is gone, its child   *)
(* runs on, the kernel keeps everything.                                   *)
Killed ==
    /\ radio # Forgotten \/ pc # "idle"
    /\ radio' = Forgotten
    /\ undo' = Forgotten
    /\ marred' = TRUE
    /\ GoTo("idle")
    /\ UNCHANGED <<host, failed, found>>

Next ==
    \/ SessionStarts \/ Scans \/ Overtaken
    \/ ConnectOpen \/ ConnectPsk \/ SetAddress \/ LinkUp
    \/ RelaxSysctls \/ ReplaceRoute \/ AddRule
    \/ LooksForLocal \/ ParkLocal \/ DropLocal \/ UnparkLocal
    \/ Release \/ Restore \/ KillSupplicant \/ DeleteRule \/ RestoreLocal \/ DeletePark
    \/ FlushTable \/ Disconnect \/ RemoveAddress \/ LinkDown
    \/ Killed

Spec == Init /\ [][Next]_vars

-----------------------------------------------------------------------------
(* Properties                                                              *)

TypeOK ==
    /\ pc \in Points
    /\ host \in HostStates
    /\ radio \in Memories /\ undo \in Memories
    /\ failed \in BOOLEAN /\ marred \in BOOLEAN
    /\ found \in SUBSET Sysctls

(* "so local delivery is never absent" (netcfg.rs remove_policy_route):    *)
(* there is a `lookup local` rule after every command, whatever commands   *)
(* fail and wherever the daemon is killed.  The two commands that add one  *)
(* are not among them: a failure of either is logged and passed over.      *)
LocalDelivery == host.local0 \/ host.local1

(* A session whose commands all succeeded reaches the device through the   *)
(* wireless interface, whatever earlier sessions and daemons left behind:  *)
(* rule and route are there and no `lookup local` comes before them        *)
(* (netcfg.rs install_policy_route).                                       *)
Steered ==
    pc = "talk" /\ ~failed =>
        /\ host.link = "joined" /\ host.address
        /\ host.relaxed = Sysctls
        /\ host.table /\ host.exc
        /\ HostIsLocal => ~host.local0

(* However much of the setup failed, a release leaves the host as it was   *)
(* found, except for the configuration of a supplicant and a link that a   *)
(* scan put up: only a failed undo, a session that left without one, one   *)
(* that was overtaken or the death of the daemon leaves anything else      *)
(* (radio.rs release; netcfg.rs restore, remove_policy_route).             *)
CleanRelease ==
    pc = "idle" /\ ~marred =>
        /\ radio = Forgotten
        /\ host.link # "joined"
        /\ [host EXCEPT !.conf = FALSE, !.link = "down"] = AsFound

=============================================================================
