------------------------- MODULE ResourceLifecycle -------------------------
(***************************************************************************)
(* The host resources behind the plug-in devices of one compute node, and  *)
(* the two parties that create and destroy them concurrently:              *)
(*                                                                         *)
(*   - Allocate (plugin.go), a gRPC handler of the device plug-in, makes   *)
(*     the zcrypt device node and the shadow sysfs of a device just before *)
(*     the kubelet starts a container with it;                             *)
(*   - PodLister.doLoop (podlister.go) wakes up periodically, asks the     *)
(*     kubelet which devices containers hold and destroys the nodes and    *)
(*     shadows no container has been seen with for too long.               *)
(*                                                                         *)
(* They share no lock.  Between them stands the kubelet, which records an  *)
(* allocation only after Allocate has returned.  Time is a discrete clock: *)
(* what the code keeps as timestamps is kept here as ages.                 *)
(***************************************************************************)
EXTENDS Integers

CONSTANTS
    Devices,    \* plug-in device ids, apqn-<card>-<domain>-<overcount>
    IfUnused,   \* DeleteResourceTimeoutIfUnused, in clock units
    AfterUse,   \* DeleteResourceTimeoutAfterUse, in clock units
    AllocTime,  \* clock ticks one Allocate call may span, reply included
    MaxFaults   \* bound on crashes, refused destroys and kubelet errors

\* An Allocate call waits 6.4 s for udev at most (zcrypt.go:106), and no
\* setting of RESOURCE_DELETE_NEVER_USED is below 30 s (podlister.go:43).
ASSUME TimeAssumption ==
    /\ IfUnused \in Nat
    /\ AfterUse \in Nat
    /\ AllocTime \in Nat
    /\ AllocTime <= IfUnused

ASSUME FaultAssumption == MaxFaults \in Nat

VARIABLES
    node,            \* zcrypt device node of each device, in the kernel
    shadow,          \* shadow sysfs directory of each device, on the host
    alloc,           \* where the allocation of each device stands
    busy,            \* ticks since the allocation of a device began
    unknown,         \* allocated devices the pod lister had no entry for
    zcryptnodemap,   \* the pod lister's book of the zcrypt nodes
    sysfsshadowmap,  \* the pod lister's book of the shadow directories
    lister,          \* where podListerLoop/doLoop stands
    con,             \* the pod lister's connection to the kubelet, or nil
    listed,          \* devices in the kubelet's last answer to List
    faults           \* faults injected so far

books == <<zcryptnodemap, sysfsshadowmap>>
vars == <<node, shadow, alloc, busy, unknown, books, lister, con, listed, faults>>

-----------------------------------------------------------------------------
(* A node is bare between its creation and the last of the mask writes; a  *)
(* shadow is partial while the tree is being built or when part of it has  *)
(* been removed, and lacking when it was built to the end without one of   *)
(* the live card's files.                                                  *)
NodeState   == {"absent", "bare", "ready"}
Built       == {"ready", "lacking"}
ShadowState == {"absent", "partial"} \cup Built

(* free: the kubelet may hand the device out.  held: the kubelet has       *)
(* recorded a container with the device and reports it in List.  The rest  *)
(* are the stages of an Allocate call.                                     *)
Stages     == {"check", "configure", "mkshadow", "build", "live", "reply"}
AllocState == Stages \cup {"free", "held"}

Sweeping    == {"sweepnodes", "sweepshadows"}
ListerState == {"idle", "nodes", "shadows", "list"} \cup Sweeping
ConState    == {"nil", "open"}

(* An entry of one of the two maps.  The code keeps the time the resource  *)
(* was first seen and the time a container was last seen with it, and      *)
(* reads the first only as long as the second is zero: one age suffices.   *)
Entry     == [st : {"none", "unused", "used"}, age : Nat]
NoEntry   == [st |-> "none",   age |-> 0]
FirstSeen == [st |-> "unused", age |-> 0]
SeenInUse == [st |-> "used",   age |-> 0]

Timeout(e) == IF e.st = "unused" THEN IfUnused ELSE AfterUse
Expired(e) == e.st # "none" /\ e.age > Timeout(e)

(* Ages stop growing once they exceed the timeout they are compared with.  *)
Older(e) ==
    IF e.st = "none" \/ Expired(e) THEN e ELSE [st |-> e.st, age |-> e.age + 1]

Known_Configured(book, present) ==   \* mutant: unconfigured nodes are skipped
    [d \in Devices |-> IF book[d].st = "none" /\ present[d] = "ready"
                         THEN FirstSeen ELSE book[d]]
Known(book, present) ==
    [d \in Devices |-> IF book[d].st = "none" /\ present[d] # "absent"
                         THEN FirstSeen ELSE book[d]]
Refreshed_Once(book, used) ==   \* mutant: last is set only while it is zero
    [d \in Devices |-> IF book[d].st = "unused" /\ d \in used
                         THEN SeenInUse ELSE book[d]]
Refreshed(book, used) ==
    [d \in Devices |-> IF book[d].st # "none" /\ d \in used
                         THEN SeenInUse ELSE book[d]]

Held == {d \in Devices : alloc[d] = "held"}
InFlight(d) == alloc[d] \in Stages

(* Not in the code: unknown only records a fact the properties speak of.   *)
NoteUnknown(d) ==
    unknown' = IF zcryptnodemap[d].st = "none" /\ sysfsshadowmap[d].st = "none"
                 THEN unknown \cup {d} ELSE unknown

Fault   == faults < MaxFaults /\ faults' = faults + 1
NoFault == UNCHANGED faults

(* Writing to the class attribute "destroy", or removing a directory tree: *)
(* every caller ignores the error.                                         *)
Destroy(resource, d) ==
    \/ resource' = [resource EXCEPT ![d] = "absent"] /\ NoFault
    \/ resource' = resource /\ Fault

zcryptDestroyNode(d) == Destroy(node, d)
delShadowSysfs(d)    == Destroy(shadow, d)

-----------------------------------------------------------------------------
(* Nothing has been allocated yet and the pod lister is connected, which   *)
(* main demands before it starts the plug-ins.                             *)
Init ==
    /\ node = [d \in Devices |-> "absent"]
    /\ shadow = [d \in Devices |-> "absent"]
    /\ alloc = [d \in Devices |-> "free"]
    /\ busy = [d \in Devices |-> 0]
    /\ unknown = {}
    /\ zcryptnodemap = [d \in Devices |-> NoEntry]
    /\ sysfsshadowmap = [d \in Devices |-> NoEntry]
    /\ lister = "idle"
    /\ con = "open"
    /\ listed = {}
    /\ faults = 0

-----------------------------------------------------------------------------
Advance(d, from, to) ==
    /\ alloc[d] = from
    /\ alloc' = [alloc EXCEPT ![d] = to]

GiveUp(d, from) ==
    /\ Advance(d, from, "free")
    /\ busy' = [busy EXCEPT ![d] = 0]
    /\ unknown' = unknown \ {d}

(* The kubelet.  It gives a device to one container at a time, calls       *)
(* Allocate for it and records the allocation when the call has returned;  *)
(* the reply is lost when the kubelet restarts or drops the pod meanwhile. *)
KubeletUnchanged ==
    UNCHANGED <<node, shadow, books, lister, con, listed, faults>>

Request(d) ==
    /\ Advance(d, "free", "check")
    /\ UNCHANGED <<busy, unknown>>
    /\ KubeletUnchanged

Record(d) ==
    /\ Advance(d, "reply", "held")
    /\ busy' = [busy EXCEPT ![d] = 0]
    /\ UNCHANGED unknown
    /\ KubeletUnchanged

ReplyLost(d) ==
    /\ GiveUp(d, "reply")
    /\ KubeletUnchanged

Release(d) ==
    /\ GiveUp(d, "held")
    /\ KubeletUnchanged

-----------------------------------------------------------------------------
(* Allocate.  Each step ends where the handler next touches a resource the *)
(* pod lister may destroy.                                                 *)
AllocateUnchanged == UNCHANGED <<books, lister, con, listed>>

(* The handler goes on to its next stage; a deferred call cannot run.      *)
Proceed(d, from, to) ==
    /\ Advance(d, from, to)
    /\ NoFault
    /\ UNCHANGED busy

(* An error return: the deferred zcryptDestroyNode has run and the kubelet *)
(* fails the pod.                                                          *)
Abort_NoUndo(d, from) == GiveUp(d, from) /\ UNCHANGED node /\ NoFault   \* mutant
Abort(d, from) ==
    /\ GiveUp(d, from)
    /\ zcryptDestroyNode(d)

(* A node that exists is taken as it is; otherwise it is created.          *)
CheckNode(d) ==
    /\ \/ /\ node[d] # "absent"
          /\ Proceed(d, "check", "mkshadow")
          /\ UNCHANGED node
          /\ NoteUnknown(d)
       \/ /\ node[d] = "absent"
          /\ Proceed(d, "check", "configure")
          /\ node' = [node EXCEPT ![d] = "bare"]
          /\ NoteUnknown(d)
       \/ /\ node[d] = "absent"
          /\ Abort(d, "check")
    /\ UNCHANGED shadow
    /\ AllocateUnchanged

(* Waiting for udev, chmod and the three masks; each fails once the node   *)
(* has been destroyed under the handler.                                   *)
ConfigureNode(d) ==
    /\ \/ /\ node[d] = "bare"
          /\ Proceed(d, "configure", "mkshadow")
          /\ node' = [node EXCEPT ![d] = "ready"]
          /\ UNCHANGED unknown
       \/ Abort(d, "configure")
    /\ UNCHANGED shadow
    /\ AllocateUnchanged

(* An old tree is removed before the new one is begun.                     *)
BeginShadow(d) ==
    /\ \/ /\ Proceed(d, "mkshadow", "build")
          /\ shadow' = [shadow EXCEPT ![d] = "partial"]
          /\ UNCHANGED <<node, unknown>>
       \/ /\ Abort(d, "mkshadow")
          /\ \/ UNCHANGED shadow
             \/ shadow' = [shadow EXCEPT ![d] = "absent"]
    /\ AllocateUnchanged

(* When the tree is removed while it is being built, the build fails or    *)
(* what is left of the tree is incomplete.  With live sysfs on, an error   *)
(* of writing the card's files only ends their loop: the loop of links     *)
(* after it overwrites err, and the build goes on.  The tree of a failed   *)
(* build is removed, and an error of that is ignored.                      *)
EndShadow(d) ==
    /\ \/ /\ Proceed(d, "build", "live")
          /\ shadow' = [shadow EXCEPT ![d] =
                            IF @ = "partial" THEN "ready" ELSE "partial"]
          /\ UNCHANGED <<node, unknown>>
       \/ /\ Advance(d, "build", "live")
          /\ shadow[d] = "partial"
          /\ shadow' = [shadow EXCEPT ![d] = "lacking"]
          /\ Fault
          /\ UNCHANGED <<busy, node, unknown>>
       \/ /\ Abort(d, "build")
          /\ \E left \in {"absent", "partial"} :
                shadow' = [shadow EXCEPT ![d] = left]
    /\ AllocateUnchanged

(* With live sysfs on, one more link is made in the shadow directory; if   *)
(* that fails the shadow stays behind.                                     *)
LiveMounts(d) ==
    /\ \/ /\ Proceed(d, "live", "reply")
          /\ UNCHANGED <<node, unknown>>
       \/ Abort(d, "live")
    /\ UNCHANGED shadow
    /\ AllocateUnchanged

Allocate(d) ==
    \/ CheckNode(d) \/ ConfigureNode(d)
    \/ BeginShadow(d) \/ EndShadow(d) \/ LiveMounts(d)

-----------------------------------------------------------------------------
(* PodLister.  podListerLoop calls doLoop at each tick of its ticker and   *)
(* connect after an error.                                                 *)
ListerUnchanged == UNCHANGED <<alloc, busy, unknown>>

Goto(from, to) == lister = from /\ lister' = to

connect_KeepsClosed ==   \* mutant: the closed connection is not forgotten
    \/ con' = "open" /\ NoFault
    \/ con' = "closed" /\ Fault
connect ==
    \/ con' = "open" /\ NoFault
    \/ con' = "nil" /\ Fault

Poll ==
    /\ \/ con = "open" /\ Goto("idle", "nodes") /\ UNCHANGED con /\ NoFault
       \/ con = "nil" /\ Goto("idle", "idle") /\ connect
    /\ UNCHANGED <<node, shadow, books, listed>>
    /\ ListerUnchanged

(* A directory that cannot be read ends this round without an error.       *)
ScanNodes ==
    /\ \/ /\ Goto("nodes", "shadows")
          /\ zcryptnodemap' = Known(zcryptnodemap, node)
          /\ NoFault
       \/ Goto("nodes", "idle") /\ UNCHANGED zcryptnodemap /\ Fault
    /\ UNCHANGED <<node, shadow, sysfsshadowmap, con, listed>>
    /\ ListerUnchanged

ScanShadows ==
    /\ \/ /\ Goto("shadows", "list")
          /\ sysfsshadowmap' = Known(sysfsshadowmap, shadow)
          /\ NoFault
       \/ Goto("shadows", "idle") /\ UNCHANGED sysfsshadowmap /\ Fault
    /\ UNCHANGED <<node, shadow, zcryptnodemap, con, listed>>
    /\ ListerUnchanged

(* The devices of the kubelet's answer get a fresh timestamp if they have  *)
(* an entry.  A failed call ends the round and closes the connection.      *)
List_IgnoresError ==   \* mutant: an error counts as an empty answer
    /\ \/ /\ Goto("list", "sweepnodes")
          /\ listed' = Held
          /\ zcryptnodemap' = Refreshed(zcryptnodemap, Held)
          /\ sysfsshadowmap' = Refreshed(sysfsshadowmap, Held)
          /\ NoFault
       \/ Goto("list", "sweepnodes") /\ UNCHANGED <<books, listed>> /\ Fault
    /\ UNCHANGED <<node, shadow, con>>
    /\ ListerUnchanged
List ==
    /\ \/ /\ Goto("list", "sweepnodes")
          /\ listed' = Held
          /\ zcryptnodemap' = Refreshed(zcryptnodemap, Held)
          /\ sysfsshadowmap' = Refreshed(sysfsshadowmap, Held)
          /\ UNCHANGED con
          /\ NoFault
       \/ /\ Goto("list", "idle")
          /\ con' \in ConState
          /\ UNCHANGED <<books, listed>>
          /\ Fault
    /\ UNCHANGED <<node, shadow>>
    /\ ListerUnchanged

(* Expired entries go in any order, with the resource they stand for.      *)
SweepNode(d) ==
    /\ lister = "sweepnodes"
    /\ Expired(zcryptnodemap[d])
    /\ zcryptDestroyNode(d)
    /\ zcryptnodemap' = [zcryptnodemap EXCEPT ![d] = NoEntry]
    /\ UNCHANGED <<shadow, sysfsshadowmap, lister, con, listed>>
    /\ ListerUnchanged

SweepNodesDone ==
    /\ Goto("sweepnodes", "sweepshadows")
    /\ \A d \in Devices : ~Expired(zcryptnodemap[d])
    /\ UNCHANGED <<node, shadow, books, con, listed, faults>>
    /\ ListerUnchanged

SweepShadow(d) ==
    /\ lister = "sweepshadows"
    /\ Expired(sysfsshadowmap[d])
    /\ delShadowSysfs(d)
    /\ sysfsshadowmap' = [sysfsshadowmap EXCEPT ![d] = NoEntry]
    /\ UNCHANGED <<node, zcryptnodemap, lister, con, listed>>
    /\ ListerUnchanged

SweepShadowsDone ==
    /\ Goto("sweepshadows", "idle")
    /\ \A d \in Devices : ~Expired(sysfsshadowmap[d])
    /\ listed' = {}
    /\ UNCHANGED <<node, shadow, books, con, faults>>
    /\ ListerUnchanged

PodLister ==
    \/ Poll \/ ScanNodes \/ ScanShadows \/ List
    \/ SweepNodesDone \/ SweepShadowsDone
    \/ \E d \in Devices : SweepNode(d) \/ SweepShadow(d)

-----------------------------------------------------------------------------
(* The plug-in process dies and is started again: nodes and shadows stay,  *)
(* the maps are lost, calls in flight fail, running containers go on.      *)
Crash ==
    /\ Fault
    /\ alloc' = [d \in Devices |-> IF InFlight(d) THEN "free" ELSE alloc[d]]
    /\ zcryptnodemap' = [d \in Devices |-> NoEntry]
    /\ sysfsshadowmap' = [d \in Devices |-> NoEntry]
    /\ lister' = "idle"
    /\ con' = "open"
    /\ listed' = {}
    /\ busy' = [d \in Devices |-> 0]
    /\ unknown' = unknown \cap Held
    /\ UNCHANGED <<node, shadow>>

(* Time passes.  The marking and the sweep that follows it take less than  *)
(* a clock unit; an Allocate call spans AllocTime ticks at most.           *)
Tick ==
    /\ lister \notin Sweeping
    /\ \A d \in Devices : InFlight(d) => busy[d] < AllocTime
    /\ busy' = [d \in Devices |-> IF InFlight(d) THEN busy[d] + 1 ELSE busy[d]]
    /\ zcryptnodemap' = [d \in Devices |-> Older(zcryptnodemap[d])]
    /\ sysfsshadowmap' = [d \in Devices |-> Older(sysfsshadowmap[d])]
    /\ UNCHANGED <<node, shadow, alloc, unknown, lister, con, listed, faults>>

Kubelet(d) == Request(d) \/ Record(d) \/ ReplyLost(d) \/ Release(d)

Next ==
    \/ \E d \in Devices : Kubelet(d) \/ Allocate(d)
    \/ PodLister
    \/ Crash
    \/ Tick

Spec == Init /\ [][Next]_vars

(* Handler and pod lister are goroutines the Go scheduler does not starve; *)
(* the kubelet takes every reply.  Time goes on however often a sweep or a *)
(* new Allocate call holds back the tick of the coarse clock: that needs   *)
(* strong fairness.                                                        *)
Fairness ==
    /\ WF_vars(PodLister)
    /\ SF_vars(Tick)
    /\ \A d \in Devices : WF_vars(Allocate(d)) /\ WF_vars(Record(d) \/ ReplyLost(d))

FairSpec == Spec /\ Fairness

-----------------------------------------------------------------------------
(* Types and bounds.  In particular the connection the pod lister polls    *)
(* with is open or nil, never one it has closed (podlister.go:75-78).      *)
TypeOK ==
    /\ node \in [Devices -> NodeState]
    /\ shadow \in [Devices -> ShadowState]
    /\ alloc \in [Devices -> AllocState]
    /\ busy \in [Devices -> 0 .. AllocTime]
    /\ unknown \in SUBSET Devices
    /\ zcryptnodemap \in [Devices -> Entry]
    /\ sysfsshadowmap \in [Devices -> Entry]
    /\ lister \in ListerState
    /\ con \in ConState
    /\ listed \in SUBSET Devices
    /\ faults \in 0 .. MaxFaults

(* The pod lister's patience suffices for a new allocation: a container     *)
(* whose device the pod lister had no entry for when Allocate began        *)
(* (plugin.go:369) keeps its zcrypt node and the shadow sysfs Allocate     *)
(* built for it, nothing of which is taken away, for as long as the        *)
(* kubelet reports it, whatever crashes, failed kubelet calls and refused  *)
(* destroys come between.                                                  *)
UnknownDeviceIsSafe ==
    \A d \in unknown :
        alloc[d] = "held" => node[d] # "absent" /\ shadow[d] \in Built

(* Without crash or refused destroy every error path of Allocate undoes    *)
(* what it began (plugin.go:374, 390, 405), so that the existence test of  *)
(* plugin.go:369 never accepts a node whose masks were not written.        *)
NoBareNodeHandedOut ==
    faults = 0 =>
        \A d \in Devices :
            alloc[d] \in {"mkshadow", "build", "live", "reply", "held"} =>
                node[d] # "bare"

(* A running container loses its node or its shadow in one way only: in a  *)
(* sweep (podlister.go:281-327) whose List answer did not name the device. *)
LossOnlyWhenUnlisted ==
    [][\A d \in Devices :
          alloc[d] = "held" /\ (node'[d] # node[d] \/ shadow'[d] # shadow[d])
              => lister \in Sweeping /\ d \notin listed]_vars

(* Nothing leaks: once a device stays unallocated, its node and its shadow *)
(* are eventually destroyed for good, those a crashed or failed Allocate   *)
(* left behind included (podlister.go:165-195, 281-327).                   *)
Reclaimed ==
    \A d \in Devices :
        <>[](alloc[d] = "free") => <>[](node[d] = "absent" /\ shadow[d] = "absent")

(* What the documentation promises of every container with a CEX resource  *)
(* (docs/allocation_of_cex_resources_by_containers.md): its device node    *)
(* and its sysfs are there.  The code does not guarantee it for a device   *)
(* handed out again while the pod lister is about to expire it.            *)
HeldHasResources ==
    \A d \in Devices :
        alloc[d] = "held" => node[d] = "ready" /\ shadow[d] = "ready"

=============================================================================
