---------------------------- MODULE DevicePlugin ----------------------------
(***************************************************************************)
(* The device plug-in of one config set (ZCryptoResPlugin in plugin.go) in *)
(* the hands of the device plug-in manager (dpm) and of the kubelet:       *)
(*                                                                         *)
(*   - checkChangedLoop, a goroutine that compares hardware and            *)
(*     configuration with what is announced and, on a change, sends on the *)
(*     unbuffered changedChan;                                             *)
(*   - ListAndWatch, a gRPC handler per kubelet session that announces the *)
(*     devices at the start and at each notification.  A handler whose     *)
(*     session is gone does not notice: it waits and takes notifications   *)
(*     until the plug-in stops;                                            *)
(*   - Allocate, a gRPC handler that reads p.ccset;                        *)
(*   - Start and Stop, called by the manager.                              *)
(*                                                                         *)
(* They share p.ccset, p.apqns and p.devices without a lock.  A panic in   *)
(* any of them ends the process, and Kubernetes starts a new one.          *)
(***************************************************************************)
EXTENDS Integers, FiniteSets

CONSTANTS
    Apqns,      \* (adapter, domain) pairs of this machine
    Configs,    \* configurations, each with a tag of its own
    Without,    \* the configurations that do not define the set
    Defs,       \* the APQNs each configuration gives the set
    nil,        \* no configuration, and its tag
    Limit,      \* apqnOverCommitLimit
    MaxEvents,  \* bound on changes of hardware and configuration, failed scans
    MaxRestarts \* bound on restarts of the kubelet

ASSUME ConfigAssumption ==
    /\ nil \notin Configs
    /\ Without \subseteq Configs
    /\ Defs \in [Configs -> SUBSET Apqns]

ASSUME BoundAssumption ==
    Limit \in Nat \ {0} /\ MaxEvents \in Nat /\ MaxRestarts \in Nat

VARIABLES
    cfg,          \* the current configuration (cc and tag of the watcher), or nil
    hw,           \* what the AP bus shows of each APQN
    ccset,        \* p.ccset: definitions and overcommit value, or nil
    tag,          \* p.tag
    apqns,        \* p.apqns: eligible APQNs with their state
    devices,      \* p.devices: an APQN with its state, and an overcommit number
    stopChan, changedChan,
    wg,           \* count of wgChChan
    loop,         \* where checkChangedLoop stands
    pending,      \* a tick came while the loop was not in its select
    new,          \* what checkChanged has fetched: config set, tag, APQNs
    live,         \* the ListAndWatch handler of the current kubelet session
    stale,        \* handlers of former sessions, waiting in their select
    view,         \* the devices the kubelet has last been told
    inalloc,      \* an Allocate call is under way
    mgr,          \* where the manager stands with the plug-in
    mcapqns, mcdevices,   \* what the metrics collector has last been told
    panic,        \* what made the process panic, if anything
    events, restarts

config  == <<cfg, hw, events>>
plugin  == <<ccset, tag, apqns, devices>>
chans   == <<stopChan, changedChan, wg>>
check   == <<loop, pending, new>>
streams == <<live, stale, view, restarts>>
metrics == <<mcapqns, mcdevices>>
vars == <<config, plugin, chans, check, streams, inalloc, mgr, metrics, panic>>

-----------------------------------------------------------------------------
(* A config set: the APQNs it defines and its overcommit value; livesysfs  *)
(* goes through the same values.  A zero stands for the nil pointer.       *)
ConfigSet == [defs : SUBSET Apqns, over : {-1, 0, Limit}]
NilSet    == [defs |-> {}, over |-> 0]
States    == {"absent", "offline", "online"}

(* A config set fresh from the file: JSON decoding fills no overcommit     *)
(* value, so Verify leaves the -1 that stands for the default.             *)
GetCryptoConfigSet(c) ==
    IF c = nil \/ c \in Without THEN NilSet ELSE [defs |-> Defs[c], over |-> -1]

filterAPQNs(set) == {<<a, hw[a]>> : a \in {x \in set.defs : hw[x] # "absent"}}

Copies(set) == IF set.over > 1 THEN set.over ELSE 1

makePluginDevsFromAPQNs(set, list) ==
    IF set = NilSet THEN {} ELSE list \X (0 .. Copies(set) - 1)

(* The metrics collector is told of healthy devices only.                  *)
Healthy(devs) == {dev \in devs : dev[1][2] = "online"}

(* The values checkChanged gives a config set before it compares.          *)
Adjusted(set) == IF set = NilSet THEN set ELSE [defs |-> set.defs, over |-> Limit]

NothingNew == [set |-> NilSet, tag |-> nil, same |-> FALSE, apqns |-> {}]

apEqualAPQNLists_Length(l1, l2) == Cardinality(l1) = Cardinality(l2)   \* mutant
apEqualAPQNLists(l1, l2) == l1 = l2

Alive == panic = "no"

Event == events < MaxEvents /\ events' = events + 1

-----------------------------------------------------------------------------
(* NewPlugin has been called for the set; no kubelet session, no channels. *)
Fresh(c) ==
    /\ ccset' = GetCryptoConfigSet(c)
    /\ tag' = c
    /\ apqns' = {}
    /\ devices' = {}
    /\ stopChan' = "nil"
    /\ changedChan' = "nil"
    /\ wg' = 0
    /\ loop' = "none"
    /\ pending' = FALSE
    /\ new' = NothingNew
    /\ live' = "none"
    /\ stale' = 0
    /\ view' = {}
    /\ inalloc' = FALSE
    /\ mgr' = "new"

Init ==
    /\ cfg \in Configs \ Without
    /\ hw \in [Apqns -> States]
    /\ events = 0
    /\ ccset = GetCryptoConfigSet(cfg)
    /\ tag = cfg
    /\ apqns = {}
    /\ devices = {}
    /\ stopChan = "nil"
    /\ changedChan = "nil"
    /\ wg = 0
    /\ loop = "none"
    /\ pending = FALSE
    /\ new = NothingNew
    /\ live = "none"
    /\ stale = 0
    /\ view = {}
    /\ restarts = 0
    /\ inalloc = FALSE
    /\ mgr = "new"
    /\ mcapqns = {}
    /\ mcdevices = {}
    /\ panic = "no"

-----------------------------------------------------------------------------
(* The configuration watcher and the hardware change at any time.          *)
ConfigChange ==
    /\ Alive
    /\ Event
    /\ cfg' \in (Configs \cup {nil}) \ {cfg}
    /\ UNCHANGED <<hw, plugin, chans, check, streams, inalloc, mgr, metrics, panic>>

HardwareChange ==
    /\ Alive
    /\ Event
    /\ \E a \in Apqns, s \in States : s # hw[a] /\ hw' = [hw EXCEPT ![a] = s]
    /\ UNCHANGED <<cfg, plugin, chans, check, streams, inalloc, mgr, metrics, panic>>

-----------------------------------------------------------------------------
(* The manager (dpm).  A plug-in whose Start fails is not served, but it   *)
(* is stopped like any other.                                              *)
Start ==
    /\ Alive
    /\ mgr = "new"
    /\ \/ /\ mgr' = "running"
          /\ LET found == filterAPQNs(ccset)
                 devs  == makePluginDevsFromAPQNs(ccset, found)
             IN  /\ apqns' = found
                 /\ mcapqns' = found
                 /\ devices' = devs
                 /\ mcdevices' = Healthy(devs)
          /\ stopChan' = "open"
          /\ changedChan' = "open"
          /\ loop' = "new"
          /\ UNCHANGED events
       \/ /\ mgr' = "failed"
          /\ Event
          /\ UNCHANGED <<apqns, devices, metrics, stopChan, changedChan, loop>>
    /\ UNCHANGED <<cfg, hw, ccset, tag, wg, pending, new, streams, inalloc, panic>>

(* The set has been removed from the configuration or the process is asked *)
(* to end: the gRPC server is stopped first, without waiting for handlers. *)
StopServer ==
    /\ Alive
    /\ mgr \in {"running", "failed"}
    /\ mgr' = "stopping"
    /\ stale' = IF live = "none" THEN stale ELSE stale + 1
    /\ live' = "none"
    /\ view' = {}
    /\ UNCHANGED <<config, plugin, chans, check, restarts, inalloc, metrics, panic>>

StopClears ==
    /\ Alive
    /\ mgr = "stopping"
    /\ mgr' = "cleared"
    /\ apqns' = {}
    /\ mcapqns' = {}
    /\ UNCHANGED <<config, ccset, tag, devices, chans, check, streams, inalloc,
                   mcdevices, panic>>

StopCloses ==
    /\ Alive
    /\ mgr = "cleared"
    /\ devices' = {}
    /\ mcdevices' = {}
    /\ \/ stopChan = "nil" /\ panic' = "Stop" /\ UNCHANGED <<mgr, stopChan>>
       \/ stopChan = "open" /\ stopChan' = "closed" /\ mgr' = "waiting" /\ UNCHANGED panic
    /\ UNCHANGED <<config, ccset, tag, apqns, changedChan, wg, check, streams, inalloc,
                   mcapqns>>

StopReturns_NoWait ==   \* mutant: the wait group is not waited for
    /\ Alive
    /\ mgr = "waiting"
    /\ mgr' = "stopped"
    /\ changedChan' = "closed"
    /\ UNCHANGED <<config, plugin, stopChan, wg, check, streams, inalloc, metrics, panic>>
StopReturns ==
    /\ Alive
    /\ mgr = "waiting"
    /\ wg = 0
    /\ mgr' = "stopped"
    /\ changedChan' = "closed"
    /\ UNCHANGED <<config, plugin, stopChan, wg, check, streams, inalloc, metrics, panic>>

(* The set is back in the configuration.                                   *)
NewPlugin ==
    /\ Alive
    /\ mgr = "stopped"
    /\ Fresh(cfg)
    /\ UNCHANGED <<config, restarts, metrics, panic>>

Restart ==
    /\ ~Alive
    /\ GetCryptoConfigSet(cfg) # NilSet
    /\ Fresh(cfg)
    /\ panic' = "no"
    /\ mcapqns' = {}
    /\ mcdevices' = {}
    /\ UNCHANGED <<config, restarts>>

-----------------------------------------------------------------------------
(* checkChangedLoop.  The ticker is started with the loop, so that no tick *)
(* is ready when the loop first selects; one may be after a check or after *)
(* a send that took long.                                                  *)
LoopStep == Alive /\ UNCHANGED <<cfg, hw, stopChan, changedChan, inalloc, mgr, restarts>>

BackToSelect ==
    /\ loop' = "select"
    /\ new' = NothingNew
    /\ pending' \in BOOLEAN

LoopStart_NoAdd ==   \* mutant: the loop does not register with the wait group
    /\ loop = "new"
    /\ loop' = "select"
    /\ UNCHANGED <<plugin, wg, pending, new, live, stale, view, metrics, panic, events>>
    /\ LoopStep
LoopStart ==
    /\ loop = "new"
    /\ loop' = "select"
    /\ wg' = wg + 1
    /\ UNCHANGED <<plugin, pending, new, live, stale, view, metrics, panic, events>>
    /\ LoopStep

LoopExit ==
    /\ loop = "select"
    /\ stopChan = "closed"
    /\ loop' = "done"
    /\ wg' = wg - 1
    /\ UNCHANGED <<plugin, pending, new, live, stale, view, metrics, panic, events>>
    /\ LoopStep

LoopTick ==
    /\ loop = "select"
    /\ stopChan = "open" \/ pending
    /\ loop' = "fetch"
    /\ pending' = FALSE
    /\ UNCHANGED <<plugin, wg, new, live, stale, view, metrics, panic, events>>
    /\ LoopStep

(* checkChanged in four steps.  A set fetched with the tag p.tag is p.ccset *)
(* itself, not a copy of it.                                               *)
Fetch ==
    /\ loop = "fetch"
    /\ loop' = "compare"
    /\ new' = IF cfg = tag
                THEN [set |-> ccset, tag |-> tag, same |-> TRUE, apqns |-> {}]
                ELSE [set |-> GetCryptoConfigSet(cfg), tag |-> cfg, same |-> FALSE,
                      apqns |-> {}]
    /\ UNCHANGED <<plugin, wg, pending, live, stale, view, metrics, panic, events>>
    /\ LoopStep

Compare ==
    /\ loop = "compare"
    /\ \/ /\ LET found == filterAPQNs(new.set)
                 set   == Adjusted(new.set)
                 old   == IF new.same THEN set ELSE ccset
                 changed == \/ ~apEqualAPQNLists(found, apqns)
                            \/ set # NilSet /\ set.over # old.over
             IN  /\ ccset' = old
                 /\ \/ /\ changed
                       /\ loop' = "assign"
                       /\ new' = [new EXCEPT !.set = set, !.apqns = found]
                       /\ UNCHANGED pending
                    \/ ~changed /\ BackToSelect
          /\ UNCHANGED events
       \/ BackToSelect /\ Event /\ UNCHANGED ccset
    /\ UNCHANGED <<tag, apqns, devices, wg, live, stale, view, metrics, panic>>
    /\ LoopStep

AssignApqns ==
    /\ loop = "assign"
    /\ loop' = "derive"
    /\ ccset' = new.set
    /\ tag' = new.tag
    /\ apqns' = new.apqns
    /\ mcapqns' = new.apqns
    /\ UNCHANGED <<devices, wg, pending, new, live, stale, view, mcdevices, panic, events>>
    /\ LoopStep

AssignDevices ==
    /\ loop = "derive"
    /\ loop' = "send"
    /\ devices' = makePluginDevsFromAPQNs(ccset, apqns)
    /\ mcdevices' = Healthy(devices')
    /\ UNCHANGED <<ccset, tag, apqns, wg, pending, new, live, stale, view, mcapqns,
                   panic, events>>
    /\ LoopStep

(* The send on changedChan meets a handler that waits in its select, the   *)
(* current one or a stale one; on a closed channel it would panic.         *)
Notify_NoWait ==   \* mutant: a send that gives up when no handler waits
    /\ loop = "send"
    /\ BackToSelect
    /\ IF live = "wait" THEN live' = "again" ELSE UNCHANGED live
    /\ UNCHANGED <<plugin, wg, stale, view, metrics, panic, events>>
    /\ LoopStep
Notify ==
    /\ loop = "send"
    /\ \/ changedChan = "open" /\ live = "wait" /\ live' = "again" /\ BackToSelect
          /\ UNCHANGED panic
       \/ changedChan = "open" /\ stale > 0 /\ BackToSelect /\ UNCHANGED <<live, panic>>
       \/ changedChan = "closed" /\ panic' = "send" /\ UNCHANGED <<check, live>>
    /\ UNCHANGED <<plugin, wg, stale, view, metrics, events>>
    /\ LoopStep

Loop ==
    \/ LoopStart \/ LoopExit \/ LoopTick
    \/ Fetch \/ Compare \/ AssignApqns \/ AssignDevices \/ Notify

-----------------------------------------------------------------------------
(* The kubelet and the handlers of its calls.                              *)
HandlerStep == Alive /\ UNCHANGED <<config, plugin, chans, check, mgr, metrics>>

Connect ==
    /\ mgr = "running"
    /\ live = "none"
    /\ live' = "first"
    /\ UNCHANGED <<stale, view, restarts, inalloc, panic>>
    /\ HandlerStep

(* ListAndWatch sends p.devices as it is by then, at the start and after   *)
(* each notification, and goes back to its select.                         *)
Announce ==
    /\ live \in {"first", "again"}
    /\ live' = "sending"
    /\ view' = devices
    /\ UNCHANGED <<stale, restarts, inalloc, panic>>
    /\ HandlerStep

Listen ==
    /\ live = "sending"
    /\ live' = "wait"
    /\ UNCHANGED <<stale, view, restarts, inalloc, panic>>
    /\ HandlerStep

(* The kubelet is restarted and the manager serves the plug-in anew.       *)
KubeletRestart ==
    /\ mgr = "running"
    /\ live # "none"
    /\ restarts < MaxRestarts
    /\ restarts' = restarts + 1
    /\ live' = "none"
    /\ stale' = stale + 1
    /\ view' = {}
    /\ UNCHANGED <<inalloc, panic>>
    /\ HandlerStep

HandlerExit ==
    /\ stale > 0
    /\ stopChan = "closed"
    /\ stale' = stale - 1
    /\ UNCHANGED <<live, view, restarts, inalloc, panic>>
    /\ HandlerStep

BeginAllocate ==
    /\ ~inalloc
    /\ Healthy(view) # {}
    /\ inalloc' = TRUE
    /\ UNCHANGED <<streams, panic>>
    /\ HandlerStep

(* Allocate returns early with an error, or reads p.ccset.Livesysfs.       *)
EndAllocate ==
    /\ inalloc
    /\ \/ inalloc' = FALSE /\ UNCHANGED panic
       \/ ccset = NilSet /\ panic' = "Allocate" /\ UNCHANGED inalloc
    /\ UNCHANGED streams
    /\ HandlerStep

Kubelet ==
    \/ Connect \/ Announce \/ Listen \/ KubeletRestart \/ HandlerExit
    \/ BeginAllocate \/ EndAllocate

Stop == StopClears \/ StopCloses \/ StopReturns

Next ==
    \/ ConfigChange \/ HardwareChange
    \/ Start \/ StopServer \/ Stop \/ NewPlugin \/ Restart
    \/ Loop
    \/ Kubelet

Spec == Init /\ [][Next]_vars

(* Goroutines are not starved, the ticker keeps firing and the kubelet     *)
(* connects to every plug-in that registers.  A select takes each of its   *)
(* ready cases sooner or later, so the loop that ticks again and again     *)
(* after stopChan has been closed also sees that.  Nothing makes the       *)
(* environment act: no fairness of changes, restarts, Stop or Allocate.    *)
Fairness ==
    /\ WF_vars(Start)
    /\ WF_vars(Stop)
    /\ WF_vars(Loop)
    /\ SF_vars(LoopExit)
    /\ WF_vars(Connect)
    /\ WF_vars(Announce \/ Listen)
    /\ WF_vars(HandlerExit)

FairSpec == Spec /\ Fairness

-----------------------------------------------------------------------------
Device == (Apqns \X States) \X (0 .. Limit - 1)

(* Types and bounds.  In particular wgChChan counts one loop at most and   *)
(* never goes negative, which would make Done panic (plugin.go:248, 264).  *)
TypeOK ==
    /\ cfg \in Configs \cup {nil}
    /\ hw \in [Apqns -> States]
    /\ ccset \in ConfigSet
    /\ tag \in Configs \cup {nil}
    /\ apqns \in SUBSET (Apqns \X States)
    /\ devices \in SUBSET Device
    /\ stopChan \in {"nil", "open", "closed"}
    /\ changedChan \in {"nil", "open", "closed"}
    /\ wg \in {0, 1}
    /\ loop \in {"none", "new", "select", "fetch", "compare", "assign", "derive",
                 "send", "done"}
    /\ pending \in BOOLEAN
    /\ new \in [set : ConfigSet, tag : Configs \cup {nil}, same : BOOLEAN,
                apqns : SUBSET (Apqns \X States)]
    /\ live \in {"none", "first", "again", "sending", "wait"}
    /\ stale \in 0 .. MaxRestarts + 1
    /\ view \in SUBSET Device
    /\ restarts \in 0 .. MaxRestarts
    /\ inalloc \in BOOLEAN
    /\ mgr \in {"new", "failed", "running", "stopping", "cleared", "waiting", "stopped"}
    /\ mcapqns \in SUBSET (Apqns \X States)
    /\ mcdevices \in SUBSET Device
    /\ panic \in {"no", "Stop", "send", "Allocate"}
    /\ events \in 0 .. MaxEvents

Checking == {"fetch", "compare", "assign", "derive", "send"}

(* Stop is final: once it has returned, the check loop touches the         *)
(* plug-in's state no more, and it never sends on the channel Stop has     *)
(* closed, although the loop registers with the wait group only after its  *)
(* goroutine has been started (plugin.go:248, 289, 308-309).               *)
StopIsFinal ==
    /\ mgr = "stopped" => loop \notin Checking
    /\ panic # "send"

(* No notification is lost between the check loop and a first kubelet      *)
(* session: whenever the handler waits and the loop is not about to notify *)
(* it, the kubelet has been told the current devices (plugin.go:230-258,   *)
(* 323-337), however connection, checks and changes interleave.            *)
NotificationNotLost ==
    mgr = "running" /\ restarts = 0 /\ live = "wait" /\ loop # "send" => view = devices

(* What the kubelet should know: the devices of the current configuration  *)
(* and the current hardware.                                               *)
Wanted ==
    LET set == Adjusted(GetCryptoConfigSet(cfg))
    IN  makePluginDevsFromAPQNs(set, filterAPQNs(set))

(* A plug-in that keeps running and whose kubelet is not restarted ends up *)
(* announcing what configuration and hardware have come to                 *)
(* (plugin.go:183-265, 321-340).                                           *)
Converges ==
    [](restarts = 0) /\ <>[](mgr = "running" /\ Alive) => <>[](view = Wanted)

(* What the comments in Stop say (plugin.go:304, 307): the listeners of    *)
(* the stop channel stop their work, Stop waits for them and then returns. *)
(* The code does not: a loop that has found a change after the last        *)
(* handler left waits for a receiver for ever.                             *)
StopTerminates == mgr = "waiting" ~> mgr # "waiting" \/ ~Alive

(* What docs/technical_concepts_limitations.md says of                     *)
(* APQN_OVERCOMMIT_LIMIT: each APQN available within the set is announced  *)
(* as that many devices.  The code announces one, as checkChanged adjusts  *)
(* p.ccset in place before it compares p.ccset with itself.                *)
LimitIsAnnounced ==
    [](restarts = 0) /\ <>[](mgr = "running" /\ Alive)
        => <>[](Cardinality(view) = Limit * Cardinality(filterAPQNs(GetCryptoConfigSet(cfg))))

(* What docs/installing_and_configuring_the_cex_device_plug_in.md says of  *)
(* a plug-in without a valid configuration: it continues to run and cannot *)
(* satisfy allocation requests.  In the code an Allocate call that comes   *)
(* before the kubelet has been told dereferences a nil p.ccset.            *)
AllocateSurvives == panic # "Allocate"

=============================================================================
