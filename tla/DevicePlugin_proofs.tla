------------------------ MODULE DevicePlugin_proofs ------------------------
(***************************************************************************)
(* The channel protocol of a plug-in: why Stop is final and why no         *)
(* notification is lost in a first kubelet session.                        *)
(***************************************************************************)
EXTENDS DevicePlugin, TLAPS

(* The wait group counts the loop from its first select to its exit.       *)
Registered ==
    /\ loop \in {"select"} \cup Checking => wg = 1
    /\ loop \in {"none", "new", "done"} => wg = 0
    /\ loop \in {"none", "new", "select", "done"} \cup Checking

(* A loop that starts when Stop has returned has no tick to act on and     *)
(* finds stopChan closed.                                                  *)
LateLoopExits ==
    /\ mgr \in {"new", "failed"} => loop = "none" /\ pending = FALSE
    /\ loop = "new" => pending = FALSE
    /\ mgr = "waiting" => stopChan = "closed"
    /\ mgr = "stopped" => /\ stopChan = "closed"
                          /\ loop \notin Checking
                          /\ loop = "select" => pending = FALSE

ClosedOnReturn ==
    /\ changedChan = "closed" => mgr = "stopped"
    /\ panic # "send"

StopInv == Registered /\ LateLoopExits /\ ClosedOnReturn

(* Every step keeps the invariant of the wait group and the channels.      *)
LEMMA StopInvStep == StopInv /\ [Next]_vars => StopInv'
  <1> SUFFICES ASSUME StopInv, [Next]_vars PROVE StopInv'
    OBVIOUS
  <1> USE DEF StopInv, Registered, LateLoopExits, ClosedOnReturn, Checking
  <1>1. CASE ConfigChange \/ HardwareChange
    BY <1>1 DEF ConfigChange, HardwareChange, plugin, chans, check
  <1>2. CASE Start
    BY <1>2 DEF Start
  <1>3. CASE StopServer
    BY <1>3 DEF StopServer, chans, check
  <1>4. CASE StopClears
    BY <1>4 DEF StopClears, chans, check
  <1>5. CASE StopCloses
    BY <1>5 DEF StopCloses, check
  <1>6. CASE StopReturns
    BY <1>6 DEF StopReturns, check
  <1>7. CASE NewPlugin \/ Restart
    BY <1>7 DEF NewPlugin, Restart, Fresh
  <1>8. CASE Loop
    <2> USE DEF LoopStep, BackToSelect
    <2>1. CASE LoopStart
      BY <2>1 DEF LoopStart
    <2>2. CASE LoopExit
      BY <2>2 DEF LoopExit
    <2>3. CASE LoopTick
      BY <2>3 DEF LoopTick
    <2>4. CASE Fetch
      BY <2>4 DEF Fetch
    <2>5. CASE Compare
      BY <2>5 DEF Compare
    <2>6. CASE AssignApqns \/ AssignDevices
      BY <2>6 DEF AssignApqns, AssignDevices
    <2>7. CASE Notify
      BY <2>7 DEF Notify, check
    <2> QED
      BY <1>8, <2>1, <2>2, <2>3, <2>4, <2>5, <2>6, <2>7 DEF Loop
  <1>9. CASE Kubelet
    BY <1>9 DEF Kubelet, Connect, Announce, Listen, KubeletRestart, HandlerExit,
        BeginAllocate, EndAllocate, HandlerStep, chans, check
  <1>10. CASE UNCHANGED vars
    BY <1>10 DEF vars, chans, check
  <1> QED
    BY <1>1, <1>2, <1>3, <1>4, <1>5, <1>6, <1>7, <1>8, <1>9, <1>10 DEF Next, Stop

(* Once Stop has returned the check loop changes nothing of the plug-in,   *)
(* and it never sends on a closed channel: for any configurations, any     *)
(* hardware, any number of changes, restarts and Start/Stop cycles.        *)
THEOREM StopFinal == Spec => []StopIsFinal
  <1>1. Init => StopInv
    BY DEF Init, StopInv, Registered, LateLoopExits, ClosedOnReturn, Checking
  <1>2. StopInv => StopIsFinal
    BY DEF StopInv, LateLoopExits, ClosedOnReturn, StopIsFinal
  <1> QED
    BY <1>1, <1>2, StopInvStep, PTL DEF Spec

-----------------------------------------------------------------------------
(* The first kubelet session has no stale rival, and what it was told last *)
(* is current unless the loop is about to send.                            *)
FirstSession ==
    /\ stale \in Nat
    /\ restarts \in Nat
    /\ mgr \in {"new", "failed"} => live = "none"
    /\ mgr \in {"new", "failed", "running"} /\ restarts = 0 => stale = 0
    /\ mgr = "running" /\ restarts = 0 /\ live \in {"sending", "wait"} /\ loop # "send"
           => view = devices

(* Every step keeps the invariant of the first kubelet session.            *)
LEMMA FirstSessionStep == StopInv /\ FirstSession /\ [Next]_vars => FirstSession'
  <1> SUFFICES ASSUME StopInv, FirstSession, [Next]_vars PROVE FirstSession'
    OBVIOUS
  <1> USE DEF FirstSession
  <1>1. CASE ConfigChange \/ HardwareChange
    BY <1>1 DEF ConfigChange, HardwareChange, plugin, check, streams
  <1>2. CASE Start
    BY <1>2 DEF Start, streams
  <1>3. CASE StopServer
    BY <1>3 DEF StopServer
  <1>4. CASE StopClears \/ StopCloses \/ StopReturns
    BY <1>4 DEF StopClears, StopCloses, StopReturns, streams
  <1>5. CASE NewPlugin \/ Restart
    BY <1>5 DEF NewPlugin, Restart, Fresh
  <1>6. CASE Loop
    <2> USE DEF LoopStep, BackToSelect, plugin
    <2>1. CASE LoopStart \/ LoopExit \/ LoopTick \/ Fetch
      BY <2>1 DEF LoopStart, LoopExit, LoopTick, Fetch
    <2>2. CASE Compare
      BY <2>2 DEF Compare
    <2>3. CASE AssignApqns \/ AssignDevices
      BY <2>3 DEF AssignApqns, AssignDevices
    <2>4. CASE Notify
      BY <2>4 DEF Notify, StopInv, ClosedOnReturn, check
    <2> QED
      BY <1>6, <2>1, <2>2, <2>3, <2>4 DEF Loop
  <1>7. CASE Kubelet
    <2> USE DEF HandlerStep, plugin, check, streams
    <2>1. CASE Connect \/ Announce \/ Listen
      BY <2>1 DEF Connect, Announce, Listen
    <2>2. CASE KubeletRestart \/ HandlerExit
      BY <2>2 DEF KubeletRestart, HandlerExit
    <2>3. CASE BeginAllocate \/ EndAllocate
      BY <2>3 DEF BeginAllocate, EndAllocate
    <2> QED
      BY <1>7, <2>1, <2>2, <2>3 DEF Kubelet
  <1>8. CASE UNCHANGED vars
    BY <1>8 DEF vars, plugin, check, streams
  <1> QED
    BY <1>1, <1>2, <1>3, <1>4, <1>5, <1>6, <1>7, <1>8 DEF Next, Stop

(* Until the kubelet is restarted, a waiting ListAndWatch handler has told *)
(* it the current devices or is about to be notified.                      *)
THEOREM NotificationsArrive == Spec => []NotificationNotLost
  <1>1. Init => StopInv /\ FirstSession
    BY DEF Init, StopInv, Registered, LateLoopExits, ClosedOnReturn, Checking, FirstSession
  <1>2. FirstSession => NotificationNotLost
    BY DEF FirstSession, NotificationNotLost
  <1> QED
    BY <1>1, <1>2, StopInvStep, FirstSessionStep, PTL DEF Spec

-----------------------------------------------------------------------------
(* Types, in three parts: the control state, the data and the counters.    *)
ControlTypes ==
    /\ stopChan \in {"nil", "open", "closed"}
    /\ changedChan \in {"nil", "open", "closed"}
    /\ pending \in BOOLEAN
    /\ live \in {"none", "first", "again", "sending", "wait"}
    /\ inalloc \in BOOLEAN
    /\ mgr \in {"new", "failed", "running", "stopping", "cleared", "waiting", "stopped"}
    /\ panic \in {"no", "Stop", "send", "Allocate"}

DataTypes ==
    /\ cfg \in Configs \cup {nil}
    /\ hw \in [Apqns -> States]
    /\ ccset \in ConfigSet
    /\ tag \in Configs \cup {nil}
    /\ apqns \in SUBSET (Apqns \X States)
    /\ devices \in SUBSET Device
    /\ new \in [set : ConfigSet, tag : Configs \cup {nil}, same : BOOLEAN,
                apqns : SUBSET (Apqns \X States)]
    /\ view \in SUBSET Device
    /\ mcapqns \in SUBSET (Apqns \X States)
    /\ mcdevices \in SUBSET Device

(* Every restart of the kubelet leaves one handler behind at most, and     *)
(* stopping the gRPC server one more.                                      *)
CounterTypes ==
    /\ restarts \in 0 .. MaxRestarts
    /\ events \in 0 .. MaxEvents
    /\ stale \in Nat
    /\ stale <= restarts + 1
    /\ mgr \in {"new", "failed", "running"} => stale <= restarts

LEMMA ControlStep == ControlTypes /\ [Next]_vars => ControlTypes'
  <1> SUFFICES ASSUME ControlTypes, [Next]_vars PROVE ControlTypes'
    OBVIOUS
  <1> USE DEF ControlTypes
  <1>1. CASE ConfigChange \/ HardwareChange
    BY <1>1, Zenon DEF ConfigChange, HardwareChange, chans, check, streams
  <1>2. CASE Start
    BY <1>2, Zenon DEF Start, streams
  <1>3. CASE StopServer \/ StopClears \/ StopCloses \/ StopReturns
    BY <1>3, Zenon DEF StopServer, StopClears, StopCloses, StopReturns, chans, check, streams
  <1>4. CASE NewPlugin \/ Restart
    BY <1>4, Zenon DEF NewPlugin, Restart, Fresh
  <1>5. CASE Loop
    BY <1>5, Zenon DEF Loop, LoopStart, LoopExit, LoopTick, Fetch, Compare, AssignApqns,
        AssignDevices, Notify, LoopStep, BackToSelect, check
  <1>6. CASE Kubelet
    BY <1>6, Zenon DEF Kubelet, Connect, Announce, Listen, KubeletRestart, HandlerExit,
        BeginAllocate, EndAllocate, HandlerStep, chans, check, streams
  <1>7. CASE UNCHANGED vars
    BY <1>7, Zenon DEF vars, chans, check, streams
  <1> QED
    BY <1>1, <1>2, <1>3, <1>4, <1>5, <1>6, <1>7 DEF Next, Stop

LEMMA CounterStep == CounterTypes /\ [Next]_vars => CounterTypes'
  <1> SUFFICES ASSUME CounterTypes, [Next]_vars PROVE CounterTypes'
    OBVIOUS
  <1> USE BoundAssumption DEF CounterTypes
  <1>1. CASE ConfigChange \/ HardwareChange
    BY <1>1 DEF ConfigChange, HardwareChange, Event, streams
  <1>2. CASE Start
    BY <1>2 DEF Start, Event, streams
  <1>3. CASE StopServer \/ StopClears \/ StopCloses \/ StopReturns
    BY <1>3 DEF StopServer, StopClears, StopCloses, StopReturns, streams, config
  <1>4. CASE NewPlugin \/ Restart
    BY <1>4 DEF NewPlugin, Restart, Fresh, config
  <1>5. CASE Loop
    BY <1>5 DEF Loop, LoopStart, LoopExit, LoopTick, Fetch, Compare, AssignApqns,
        AssignDevices, Notify, LoopStep, Event
  <1>6. CASE Kubelet
    BY <1>6 DEF Kubelet, Connect, Announce, Listen, KubeletRestart, HandlerExit,
        BeginAllocate, EndAllocate, HandlerStep, streams, config
  <1>7. CASE UNCHANGED vars
    BY <1>7 DEF vars, streams, config
  <1> QED
    BY <1>1, <1>2, <1>3, <1>4, <1>5, <1>6, <1>7 DEF Next, Stop

(* What the functions on config sets, APQNs and devices return.            *)
LEMMA OperatorTypes ==
    /\ NilSet \in ConfigSet
    /\ NothingNew \in [set : ConfigSet, tag : Configs \cup {nil}, same : BOOLEAN,
                       apqns : SUBSET (Apqns \X States)]
    /\ \A c \in Configs \cup {nil} : GetCryptoConfigSet(c) \in ConfigSet
    /\ \A set \in ConfigSet : Adjusted(set) \in ConfigSet
    /\ \A set \in ConfigSet, list \in SUBSET (Apqns \X States) :
           makePluginDevsFromAPQNs(set, list) \in SUBSET Device
    /\ \A devs \in SUBSET Device : Healthy(devs) \in SUBSET Device
  <1>1. NilSet \in ConfigSet
    BY DEF NilSet, ConfigSet
  <1>2. NothingNew \in [set : ConfigSet, tag : Configs \cup {nil}, same : BOOLEAN,
                        apqns : SUBSET (Apqns \X States)]
    BY <1>1 DEF NothingNew
  <1>3. \A c \in Configs \cup {nil} : GetCryptoConfigSet(c) \in ConfigSet
    BY <1>1, ConfigAssumption DEF GetCryptoConfigSet, ConfigSet
  <1>4. \A set \in ConfigSet : Adjusted(set) \in ConfigSet
    BY DEF Adjusted, ConfigSet
  <1>5. ASSUME NEW set \in ConfigSet, NEW list \in SUBSET (Apqns \X States)
        PROVE  makePluginDevsFromAPQNs(set, list) \in SUBSET Device
    <2>1. set.over \in {-1, 0, Limit}
      BY DEF ConfigSet
    <2>2. Copies(set) \in 1 .. Limit
      BY <2>1, BoundAssumption DEF Copies
    <2>3. 0 .. Copies(set) - 1 \subseteq 0 .. Limit - 1
      BY <2>2, BoundAssumption
    <2> QED
      BY <2>3 DEF makePluginDevsFromAPQNs, Device
  <1>6. \A devs \in SUBSET Device : Healthy(devs) \in SUBSET Device
    BY DEF Healthy
  <1> QED
    BY <1>1, <1>2, <1>3, <1>4, <1>5, <1>6

LEMMA FilterTypes ==
    ASSUME hw \in [Apqns -> States], NEW set \in ConfigSet
    PROVE  filterAPQNs(set) \in SUBSET (Apqns \X States)
  <1>1. set.defs \in SUBSET Apqns
    BY DEF ConfigSet
  <1> QED
    BY <1>1 DEF filterAPQNs

LEMMA DataStep == DataTypes /\ [Next]_vars => DataTypes'
  <1> SUFFICES ASSUME DataTypes, [Next]_vars PROVE DataTypes'
    OBVIOUS
  <1> USE DEF DataTypes
  <1>1. CASE ConfigChange \/ HardwareChange
    <2>1. cfg' \in Configs \cup {nil} /\ hw' \in [Apqns -> States]
      BY <1>1 DEF ConfigChange, HardwareChange
    <2> QED
      BY <1>1, <2>1 DEF ConfigChange, HardwareChange, plugin, check, streams, metrics
  <1>2. CASE Start
    <2>1. filterAPQNs(ccset) \in SUBSET (Apqns \X States)
      BY FilterTypes
    <2> QED
      BY <1>2, <2>1, OperatorTypes DEF Start, streams, metrics
  <1>3. CASE StopServer \/ StopClears \/ StopCloses \/ StopReturns
    BY <1>3 DEF StopServer, StopClears, StopCloses, StopReturns, config, plugin, check,
        streams, metrics
  <1>4. CASE NewPlugin \/ Restart
    BY <1>4, OperatorTypes DEF NewPlugin, Restart, Fresh, config, metrics
  <1>5. CASE Loop
    <2>1. CASE LoopStart \/ LoopExit \/ LoopTick
      BY <2>1 DEF LoopStart, LoopExit, LoopTick, LoopStep, plugin, metrics
    <2>2. CASE Fetch
      <3>1. new' \in [set : ConfigSet, tag : Configs \cup {nil}, same : BOOLEAN,
                      apqns : SUBSET (Apqns \X States)]
        BY <2>2, OperatorTypes DEF Fetch
      <3> QED
        BY <2>2, <3>1 DEF Fetch, LoopStep, plugin, metrics
    <2>3. CASE Compare
      <3> DEFINE found == filterAPQNs(new.set)
                 set   == Adjusted(new.set)
      <3>1. found \in SUBSET (Apqns \X States) /\ set \in ConfigSet
        BY FilterTypes, OperatorTypes
      <3>2. ccset' \in {ccset, set}
        BY <2>3 DEF Compare
      <3>3. new' \in {NothingNew, [new EXCEPT !.set = set, !.apqns = found]}
        BY <2>3 DEF Compare, BackToSelect
      <3> HIDE DEF found, set
      <3>4. [new EXCEPT !.set = set, !.apqns = found] \in
                [set : ConfigSet, tag : Configs \cup {nil}, same : BOOLEAN,
                 apqns : SUBSET (Apqns \X States)]
        BY <3>1
      <3> QED
        BY <2>3, <3>1, <3>2, <3>3, <3>4, OperatorTypes DEF Compare, LoopStep, metrics
    <2>4. CASE AssignApqns
      BY <2>4 DEF AssignApqns, LoopStep
    <2>5. CASE AssignDevices
      BY <2>5, OperatorTypes DEF AssignDevices, LoopStep
    <2>6. CASE Notify
      BY <2>6, OperatorTypes DEF Notify, BackToSelect, LoopStep, check, plugin, metrics
    <2> QED
      BY <1>5, <2>1, <2>2, <2>3, <2>4, <2>5, <2>6 DEF Loop
  <1>6. CASE Kubelet
    BY <1>6 DEF Kubelet, Connect, Announce, Listen, KubeletRestart, HandlerExit,
        BeginAllocate, EndAllocate, HandlerStep, config, plugin, check, streams, metrics
  <1>7. CASE UNCHANGED vars
    BY <1>7 DEF vars, config, plugin, check, streams, metrics
  <1> QED
    BY <1>1, <1>2, <1>3, <1>4, <1>5, <1>6, <1>7 DEF Next, Stop

(* Types and bounds for any machine and any configurations: in particular  *)
(* the wait group counts one loop at most and is never negative, although  *)
(* the loop registers itself only after it has been started.               *)
THEOREM TypeCorrect == Spec => []TypeOK
  <1>1. Init => StopInv /\ ControlTypes /\ CounterTypes /\ DataTypes
    <2> SUFFICES ASSUME Init PROVE StopInv /\ ControlTypes /\ CounterTypes /\ DataTypes
      OBVIOUS
    <2>1. StopInv
      BY DEF Init, StopInv, Registered, LateLoopExits, ClosedOnReturn, Checking
    <2>2. ControlTypes
      BY Zenon DEF Init, ControlTypes
    <2>3. CounterTypes
      BY BoundAssumption DEF Init, CounterTypes
    <2>4. DataTypes
      BY OperatorTypes DEF Init, DataTypes
    <2> QED
      BY <2>1, <2>2, <2>3, <2>4
  <1>2. StopInv /\ ControlTypes /\ CounterTypes /\ DataTypes => TypeOK
    <2> SUFFICES ASSUME StopInv, ControlTypes, CounterTypes, DataTypes PROVE TypeOK
      OBVIOUS
    <2>1. /\ wg \in {0, 1}
          /\ loop \in {"none", "new", "select", "fetch", "compare", "assign", "derive",
                       "send", "done"}
      BY DEF StopInv, Registered, Checking
    <2>2. stale \in 0 .. MaxRestarts + 1
      BY BoundAssumption DEF CounterTypes
    <2> QED
      BY <2>1, <2>2 DEF TypeOK, ControlTypes, CounterTypes, DataTypes
  <1> QED
    BY <1>1, <1>2, StopInvStep, ControlStep, CounterStep, DataStep, PTL DEF Spec

=============================================================================
