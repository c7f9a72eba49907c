---------------------- MODULE ResourceLifecycle_proofs ----------------------
(***************************************************************************)
(* Why the pod lister never takes the resources of a newly allocated       *)
(* device: an inductive invariant that relates the age of the pod lister's *)
(* entries to the time the Allocate call has been running.                 *)
(***************************************************************************)
EXTENDS ResourceLifecycle, TLAPS

(* An entry made since the Allocate call of b clock units ago began.       *)
Young(e, b) == e.st = "none" \/ (e.st = "unused" /\ e.age <= b)

(* unknown holds devices past the existence test of Allocate only.         *)
UnknownIsPastCheck == \A d \in unknown : alloc[d] \notin {"free", "check"}

(* While the call is in flight the pod lister's entries are its own age.   *)
InFlightIsYoung ==
    \A d \in unknown :
        InFlight(d) => /\ Young(zcryptnodemap[d], busy[d])
                       /\ Young(sysfsshadowmap[d], busy[d])

(* What the sweep would destroy is neither listed nor newly allocated.     *)
SweepSpares ==
    lister \in Sweeping =>
        \A d \in Devices :
            d \in listed \/ (d \in unknown /\ alloc[d] = "held")
                => ~Expired(zcryptnodemap[d]) /\ ~Expired(sysfsshadowmap[d])

(* What a newly allocated device has at each stage.                        *)
UnknownHasResources ==
    \A d \in unknown :
        /\ node[d] # "absent"
        /\ alloc[d] = "build" => shadow[d] = "partial"
        /\ alloc[d] \in {"live", "reply", "held"} => shadow[d] \in Built

(* Without faults only the handler that made a node leaves it bare.        *)
BareIsBeingConfigured ==
    faults = 0 => \A d \in Devices : node[d] = "bare" => alloc[d] = "configure"

IInv ==
    /\ TypeOK
    /\ UnknownIsPastCheck
    /\ InFlightIsYoung
    /\ SweepSpares
    /\ UnknownHasResources
    /\ BareIsBeingConfigured

-----------------------------------------------------------------------------
(* The two maps' operations keep the type of a map.                        *)
LEMMA BookTypes ==
    ASSUME NEW book \in [Devices -> Entry], NEW used, NEW present
    PROVE  /\ Known(book, present) \in [Devices -> Entry]
           /\ Refreshed(book, used) \in [Devices -> Entry]
           /\ [d \in Devices |-> Older(book[d])] \in [Devices -> Entry]
           /\ \A d : [book EXCEPT ![d] = NoEntry] \in [Devices -> Entry]
  <1>1. /\ NoEntry \in Entry
        /\ FirstSeen \in Entry
        /\ SeenInUse \in Entry
    BY DEF NoEntry, FirstSeen, SeenInUse, Entry
  <1>2. ASSUME NEW e \in Entry
        PROVE  Older(e) \in Entry
    BY DEF Older, Entry
  <1> QED
    BY <1>1, <1>2 DEF Known, Refreshed

(* A young entry stays young when time passes for it and for the call.     *)
LEMMA YoungStaysYoung ==
    ASSUME NEW e \in Entry, NEW b \in Nat, Young(e, b)
    PROVE  Young(Older(e), b + 1)
  BY DEF Young, Older, Entry

(* An Allocate call ends before an entry made during it can expire.        *)
LEMMA YoungIsNotExpired ==
    ASSUME NEW e \in Entry, NEW b \in 0 .. AllocTime, Young(e, b)
    PROVE  ~Expired(e)
  BY TimeAssumption DEF Young, Expired, Timeout, Entry

-----------------------------------------------------------------------------
(* Every step keeps the types.                                             *)
LEMMA TypeStep == TypeOK /\ [Next]_vars => TypeOK'
  <1> SUFFICES ASSUME TypeOK, [Next]_vars PROVE TypeOK'
    OBVIOUS
  <1> USE DEF TypeOK
  <1>1. ASSUME NEW d \in Devices, Kubelet(d) PROVE TypeOK'
    BY <1>1, TimeAssumption DEF Kubelet, Request, Record, ReplyLost, Release, Advance, GiveUp,
        KubeletUnchanged, books, AllocState, Stages
  <1>2. ASSUME NEW d \in Devices, NEW from, Abort(d, from),
               shadow' \in [Devices -> ShadowState], AllocateUnchanged
        PROVE  TypeOK'
    BY <1>2, TimeAssumption, FaultAssumption DEF Abort, GiveUp, Advance, AllocateUnchanged, books,
        zcryptDestroyNode, Destroy, Fault, NoFault, NodeState, AllocState, Stages
  <1>3. ASSUME NEW d \in Devices, NEW from, NEW to \in AllocState,
               Advance(d, from, to), UNCHANGED busy, faults' \in 0 .. MaxFaults,
               AllocateUnchanged,
               node' \in [Devices -> NodeState],
               shadow' \in [Devices -> ShadowState], unknown' \in SUBSET Devices
        PROVE  TypeOK'
    BY <1>3 DEF Advance, AllocateUnchanged, books
  <1>4. ASSUME NEW d \in Devices, Allocate(d) PROVE TypeOK'
    <2> USE DEF AllocState, Stages, NodeState, ShadowState, Built, Proceed, NoFault
    <2>1. CASE CheckNode(d)
      BY <1>2, <1>3, <2>1 DEF CheckNode, NoteUnknown
    <2>2. CASE ConfigureNode(d)
      BY <1>2, <1>3, <2>2 DEF ConfigureNode
    <2>3. CASE BeginShadow(d)
      BY <1>2, <1>3, <2>3 DEF BeginShadow
    <2>4. CASE EndShadow(d)
      BY <1>2, <1>3, <2>4, FaultAssumption DEF EndShadow, Fault
    <2>5. CASE LiveMounts(d)
      BY <1>2, <1>3, <2>5 DEF LiveMounts
    <2> QED
      BY <1>4, <2>1, <2>2, <2>3, <2>4, <2>5 DEF Allocate
  <1>5. CASE PodLister
    <2> USE FaultAssumption DEF ListerUnchanged, Goto, Fault, NoFault, ListerState,
            Sweeping, ConState, books
    <2>1. CASE Poll
      BY <2>1 DEF Poll, connect
    <2>2. CASE ScanNodes
      BY <2>2, BookTypes DEF ScanNodes
    <2>3. CASE ScanShadows
      BY <2>3, BookTypes DEF ScanShadows
    <2>4. CASE List
      BY <2>4, BookTypes DEF List, Held
    <2>5. CASE SweepNodesDone \/ SweepShadowsDone
      BY <2>5 DEF SweepNodesDone, SweepShadowsDone
    <2>6. ASSUME NEW d \in Devices, SweepNode(d) PROVE TypeOK'
      BY <2>6, BookTypes DEF SweepNode, zcryptDestroyNode, Destroy, NodeState
    <2>7. ASSUME NEW d \in Devices, SweepShadow(d) PROVE TypeOK'
      BY <2>7, BookTypes DEF SweepShadow, delShadowSysfs, Destroy, ShadowState
    <2> QED
      BY <1>5, <2>1, <2>2, <2>3, <2>4, <2>5, <2>6, <2>7 DEF PodLister
  <1>6. CASE Crash
    BY <1>6, TimeAssumption, FaultAssumption DEF Crash, Fault, AllocState, Entry, NoEntry, ListerState,
        ConState, Held
  <1>7. CASE Tick
    BY <1>7, BookTypes, TimeAssumption DEF Tick
  <1>8. CASE UNCHANGED vars
    BY <1>8 DEF vars, books
  <1> QED
    BY <1>1, <1>4, <1>5, <1>6, <1>7, <1>8 DEF Next

(* All variables stay within their types in every behaviour of the         *)
(* allocation, the pod lister, crashes and the passing of time.            *)
THEOREM TypeCorrect == Spec => []TypeOK
  <1>1. Init => TypeOK
    BY TimeAssumption, FaultAssumption DEF Init, TypeOK, NodeState, ShadowState, Built,
        AllocState, Entry, NoEntry, ListerState, ConState
  <1> QED
    BY <1>1, TypeStep, PTL DEF Spec

-----------------------------------------------------------------------------
(* The initial state satisfies the invariant: nothing is allocated.        *)
LEMMA InvInit == Init => IInv
  <1> SUFFICES ASSUME Init PROVE IInv
    OBVIOUS
  <1>1. TypeOK
    BY TimeAssumption, FaultAssumption DEF Init, TypeOK, NodeState, ShadowState, Built,
        AllocState, Entry, NoEntry, ListerState, ConState
  <1>2. UnknownIsPastCheck /\ InFlightIsYoung /\ UnknownHasResources
    BY DEF Init, UnknownIsPastCheck, InFlightIsYoung, UnknownHasResources
  <1>3. SweepSpares /\ BareIsBeingConfigured
    BY DEF Init, SweepSpares, Sweeping, BareIsBeingConfigured
  <1> QED
    BY <1>1, <1>2, <1>3 DEF IInv

(* The kubelet's steps keep it.  Recording an allocation in the middle of  *)
(* a sweep is the delicate one: the device was not listed, and only its    *)
(* young entries protect it.                                               *)
LEMMA KubeletStep ==
    ASSUME IInv, TypeOK', NEW d \in Devices, Kubelet(d)
    PROVE  IInv'
  <1> USE DEF IInv, TypeOK
  <1>1. UnknownIsPastCheck'
    BY DEF UnknownIsPastCheck, Kubelet, Request, Record, ReplyLost, Release,
        Advance, GiveUp
  <1>2. InFlightIsYoung'
    BY DEF InFlightIsYoung, UnknownIsPastCheck, InFlight, Stages, Kubelet, Request,
        Record, ReplyLost, Release, Advance, GiveUp, KubeletUnchanged, books
  <1>3. SweepSpares'
    <2>1. CASE Record(d)
      <3>1. d \in unknown => ~Expired(zcryptnodemap[d]) /\ ~Expired(sysfsshadowmap[d])
        BY <2>1, YoungIsNotExpired DEF Record, Advance, InFlightIsYoung, InFlight, Stages
      <3> QED
        BY <2>1, <3>1 DEF SweepSpares, Record, Advance, KubeletUnchanged, books
    <2>2. CASE Request(d) \/ ReplyLost(d) \/ Release(d)
      BY <2>2 DEF SweepSpares, Request, ReplyLost, Release, Advance, GiveUp,
          KubeletUnchanged, books
    <2> QED
      BY <2>1, <2>2 DEF Kubelet
  <1>4. UnknownHasResources'
    BY DEF UnknownHasResources, UnknownIsPastCheck, Kubelet, Request, Record, ReplyLost,
        Release, Advance, GiveUp, KubeletUnchanged
  <1>5. BareIsBeingConfigured'
    BY DEF BareIsBeingConfigured, Kubelet, Request, Record, ReplyLost, Release,
        Advance, GiveUp, KubeletUnchanged
  <1> QED
    BY <1>1, <1>2, <1>3, <1>4, <1>5

(* The error returns of Allocate keep it.                                  *)
LEMMA AbortStep ==
    ASSUME IInv, TypeOK', NEW d \in Devices, NEW from, from \in Stages,
           Abort(d, from), AllocateUnchanged,
           \A o \in Devices : o # d => shadow'[o] = shadow[o]
    PROVE  IInv'
  <1> USE DEF IInv, TypeOK, Abort, GiveUp, Advance, AllocateUnchanged, books
  <1>1. \A o \in Devices : o # d => node'[o] = node[o] /\ alloc'[o] = alloc[o]
    BY DEF zcryptDestroyNode, Destroy
  <1>2. UnknownIsPastCheck' /\ UnknownHasResources'
    BY <1>1 DEF UnknownIsPastCheck, UnknownHasResources
  <1>3. InFlightIsYoung'
    BY <1>1 DEF InFlightIsYoung, InFlight
  <1>4. SweepSpares'
    BY <1>1 DEF SweepSpares, Stages
  <1>5. BareIsBeingConfigured'
    BY <1>1 DEF BareIsBeingConfigured, zcryptDestroyNode, Destroy, Fault, NoFault
  <1> QED
    BY <1>2, <1>3, <1>4, <1>5

(* Allocate keeps it: each stage establishes what the next one relies on.  *)
LEMMA AllocateStep ==
    ASSUME IInv, TypeOK', NEW d \in Devices, Allocate(d)
    PROVE  IInv'
  <1> USE DEF IInv, TypeOK
  <1>1. ASSUME NEW from, NEW to \in Stages \ {"check"}, from \in Stages,
               Advance(d, from, to), UNCHANGED busy, NoFault \/ Fault,
               AllocateUnchanged,
               \A o \in Devices : o # d => node'[o] = node[o] /\ shadow'[o] = shadow[o],
               IF from = "check" THEN NoteUnknown(d) ELSE UNCHANGED unknown,
               node[d] # "absent" \/ from = "check" => node'[d] # "absent",
               to = "build" => shadow'[d] = "partial",
               from = "build" /\ shadow[d] = "partial" => shadow'[d] \in Built,
               to = "live" => from = "build",
               to = "reply" => from = "live" /\ shadow'[d] = shadow[d],
               node'[d] = "bare" => node[d] = "bare" \/ to = "configure",
               from = "configure" => node'[d] = "ready"
        PROVE  IInv'
    <2> USE <1>1 DEF Advance, AllocateUnchanged, books
    <2>1. UnknownIsPastCheck'
      BY DEF UnknownIsPastCheck, NoteUnknown, Stages
    <2>2. InFlightIsYoung'
      BY DEF InFlightIsYoung, InFlight, NoteUnknown, Young
    <2>3. SweepSpares'
      BY DEF SweepSpares, NoteUnknown, Expired, Stages
    <2>4. UnknownHasResources'
      BY DEF UnknownHasResources, NoteUnknown, Stages
    <2>5. BareIsBeingConfigured'
      BY FaultAssumption DEF BareIsBeingConfigured, Fault, NoFault
    <2> QED
      BY <2>1, <2>2, <2>3, <2>4, <2>5
  <1> USE AbortStep DEF Stages, Proceed, Advance
  <1>2. CASE CheckNode(d)
    BY <1>1, <1>2 DEF CheckNode
  <1>3. CASE ConfigureNode(d)
    BY <1>1, <1>3 DEF ConfigureNode
  <1>4. CASE BeginShadow(d)
    <2>1. CASE Abort(d, "mkshadow")
      BY <1>4, <2>1 DEF BeginShadow
    <2>2. CASE Proceed(d, "mkshadow", "build")
      BY <1>1, <1>4, <2>2 DEF BeginShadow, Abort, GiveUp
    <2> QED
      BY <1>4, <2>1, <2>2 DEF BeginShadow
  <1>5. CASE EndShadow(d)
    <2>1. CASE Abort(d, "build")
      BY <1>5, <2>1 DEF EndShadow
    <2>2. CASE Advance(d, "build", "live")
      BY <1>1, <1>5, <2>2 DEF EndShadow, Abort, GiveUp, Built
    <2> QED
      BY <1>5, <2>1, <2>2 DEF EndShadow
  <1>6. CASE LiveMounts(d)
    <2>1. CASE Abort(d, "live")
      BY <1>6, <2>1 DEF LiveMounts
    <2>2. CASE Proceed(d, "live", "reply")
      BY <1>1, <1>6, <2>2 DEF LiveMounts, Abort, GiveUp
    <2> QED
      BY <1>6, <2>1, <2>2 DEF LiveMounts
  <1> QED
    BY <1>2, <1>3, <1>4, <1>5, <1>6 DEF Allocate

(* The pod lister keeps it: a scan makes young entries only, the answer of *)
(* List refreshes every container's entries before the sweep begins, and   *)
(* the sweep destroys expired entries only.                                *)
LEMMA PodListerStep ==
    ASSUME IInv, TypeOK', PodLister
    PROVE  IInv'
  <1> USE DEF IInv, TypeOK, ListerUnchanged
  <1>1. UnknownIsPastCheck'
    BY DEF UnknownIsPastCheck, PodLister, Poll, ScanNodes, ScanShadows, List,
        SweepNodesDone, SweepShadowsDone, SweepNode, SweepShadow
  <1>2. CASE Poll
    BY <1>1, <1>2 DEF Poll, connect, Goto, Sweeping, books, Fault, NoFault, InFlightIsYoung,
        InFlight, SweepSpares, UnknownHasResources, BareIsBeingConfigured
  <1>3. ASSUME NEW book \in [Devices -> Entry], NEW present, NEW d \in Devices,
               Young(book[d], busy[d])
        PROVE  Young(Known(book, present)[d], busy[d])
    BY <1>3 DEF Young, Known, FirstSeen, Entry
  <1>4. CASE ScanNodes \/ ScanShadows
    <2> USE <1>4 DEF ScanNodes, ScanShadows, Goto
    <2>1. InFlightIsYoung'
      BY <1>3 DEF InFlightIsYoung, InFlight
    <2>2. SweepSpares'
      BY DEF SweepSpares, Sweeping
    <2>3. UnknownHasResources' /\ BareIsBeingConfigured'
      BY DEF UnknownHasResources, BareIsBeingConfigured, Fault, NoFault
    <2> QED
      BY <1>1, <2>1, <2>2, <2>3
  <1>5. CASE List
    <2> USE <1>5 DEF List, Goto
    <2>1. InFlightIsYoung'
      BY DEF InFlightIsYoung, InFlight, Refreshed, Held, Stages, books
    <2>2. SweepSpares'
      BY TimeAssumption DEF SweepSpares, Sweeping, Refreshed, Held, Expired, Timeout,
          SeenInUse, Entry
    <2>3. UnknownHasResources' /\ BareIsBeingConfigured'
      BY DEF UnknownHasResources, BareIsBeingConfigured, Fault, NoFault
    <2> QED
      BY <1>1, <2>1, <2>2, <2>3
  <1>6. CASE SweepNodesDone \/ SweepShadowsDone
    BY <1>1, <1>6 DEF SweepNodesDone, SweepShadowsDone, Goto, Sweeping, books, InFlightIsYoung,
        InFlight, SweepSpares, UnknownHasResources, BareIsBeingConfigured
  <1>7. ASSUME NEW d \in unknown, lister \in Sweeping
        PROVE  ~Expired(zcryptnodemap[d]) /\ ~Expired(sysfsshadowmap[d])
    <2>1. CASE InFlight(d)
      BY <1>7, <2>1, YoungIsNotExpired DEF InFlightIsYoung
    <2>2. CASE alloc[d] = "held"
      BY <1>7, <2>2 DEF SweepSpares
    <2> QED
      BY <1>7, <2>1, <2>2 DEF UnknownIsPastCheck, InFlight, AllocState
  <1>8. ASSUME NEW d \in Devices, SweepNode(d) \/ SweepShadow(d)
        PROVE  IInv'
    <2> USE <1>8 DEF SweepNode, SweepShadow, zcryptDestroyNode, delShadowSysfs, Destroy
    <2>1. InFlightIsYoung'
      BY DEF InFlightIsYoung, InFlight, Young, NoEntry
    <2>2. SweepSpares'
      BY DEF SweepSpares, Expired, NoEntry
    <2>3. d \notin unknown
      BY <1>7 DEF Sweeping
    <2>4. UnknownHasResources' /\ BareIsBeingConfigured'
      BY <2>3 DEF UnknownHasResources, BareIsBeingConfigured, Fault, NoFault
    <2> QED
      BY <1>1, <2>1, <2>2, <2>4
  <1> QED
    BY <1>2, <1>4, <1>5, <1>6, <1>8 DEF PodLister

(* A crash forgets the calls in flight, and with them what they relied on. *)
LEMMA CrashStep ==
    ASSUME IInv, TypeOK', Crash
    PROVE  IInv'
  <1> USE DEF IInv, TypeOK, Crash
  <1>1. UnknownIsPastCheck' /\ InFlightIsYoung'
    BY DEF UnknownIsPastCheck, InFlightIsYoung, InFlight, Stages, Held
  <1>2. SweepSpares' /\ BareIsBeingConfigured'
    BY FaultAssumption DEF SweepSpares, Sweeping, BareIsBeingConfigured, Fault
  <1>3. UnknownHasResources'
    BY DEF UnknownHasResources, InFlight, Stages, Held
  <1> QED
    BY <1>1, <1>2, <1>3

(* Time passes for the entries and for the calls in flight alike.          *)
LEMMA TickStep ==
    ASSUME IInv, TypeOK', Tick
    PROVE  IInv'
  <1> USE DEF IInv, TypeOK, Tick
  <1>1. InFlightIsYoung'
    BY YoungStaysYoung DEF InFlightIsYoung, InFlight
  <1>2. UnknownIsPastCheck' /\ SweepSpares' /\ UnknownHasResources' /\ BareIsBeingConfigured'
    BY DEF UnknownIsPastCheck, SweepSpares, UnknownHasResources, BareIsBeingConfigured
  <1> QED
    BY <1>1, <1>2

(* The invariant is inductive.                                             *)
LEMMA InvStep == IInv /\ [Next]_vars => IInv'
  <1> SUFFICES ASSUME IInv, [Next]_vars PROVE IInv'
    OBVIOUS
  <1>1. TypeOK'
    BY TypeStep DEF IInv
  <1>2. CASE UNCHANGED vars
    BY <1>1, <1>2 DEF vars, books, IInv, UnknownIsPastCheck, InFlightIsYoung, InFlight,
        SweepSpares, UnknownHasResources, BareIsBeingConfigured
  <1> QED
    BY <1>1, <1>2, KubeletStep, AllocateStep, PodListerStep, CrashStep, TickStep DEF Next

(* IInv holds in every reachable state, for any number of devices, any     *)
(* timeouts with AllocTime <= IfUnused and any number of faults.           *)
THEOREM Invariant == Spec => []IInv
  BY InvInit, InvStep, PTL DEF Spec

(* A container whose device was unknown to the pod lister when Allocate    *)
(* began keeps its node and its shadow as long as it runs.                 *)
THEOREM UnknownDevicesAreSafe == Spec => []UnknownDeviceIsSafe
  <1>1. IInv => UnknownDeviceIsSafe
    BY DEF IInv, UnknownHasResources, UnknownDeviceIsSafe
  <1> QED
    BY <1>1, Invariant, PTL

(* As long as nothing crashes and no destroy is refused, no container is   *)
(* given a node whose masks Allocate has not written.                      *)
THEOREM NodesAreConfigured == Spec => []NoBareNodeHandedOut
  <1>1. IInv => NoBareNodeHandedOut
    BY DEF IInv, BareIsBeingConfigured, NoBareNodeHandedOut
  <1> QED
    BY <1>1, Invariant, PTL

(* Only a sweep can take a running container's resources, and never those  *)
(* of a device the kubelet's answer named.                                 *)
THEOREM LossesAreUnlisted == Spec => LossOnlyWhenUnlisted
  <1>1. IInv /\ [Next]_vars =>
            [\A d \in Devices :
                alloc[d] = "held" /\ (node'[d] # node[d] \/ shadow'[d] # shadow[d])
                    => lister \in Sweeping /\ d \notin listed]_vars
    <2> SUFFICES ASSUME IInv, Next, NEW d \in Devices, alloc[d] = "held",
                        node'[d] # node[d] \/ shadow'[d] # shadow[d]
                 PROVE  lister \in Sweeping /\ d \notin listed
      OBVIOUS
    <2> USE DEF IInv, TypeOK
    <2>1. ASSUME NEW o \in Devices, Kubelet(o) PROVE FALSE
      BY <2>1 DEF Kubelet, Request, Record, ReplyLost, Release, KubeletUnchanged
    <2>2. ASSUME NEW o \in Devices, Allocate(o) PROVE FALSE
      BY <2>2 DEF Allocate, CheckNode, ConfigureNode, BeginShadow, EndShadow, LiveMounts,
          Proceed, Abort, GiveUp, Advance, zcryptDestroyNode, Destroy
    <2>3. ASSUME NEW o \in Devices, SweepNode(o) \/ SweepShadow(o)
          PROVE  lister \in Sweeping /\ d \notin listed
      BY <2>3 DEF SweepNode, SweepShadow, zcryptDestroyNode, delShadowSysfs, Destroy,
          Sweeping, SweepSpares
    <2>4. Poll \/ ScanNodes \/ ScanShadows \/ List \/ SweepNodesDone \/ SweepShadowsDone
              \/ Crash \/ Tick => FALSE
      BY DEF Poll, ScanNodes, ScanShadows, List, SweepNodesDone, SweepShadowsDone, Crash, Tick
    <2> QED
      BY <2>1, <2>2, <2>3, <2>4 DEF Next, PodLister
  <1> QED
    BY <1>1, Invariant, PTL DEF Spec, LossOnlyWhenUnlisted

=============================================================================
