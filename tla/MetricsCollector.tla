-------------------------- MODULE MetricsCollector --------------------------
(***************************************************************************)
(* The metrics collector of a node (metricscollector.go): a map of config  *)
(* sets, each with its plug-in devices (in use or not) and its APQNs       *)
(* (request counter at the start), under one mutex.  Three components      *)
(* write to it, in any order:                                              *)
(*                                                                         *)
(*   - each set's plug-in, at its own pace, tells first its APQNs and then *)
(*     its devices;                                                        *)
(*   - Allocate tells that a device has been handed out, under the set of  *)
(*     its plug-in;                                                        *)
(*   - the pod lister tells which devices containers use, under the set    *)
(*     the current configuration gives the APQN, and which nodes it        *)
(*     destroys.                                                           *)
(*                                                                         *)
(* The collector's own loop drops uses it has not heard of for longer than *)
(* two polls of the pod lister, reads the request counters and sends its   *)
(* report.  A device stands for itself and its APQN (no overcommitment).   *)
(* The node totals of the report are left out: the exporter adds up the    *)
(* sets itself.                                                            *)
(***************************************************************************)
EXTENDS Integers, FiniteSets, Functions

CONSTANTS
    Sets,
    Devs,
    nil,
    PollTime,      \* PlPollTime, in units of the clock
    MaxMoves,      \* bound on changes of the configuration
    MaxRequests,   \* bound on the request counters
    MaxFails       \* bound on failed reads of counters and lost replies

ASSUME SetsAssumption == nil \notin Sets /\ IsFiniteSet(Sets) /\ IsFiniteSet(Devs)
ASSUME NumbersAssumption ==
    /\ PollTime \in Nat \ {0}
    /\ MaxMoves \in Nat /\ MaxRequests \in Nat /\ MaxFails \in Nat

VARIABLES
    owner,        \* the set the current configuration gives each APQN, or nil
    list,         \* p.apqns and p.devices of each set's plug-in
    telling,      \* plug-ins that have told their APQNs but not yet their devices
    holders,      \* the sets under which containers have got each device
    count,        \* request_count of each APQN
    since,        \* time since the last poll of the pod lister
    missed,       \* the last poll failed
    tonotify,     \* the pod lister's round: devices of List's answer to tell of,
    tosweep,      \*   devices that were not in the answer
    known,        \* csetmap: the sets it has,
    plugindevs,   \*   their devices,
    inuse,        \*   which of these are in use
    trcseen,      \*   and when they were last seen to be, as an age,
    apqns,        \*   their APQNs
    start,        \*   with the request counts they started with
    current,      \*   and those read last
    moves, fails,
    seen,         \* the set under which the pod lister has noted a container's use
    first         \* the true request counts when the APQNs were told

env     == <<owner, holders, count, moves>>
plugins == <<list, telling>>
poll    == <<since, missed, tonotify, tosweep>>
usage   == <<plugindevs, inuse, trcseen, seen>>
queues  == <<apqns, start, current, first>>
vars == <<env, plugins, poll, known, usage, queues, fails>>

Mine(s) == {d \in Devs : owner[d] = s}

(* A use not confirmed for more than this time is over.                    *)
Expiry_Once == PollTime   \* mutant
Expiry == 2 * PollTime

-----------------------------------------------------------------------------
(* The queues have served requests before the plug-in starts; a counter    *)
(* that is still zero is to the collector like one it could not read.      *)
Init ==
    /\ owner \in [Devs -> Sets]
    /\ list = [s \in Sets |-> {}]
    /\ telling = {}
    /\ holders = [d \in Devs |-> {}]
    /\ count = [d \in Devs |-> 1]
    /\ since = 0
    /\ missed = FALSE
    /\ tonotify = {}
    /\ tosweep = {}
    /\ known = {}
    /\ plugindevs = [s \in Sets |-> {}]
    /\ inuse = [s \in Sets |-> {}]
    /\ trcseen = [s \in Sets |-> [d \in Devs |-> 0]]
    /\ apqns = [s \in Sets |-> {}]
    /\ start = [s \in Sets |-> [d \in Devs |-> 0]]
    /\ current = [s \in Sets |-> [d \in Devs |-> 0]]
    /\ moves = 0
    /\ fails = 0
    /\ seen = [d \in Devs |-> nil]
    /\ first = [s \in Sets |-> [d \in Devs |-> 0]]

(* The environment: the configuration moves an APQN to another set or to   *)
(* none, the hardware serves a request, a container ends.                  *)
ConfigChange(d) ==
    /\ moves < MaxMoves
    /\ owner' \in {[owner EXCEPT ![d] = s] : s \in (Sets \cup {nil}) \ {owner[d]}}
    /\ moves' = moves + 1
    /\ seen' = [seen EXCEPT ![d] = nil]
    /\ UNCHANGED <<holders, count, plugins, poll, known, plugindevs, inuse, trcseen,
                   queues, fails>>

Request(d) ==
    /\ count[d] < MaxRequests
    /\ count' = [count EXCEPT ![d] = @ + 1]
    /\ UNCHANGED <<owner, holders, moves, plugins, poll, known, usage, queues, fails>>

Release(d) ==
    /\ \E s \in holders[d] : holders' = [holders EXCEPT ![d] = @ \ {s}]
    /\ seen' = IF holders'[d] = {} THEN [seen EXCEPT ![d] = nil] ELSE seen
    /\ UNCHANGED <<owner, count, moves, plugins, poll, known, plugindevs, inuse, trcseen,
                   queues, fails>>

-----------------------------------------------------------------------------
(* apGetQueueRequestCounter: a read that fails counts as zero.  lost are   *)
(* the reads that fail among those of P, pairs of a set and an APQN.       *)
Losses(P) == {lost \in SUBSET P : fails + Cardinality(lost) <= MaxFails}
apGetQueueRequestCounter(lost, s, d) == IF <<s, d>> \in lost THEN 0 ELSE count[d]

(* The plug-in of s tells its APQNs: entries that stay are kept.           *)
MetricsCollAPQNs(s, D) ==
    /\ known' = known \cup {s}
    /\ apqns' = [apqns EXCEPT ![s] = D]
    /\ \E lost \in Losses({s} \X (D \ apqns[s])) :
           /\ start' = [start EXCEPT ![s] = [d \in Devs |->
                  IF d \in D \cap apqns[s] THEN @[d]
                  ELSE IF d \in D THEN apGetQueueRequestCounter(lost, s, d) ELSE 0]]
           /\ fails' = fails + Cardinality(lost)
    /\ current' = [current EXCEPT ![s] = [d \in Devs |-> IF d \in D \cap apqns[s] THEN @[d] ELSE 0]]
    /\ first' = [first EXCEPT ![s] = [d \in Devs |->
           IF d \in D \cap apqns[s] THEN @[d] ELSE IF d \in D THEN count[d] ELSE 0]]

(* It has found its APQNs changed, or starts, or stops.                    *)
tellMetricsCollAboutAPQNs(s) ==
    /\ s \notin telling
    /\ list[s] # Mine(s)
    /\ list' = [list EXCEPT ![s] = Mine(s)]
    /\ MetricsCollAPQNs(s, list'[s])
    /\ telling' = telling \cup {s}
    /\ UNCHANGED <<env, poll, usage>>

MetricsCollPluginDevs(s, D) ==
    /\ plugindevs' = [plugindevs EXCEPT ![s] = D]
    /\ inuse' = [inuse EXCEPT ![s] = @ \cap D]
    /\ trcseen' = [trcseen EXCEPT ![s] = [d \in Devs |-> IF d \in inuse'[s] THEN @[d] ELSE 0]]
    /\ seen' = [d \in Devs |-> IF seen[d] = s /\ d \notin D THEN nil ELSE seen[d]]

tellMetricsCollAboutPluginDevs(s) ==
    /\ s \in telling
    /\ MetricsCollPluginDevs(s, list[s])
    /\ telling' = telling \ {s}
    /\ UNCHANGED <<env, list, poll, known, queues, fails>>

(* A notification that a device of set s is used; it is dropped if the     *)
(* collector does not have the device in the set.                          *)
Has(s, d) == s # nil /\ d \in plugindevs[s]
Used_NoLookup(s, d) ==   \* mutant
    /\ inuse' = [inuse EXCEPT ![s] = @ \cup {d}]
    /\ trcseen' = [trcseen EXCEPT ![s][d] = 0]
Used(s, d) ==
    IF Has(s, d)
      THEN /\ inuse' = [inuse EXCEPT ![s] = @ \cup {d}]
           /\ trcseen' = [trcseen EXCEPT ![s][d] = 0]
      ELSE UNCHANGED <<inuse, trcseen>>

(* Allocate, for a device the plug-in of s has announced and the kubelet   *)
(* may not know to be gone; the kubelet may drop the reply.  To the        *)
(* kubelet the devices of two sets differ.                                 *)
MetricsCollNotifyAboutAlloc(s, d) ==
    /\ s \notin holders[d]
    /\ d \in list[s] \cup plugindevs[s]
    /\ Used(s, d)
    /\ \/ holders' = [holders EXCEPT ![d] = @ \cup {s}] /\ UNCHANGED fails
       \/ fails < MaxFails /\ fails' = fails + 1 /\ UNCHANGED holders
    /\ UNCHANGED <<owner, count, moves, plugins, poll, known, plugindevs, seen, queues>>

-----------------------------------------------------------------------------
(* The pod lister, once per poll time: List answers or fails.              *)
Idle == tonotify = {} /\ tosweep = {}

List ==
    /\ Idle
    /\ since = PollTime
    /\ since' = 0
    /\ \/ /\ tonotify' = {d \in Devs : holders[d] # {}}
          /\ tosweep' = Devs \ tonotify'
          /\ missed' = FALSE
       \/ missed' = TRUE /\ UNCHANGED <<tonotify, tosweep>>
    /\ UNCHANGED <<env, plugins, known, usage, queues, fails>>

(* The set is looked up in the configuration current at that moment.       *)
MetricsCollNotifyAboutRunningContainer(d) ==
    /\ d \in tonotify
    /\ Used(owner[d], d)
    /\ seen' = IF Has(owner[d], d) /\ holders[d] # {}
                 THEN [seen EXCEPT ![d] = owner[d]] ELSE seen
    /\ tonotify' = tonotify \ {d}
    /\ UNCHANGED <<env, plugins, since, missed, tosweep, known, plugindevs, queues,
                   fails>>

(* The node of a device that was not in the answer is destroyed: the first *)
(* set found, in any order, that has the device is told.                   *)
MetricsCollNotifyAboutDestroyNode(d) ==
    /\ tonotify = {}
    /\ d \in tosweep
    /\ \E s \in {t \in Sets : Has(t, d)} :
           /\ inuse' = [inuse EXCEPT ![s] = @ \ {d}]
           /\ trcseen' = [trcseen EXCEPT ![s][d] = 0]
    /\ tosweep' = tosweep \ {d}
    /\ UNCHANGED <<env, plugins, since, missed, tonotify, known, plugindevs, seen, queues,
                   fails>>

(* The other nodes have not expired, or no set has the device.             *)
EndOfRound ==
    /\ tonotify = {}
    /\ tosweep # {}
    /\ tosweep' = {}
    /\ UNCHANGED <<env, plugins, since, missed, tonotify, known, usage, queues, fails>>

-----------------------------------------------------------------------------
(* The collector's loop, under the mutex.                                  *)
Queues == {q \in Sets \X Devs : q[2] \in apqns[q[1]]}

Expire_Never == UNCHANGED inuse   \* mutant
(* Ages count the ticks of a coarse clock, the code's comparison does not: *)
(* a use that is Expiry ticks old is just over the limit, or not quite.    *)
AtLimit == {p \in Sets \X Devs : trcseen[p[1]][p[2]] = Expiry}
Expire ==
    \E over \in SUBSET AtLimit :
        inuse' = [s \in Sets |->
            {d \in inuse[s] : trcseen[s][d] <= Expiry /\ <<s, d>> \notin over}]

ReadCounters_NoStart(lost) ==   \* mutant: a start value that was not read is never set
    /\ current' = [s \in Sets |-> [d \in Devs |->
           IF d \in apqns[s] THEN apGetQueueRequestCounter(lost, s, d) ELSE 0]]
    /\ start' = start
ReadCounters(lost) ==
    /\ current' = [s \in Sets |-> [d \in Devs |->
           IF d \in apqns[s] THEN apGetQueueRequestCounter(lost, s, d) ELSE 0]]
    /\ start' = [s \in Sets |-> [d \in Devs |->
           IF d \in apqns[s] /\ start[s][d] = 0 THEN current'[s][d] ELSE start[s][d]]]

doLoop ==
    /\ Expire
    /\ trcseen' = [s \in Sets |-> [d \in Devs |-> IF d \in inuse'[s] THEN trcseen[s][d] ELSE 0]]
    /\ \E lost \in Losses(Queues) :
           /\ ReadCounters(lost)
           /\ fails' = fails + Cardinality(lost)
    /\ UNCHANGED <<env, plugins, poll, known, plugindevs, seen, apqns, first>>

(* The report that doLoop sends, made of the state it leaves behind.       *)
prepPromExpData ==
    [s \in known |->
        [total    |-> Cardinality(plugindevs[s]),
         used     |-> Cardinality(inuse[s]),
         requests |-> SumFunctionOnSet([d \in Devs |-> current[s][d] - start[s][d]],
                                      apqns[s])]]

(* Time: a round of the pod lister takes less than a unit, and its ticker  *)
(* does not wait.  When an answer is due after one that was missing, the   *)
(* uses noted before are two poll times old.                               *)
Tick ==
    /\ Idle
    /\ since < PollTime
    /\ since' = since + 1
    /\ trcseen' = [s \in Sets |-> [d \in Devs |->
           IF d \notin inuse[s] THEN 0
           ELSE IF trcseen[s][d] > Expiry THEN Expiry + 1 ELSE trcseen[s][d] + 1]]
    /\ seen' = IF missed /\ since' = PollTime THEN [d \in Devs |-> nil] ELSE seen
    /\ UNCHANGED <<env, plugins, missed, tonotify, tosweep, known, plugindevs, inuse,
                   queues, fails>>

Next ==
    \/ \E d \in Devs : \/ ConfigChange(d) \/ Request(d) \/ Release(d)
                       \/ MetricsCollNotifyAboutRunningContainer(d)
                       \/ MetricsCollNotifyAboutDestroyNode(d)
                       \/ \E s \in Sets : MetricsCollNotifyAboutAlloc(s, d)
    \/ \E s \in Sets : tellMetricsCollAboutAPQNs(s) \/ tellMetricsCollAboutPluginDevs(s)
    \/ List
    \/ EndOfRound
    \/ doLoop
    \/ Tick

Spec == Init /\ [][Next]_vars

(* Time passes, the tickers of pod lister and collector fire, the pod      *)
(* lister ends its rounds, and the plug-ins check their APQNs.             *)
Fairness ==
    /\ WF_vars(Tick)
    /\ WF_vars(List)
    /\ \A d \in Devs : WF_vars(MetricsCollNotifyAboutRunningContainer(d))
    /\ WF_vars(EndOfRound)
    /\ WF_vars(doLoop)
    /\ \A s \in Sets : /\ WF_vars(tellMetricsCollAboutAPQNs(s))
                       /\ WF_vars(tellMetricsCollAboutPluginDevs(s))

FairSpec == Spec /\ Fairness

-----------------------------------------------------------------------------
(* Types and bounds: what is in use is one of the set's devices.           *)
TypeOK ==
    /\ owner \in [Devs -> Sets \cup {nil}]
    /\ list \in [Sets -> SUBSET Devs] /\ telling \subseteq known
    /\ holders \in [Devs -> SUBSET Sets]
    /\ count \in [Devs -> Nat]
    /\ since \in 0 .. PollTime /\ missed \in BOOLEAN
    /\ tonotify \subseteq Devs /\ tosweep \subseteq Devs
    /\ known \subseteq Sets
    /\ plugindevs \in [Sets -> SUBSET Devs]
    /\ inuse \in [Sets -> SUBSET Devs]
    /\ \A s \in Sets : inuse[s] \subseteq plugindevs[s] /\ (plugindevs[s] # {} => s \in known)
    /\ trcseen \in [Sets -> [Devs -> 0 .. Expiry + 1]]
    /\ apqns \in [Sets -> SUBSET Devs]
    /\ start \in [Sets -> [Devs -> Nat]] /\ current \in [Sets -> [Devs -> Nat]]
    /\ first \in [Sets -> [Devs -> Nat]]
    /\ seen \in [Devs -> Sets \cup {nil}]
    /\ moves \in 0 .. MaxMoves /\ fails \in 0 .. MaxFails

(* A container that the pod lister has found is counted in every report    *)
(* while it runs, its APQN stays in the set and the kubelet answers; after *)
(* a missing answer, until the next one is due, and from then on when that *)
(* one has been told.  What else is allocated, destroyed or told meanwhile *)
(* makes no difference (metricscollector.go:322-329).                      *)
RunningIsCounted == \A d \in Devs : seen[d] # nil => d \in inuse[seen[d]]

(* Counts settle.  A device is eventually counted in the set that has it   *)
(* now and in no other; one that stays unused is eventually in use in no   *)
(* set; one that stays in use is, if the kubelet answers, eventually in    *)
(* use in the set it belongs to now, and no longer in the set it was       *)
(* allocated from (metricscollector.go:194-206, 241, 324;                  *)
(* podlister.go:241-253).                                                  *)
UseSettles ==
    \A d \in Devs :
        /\ <>[](holders[d] = {}) => <>[](\A s \in Sets : d \notin inuse[s])
        /\ \A s \in Sets :
               /\ <>[](owner[d] = s)
                      => <>[](\A t \in Sets : d \in plugindevs[t] <=> t = s)
               /\ <>[](owner[d] = s /\ holders[d] # {} /\ ~missed)
                      => <>[](\A t \in Sets : d \in inuse[t] <=> t = s)

(* A reported request count is never more than the requests served since   *)
(* the APQNs were told, also if a counter could not be read then, and it   *)
(* is not negative unless a counter could not be read for this very report *)
(* (metricscollector.go:168, 332-335, 372).                                *)
RequestsAreReal ==
    [][doLoop =>
           LET report == prepPromExpData' IN
           \A s \in known :
               /\ report[s].requests <=
                      SumFunctionOnSet([d \in Devs |-> count[d] - first[s][d]], apqns[s])
               /\ fails' = fails => report[s].requests >= 0]_vars

=============================================================================
