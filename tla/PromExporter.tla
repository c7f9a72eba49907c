---------------------------- MODULE PromExporter ----------------------------
(***************************************************************************)
(* The CEX Prometheus exporter of the cluster (cex-prometheus-exporter):   *)
(* a connection handler per push of a node (collector.go), the store of    *)
(* the latest report of every node and the aggregate of these              *)
(* (disposer.go), and the loop that sets the gauges (promstuff.go).        *)
(*                                                                         *)
(* A handler works in three critical sections: it stores the report (node  *)
(* lock), purges old reports and adds up the others (node lock), and       *)
(* publishes the result (cluster lock).  Handlers overtake one another, of *)
(* the same node too: a node is answered before its report is stored.      *)
(*                                                                         *)
(* The three numbers of a report are treated alike; a report here is a     *)
(* function from the config sets it lists to one number.  A unit of time   *)
(* is the interval in which each node pushes (mcPollTime).                 *)
(***************************************************************************)
EXTENDS Integers, FiniteSets, Functions

CONSTANTS
    Nodes,
    Reports,      \* what each node may report: functions from config sets to numbers
    MaxConns,     \* bound on the connections handled at a time
    Lifetime,     \* the 60 seconds after which a report is purged, in units of time
    MaxPushes,    \* bound on the pushes of a node in a unit of time
    MaxLosses,    \* bound on the pushes of a node that fail in a row
    MaxChanges,   \* bound on changes of reports, crashes and restarts
    nil

\* A request count is negative when a counter could not be read.
ASSUME ReportsAssumption ==
    /\ IsFiniteSet(Nodes)
    /\ \A r \in UNION {Reports[m] : m \in Nodes} :
           IsFiniteSet(DOMAIN r) /\ \A s \in DOMAIN r : r[s] \in Int
ASSUME TimeAssumption ==
    /\ Lifetime \in Nat /\ MaxLosses \in Nat /\ MaxChanges \in Nat
    /\ MaxPushes \in Nat \ {0} /\ MaxConns \in Nat \ {0}

VARIABLES
    phase,             \* of each node: "down", "new" or "up" (a report is stored)
    data,              \* what each node reports now
    pushed,            \* the pushes of each node in this unit of time
    losses,            \* their pushes that have failed in a row
    step,              \* of each handler: "idle", or what it does next,
    from,              \*   the node it serves
    carries,           \*   and the report or aggregate it has in hand
    node_mc_data,      \* per node with a stored report: the report and its age
    Cluster_mc_data,   \* the published aggregate, nil at first
    loop,              \* promLoop: "sleep", or its step under the cluster lock
    late,              \* ten minutes have passed since the exporter's start
    total,             \* the gauge of the total
    gauges,            \* the gauges of the config sets that have one
    changes

nodes   == <<phase, data, pushed, losses>>
handler == <<step, from, carries>>
prom    == <<loop, late, total, gauges>>
vars == <<nodes, handler, node_mc_data, Cluster_mc_data, prom, changes>>

SetsOf(R) == UNION {DOMAIN r : r \in R}
AllReports == UNION {Reports[n] : n \in Nodes}
AllSets == SetsOf(AllReports)
Empty == [s \in {} |-> 0]

Handlers == 1 .. MaxConns

-----------------------------------------------------------------------------
(* updateClusterMcData: the reports of the nodes that d has, added up per  *)
(* config set, and the sum of these.                                       *)
Aggregate(d) ==
    [s \in SetsOf({d[n] : n \in DOMAIN d}) |->
        SumFunction([n \in {m \in DOMAIN d : s \in DOMAIN d[m]} |-> d[n][s]])]
Total(a) == SumFunction(a)

(* Ages count units of a coarse clock, the code's comparison does not: of  *)
(* the reports that are Lifetime units old some may be over the limit.     *)
AtLimit(mc) == {m \in DOMAIN mc : mc[m].age = Lifetime}
Purged_Early(mc, over) == [n \in {m \in DOMAIN mc : mc[m].age + 1 < Lifetime} |-> mc[n]]   \* mutant
Purged(mc, over) == [n \in {m \in DOMAIN mc : mc[m].age <= Lifetime} \ over |-> mc[n]]

-----------------------------------------------------------------------------
Init ==
    /\ phase = [n \in Nodes |-> "new"]
    /\ data \in {d \in [Nodes -> AllReports] : \A n \in Nodes : d[n] \in Reports[n]}
    /\ pushed = [n \in Nodes |-> 0]
    /\ losses = [n \in Nodes |-> 0]
    /\ step = [h \in Handlers |-> "idle"]
    /\ from = [h \in Handlers |-> nil]
    /\ carries = [h \in Handlers |-> nil]
    /\ node_mc_data = Empty
    /\ Cluster_mc_data = nil
    /\ loop = "sleep"
    /\ late = FALSE
    /\ total = 0
    /\ gauges = Empty
    /\ changes = 0

(* A node pushes its report (twice in a row if a slow push has made its    *)
(* ticker late), and it is read, parsed and answered ...                   *)
handleConnection(n, h) ==
    /\ phase[n] # "down"
    /\ pushed[n] < MaxPushes
    /\ step[h] = "idle" /\ \A i \in 1 .. h - 1 : step[i] # "idle"
    /\ step' = [step EXCEPT ![h] = "store"]
    /\ from' = [from EXCEPT ![h] = n]
    /\ carries' = [carries EXCEPT ![h] = data[n]]
    /\ pushed' = [pushed EXCEPT ![n] = @ + 1]
    /\ losses' = [losses EXCEPT ![n] = 0]
    /\ UNCHANGED <<phase, data, node_mc_data, Cluster_mc_data, prom, changes>>

(* ... or one of these fails and the report is dropped.                    *)
PushFails(n) ==
    /\ phase[n] # "down"
    /\ pushed[n] = 0
    /\ losses[n] < MaxLosses
    /\ pushed' = [pushed EXCEPT ![n] = @ + 1]
    /\ losses' = [losses EXCEPT ![n] = @ + 1]
    /\ UNCHANGED <<phase, data, handler, node_mc_data, Cluster_mc_data, prom, changes>>

dpStoreNodeMetricsData_OneKey(h) ==   \* mutant: the key does not tell nodes apart
    LET n == CHOOSE m \in Nodes : TRUE IN
    /\ step[h] = "store"
    /\ node_mc_data' = [m \in {n} |-> [report |-> carries[h], age |-> 0]]
    /\ step' = [step EXCEPT ![h] = "update"]
    /\ carries' = [carries EXCEPT ![h] = nil]
    /\ UNCHANGED from
    /\ UNCHANGED <<nodes, Cluster_mc_data, prom, changes>>
dpStoreNodeMetricsData_TimeOnly(h) ==   \* mutant: a known node's report is only made young again
    LET n == from[h] IN
    /\ step[h] = "store"
    /\ node_mc_data' = [m \in DOMAIN node_mc_data \cup {n} |->
           IF m \in DOMAIN node_mc_data
           THEN [node_mc_data[m] EXCEPT !.age = IF m = n THEN 0 ELSE @]
           ELSE [report |-> carries[h], age |-> 0]]
    /\ step' = [step EXCEPT ![h] = "update"]
    /\ carries' = [carries EXCEPT ![h] = nil]
    /\ UNCHANGED from
    /\ phase' = [phase EXCEPT ![n] = IF @ = "new" THEN "up" ELSE @]
    /\ UNCHANGED <<data, pushed, losses, Cluster_mc_data, prom, changes>>
dpStoreNodeMetricsData(h) ==
    LET n == from[h] IN
    /\ step[h] = "store"
    /\ node_mc_data' = [m \in DOMAIN node_mc_data \cup {n} |->
           IF m = n THEN [report |-> carries[h], age |-> 0] ELSE node_mc_data[m]]
    /\ step' = [step EXCEPT ![h] = "update"]
    /\ carries' = [carries EXCEPT ![h] = nil]
    /\ UNCHANGED from
    /\ phase' = [phase EXCEPT ![n] = IF @ = "new" THEN "up" ELSE @]
    /\ UNCHANGED <<data, pushed, losses, Cluster_mc_data, prom, changes>>

updateClusterMcData(h) ==
    /\ step[h] = "update"
    /\ \E over \in SUBSET AtLimit(node_mc_data) :
           node_mc_data' = Purged(node_mc_data, over)
    /\ step' = [step EXCEPT ![h] = "publish"]
    /\ carries' = [carries EXCEPT ![h] =
           Aggregate([n \in DOMAIN node_mc_data' |-> node_mc_data'[n].report])]
    /\ UNCHANGED <<nodes, from, Cluster_mc_data, prom, changes>>

Done(h) ==
    /\ step' = [step EXCEPT ![h] = "idle"]
    /\ from' = [from EXCEPT ![h] = nil]
    /\ carries' = [carries EXCEPT ![h] = nil]

Publish_NoLock(h) ==   \* mutant: the cluster lock is not taken
    /\ step[h] = "publish"
    /\ Cluster_mc_data' = carries[h]
    /\ Done(h)
    /\ UNCHANGED <<nodes, node_mc_data, prom, changes>>
Publish(h) ==
    /\ step[h] = "publish"
    /\ loop = "sleep"
    /\ Cluster_mc_data' = carries[h]
    /\ Done(h)
    /\ UNCHANGED <<nodes, node_mc_data, prom, changes>>

-----------------------------------------------------------------------------
(* promLoop, under the cluster lock: first the totals, then the gauges of  *)
(* the sets, which are reset before if ten minutes have passed since the   *)
(* start (tlast stays, so in every iteration from then on).                *)
SetTotals ==
    /\ loop = "sleep"
    /\ Cluster_mc_data # nil
    /\ total' = Total(Cluster_mc_data)
    /\ loop' = "sets"
    /\ UNCHANGED <<nodes, handler, node_mc_data, Cluster_mc_data, late, gauges, changes>>

Set(g, c) == [s \in DOMAIN g \cup DOMAIN c |-> IF s \in DOMAIN c THEN c[s] ELSE g[s]]

SetGauges ==
    /\ loop = "sets"
    /\ gauges' = Set(IF late THEN Empty ELSE gauges, Cluster_mc_data)
    /\ loop' = "sleep"
    /\ UNCHANGED <<nodes, handler, node_mc_data, Cluster_mc_data, late, total, changes>>

-----------------------------------------------------------------------------
(* Time: every node that runs has pushed, at any moment of the unit, and   *)
(* handlers and loop are quick.                                            *)
Tick ==
    /\ \A n \in Nodes : phase[n] = "down" \/ pushed[n] > 0
    /\ \A h \in Handlers : step[h] = "idle"
    /\ loop = "sleep"
    /\ pushed' = [n \in Nodes |-> 0]
    /\ node_mc_data' = [n \in DOMAIN node_mc_data |->
           [node_mc_data[n] EXCEPT !.age = IF @ > Lifetime THEN @ ELSE @ + 1]]
    /\ late' \in {late, TRUE}
    /\ UNCHANGED <<phase, data, losses, handler, Cluster_mc_data, loop, total, gauges, changes>>

(* The environment: a node's report changes, a node stops or starts, the   *)
(* exporter starts afresh.                                                 *)
Change ==
    /\ changes < MaxChanges
    /\ changes' = changes + 1

NewReport(n) ==
    /\ Change
    /\ data' \in {[data EXCEPT ![n] = r] : r \in Reports[n] \ {data[n]}}
    /\ UNCHANGED <<phase, pushed, losses, handler, node_mc_data, Cluster_mc_data, prom>>

NodeStops(n) ==
    /\ Change
    /\ phase[n] # "down"
    /\ phase' = [phase EXCEPT ![n] = "down"]
    /\ losses' = [losses EXCEPT ![n] = 0]
    /\ UNCHANGED <<data, pushed, handler, node_mc_data, Cluster_mc_data, prom>>

NodeStarts(n) ==
    /\ Change
    /\ phase[n] = "down"
    /\ phase' = [phase EXCEPT ![n] = "new"]
    /\ UNCHANGED <<data, pushed, losses, handler, node_mc_data, Cluster_mc_data, prom>>

ExporterRestarts ==
    /\ Change
    /\ phase' = [n \in Nodes |-> IF phase[n] = "up" THEN "new" ELSE phase[n]]
    /\ step' = [h \in Handlers |-> "idle"]
    /\ from' = [h \in Handlers |-> nil]
    /\ carries' = [h \in Handlers |-> nil]
    /\ node_mc_data' = Empty
    /\ Cluster_mc_data' = nil
    /\ loop' = "sleep"
    /\ late' = FALSE
    /\ total' = 0
    /\ gauges' = Empty
    /\ UNCHANGED <<data, pushed, losses>>

-----------------------------------------------------------------------------
Next ==
    \/ \E n \in Nodes : \/ \E h \in Handlers : handleConnection(n, h)
                        \/ PushFails(n)
                        \/ NewReport(n) \/ NodeStops(n) \/ NodeStarts(n)
    \/ \E h \in Handlers : \/ dpStoreNodeMetricsData(h)
                           \/ updateClusterMcData(h)
                           \/ Publish(h)
    \/ SetTotals \/ SetGauges
    \/ Tick
    \/ ExporterRestarts

Spec == Init /\ [][Next]_vars

(* Nodes push, handlers run to their end (the lock is free again and       *)
(* again), the loop wakes up, time passes.                                 *)
Fairness ==
    /\ \A n \in Nodes : WF_vars(\E h \in Handlers : pushed[n] = 0 /\ handleConnection(n, h))
    /\ \A h \in Handlers : /\ WF_vars(dpStoreNodeMetricsData(h))
                           /\ WF_vars(updateClusterMcData(h))
                           /\ SF_vars(Publish(h))
    /\ WF_vars(SetTotals)
    /\ WF_vars(SetGauges)
    /\ SF_vars(Tick)

FairSpec == Spec /\ Fairness

-----------------------------------------------------------------------------
(* What is carried, stored, published and shown has its type: numbers for  *)
(* config sets, and finitely many of them.                                 *)
IsAmount(a) ==
    /\ DOMAIN a \subseteq AllSets
    /\ IsFiniteSet(DOMAIN a)
    /\ a \in [DOMAIN a -> Int]

TypeOK ==
    /\ phase \in [Nodes -> {"down", "new", "up"}]
    /\ data \in [Nodes -> AllReports] /\ \A n \in Nodes : data[n] \in Reports[n]
    /\ pushed \in [Nodes -> 0 .. MaxPushes]
    /\ losses \in [Nodes -> 0 .. MaxLosses]
    /\ step \in [Handlers -> {"idle", "store", "update", "publish"}]
    /\ from \in [Handlers -> Nodes \cup {nil}]
    /\ DOMAIN carries = Handlers
    /\ \A h \in Handlers :
           /\ step[h] # "idle" => from[h] \in Nodes
           /\ step[h] = "store" => carries[h] \in Reports[from[h]]
           /\ step[h] = "publish" => IsAmount(carries[h])
    /\ DOMAIN node_mc_data \subseteq Nodes
    /\ \A n \in DOMAIN node_mc_data :
           node_mc_data[n] \in [report : Reports[n], age : 0 .. Lifetime + 1]
    /\ Cluster_mc_data # nil => IsAmount(Cluster_mc_data)
    /\ loop \in {"sleep", "sets"} /\ (loop = "sets" => Cluster_mc_data # nil)
    /\ late \in BOOLEAN
    /\ total \in Int
    /\ IsAmount(gauges)
    /\ changes \in 0 .. MaxChanges

(* No flapping: a running node whose report has been stored is not purged  *)
(* by another node's push (disposer.go:78-83), although some of its own    *)
(* fail.  So many may fail in a row that the next one still comes a whole  *)
(* unit before the Lifetime is over.                                       *)
RunningNodeKept == \A n \in Nodes : phase[n] = "up" => n \in DOMAIN node_mc_data

(* Ten minutes after the start an iteration of promLoop leaves a total     *)
(* that is the sum of the gauges of the sets, whatever is published in the *)
(* meantime and whichever sets have vanished (promstuff.go:116-130).       *)
TotalIsSum == [][SetGauges /\ late => total' = Total(gauges')]_vars

(* Once nodes and reports stay as they are and a node runs, the gauges     *)
(* eventually show, for good, the sums of what the running nodes report:   *)
(* no older report or aggregate that came last stays, no stopped node is   *)
(* counted, and after ten minutes no set that is gone is shown             *)
(* (disposer.go:79-83, 114-124, 134; promstuff.go:119-123).                *)
Running == {n \in Nodes : phase[n] # "down"}
Live == Aggregate([n \in Running |-> data[n]])

Converges ==
    <>[](Running # {} /\ loop = "sleep" =>
            /\ total = Total(Live)
            /\ \A s \in DOMAIN Live : s \in DOMAIN gauges /\ gauges[s] = Live[s]
            /\ late => DOMAIN gauges = DOMAIN Live)

=============================================================================
