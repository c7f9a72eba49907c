------------------------- MODULE PromExporter_proofs -------------------------
(***************************************************************************)
(* Proofs about PromExporter for every set of nodes, all reports and every *)
(* number of handlers, pushes, losses and changes.                         *)
(***************************************************************************)
EXTENDS PromExporter, Sums

-----------------------------------------------------------------------------
(* A sum of integers is one.                                               *)
LEMMA TotalIsInt ==
    ASSUME NEW f, IsFiniteSet(DOMAIN f), \A x \in DOMAIN f : f[x] \in Int
    PROVE  SumFunction(f) \in Int
  <1>1. \A x \in DOMAIN f : \A v \in Int : f[x] + v \in Int
    OBVIOUS
  <1>2. SumFunctionOnSet(f, DOMAIN f) \in Int
    BY <1>1, SumClosed
  <1> QED
    BY <1>2 DEF SumFunction

(* The aggregate gives numbers to the config sets of the reports it adds   *)
(* up (disposer.go:85-104).                                                *)
LEMMA AggregateIsAmount ==
    ASSUME NEW d, DOMAIN d \subseteq Nodes, \A n \in DOMAIN d : d[n] \in AllReports
    PROVE  IsAmount(Aggregate(d))
  <1> DEFINE D == SetsOf({d[n] : n \in DOMAIN d})
             Of(s) == [n \in {m \in DOMAIN d : s \in DOMAIN d[m]} |-> d[n][s]]
             f(s) == SumFunction(Of(s))
  <1>1. Aggregate(d) = [s \in D |-> f(s)]
    BY DEF Aggregate
  <1>2. D \subseteq AllSets
    BY DEF SetsOf, AllSets
  <1>3. \A n \in DOMAIN d : IsFiniteSet(DOMAIN d[n]) /\ \A s \in DOMAIN d[n] : d[n][s] \in Int
    BY ReportsAssumption DEF AllReports
  <1>4. IsFiniteSet(DOMAIN d)
    BY ReportsAssumption, FS_Subset
  <1>5. IsFiniteSet(D)
    <2> DEFINE doms == {DOMAIN r : r \in {d[n] : n \in DOMAIN d}}
               g == [n \in DOMAIN d |-> DOMAIN d[n]]
    <2>1. g \in Surjection(DOMAIN d, doms)
      BY DEF Surjection
    <2>2. IsFiniteSet(doms)
      BY <1>4, <2>1, FS_Surjection
    <2>3. \A x \in doms : IsFiniteSet(x)
      BY <1>3
    <2>4. IsFiniteSet(UNION doms)
      BY <2>2, <2>3, FS_UNION
    <2> QED
      BY <2>4 DEF SetsOf
  <1>6. ASSUME NEW s \in D PROVE f(s) \in Int
    <2>1. IsFiniteSet(DOMAIN Of(s))
      BY <1>4, FS_Subset
    <2>2. \A n \in DOMAIN Of(s) : Of(s)[n] \in Int
      BY <1>3
    <2> HIDE DEF Of
    <2> QED
      BY <2>1, <2>2, TotalIsInt
  <1> HIDE DEF D, f
  <1> QED
    BY <1>1, <1>2, <1>5, <1>6 DEF IsAmount

(* No gauge at all is a set of gauges, and setting gauges gives one that   *)
(* shows what was set (promstuff.go:119-129).                              *)
LEMMA EmptyIsAmount == IsAmount(Empty)
  BY FS_EmptySet DEF IsAmount, Empty

LEMMA SetIsAmount ==
    ASSUME NEW g, NEW c, IsAmount(g), IsAmount(c)
    PROVE  /\ IsAmount(Set(g, c))
           /\ Set(Empty, c) = c
  <1>1. IsAmount(Set(g, c))
    <2>1. IsFiniteSet(DOMAIN g \cup DOMAIN c)
      BY FS_Union DEF IsAmount
    <2> QED
      BY <2>1 DEF IsAmount, Set
  <1>2. DOMAIN Empty = {}
    BY DEF Empty
  <1>3. DOMAIN Empty \cup DOMAIN c = DOMAIN c
    BY <1>2
  <1>4. Set(Empty, c) = [s \in DOMAIN c |-> c[s]]
    BY <1>3 DEF Set
  <1> QED
    BY <1>1, <1>4 DEF IsAmount

(* Types are preserved by every step of nodes, handlers, loop and time.    *)
LEMMA TypeStep == TypeOK /\ [Next]_vars => TypeOK'
  <1> SUFFICES ASSUME TypeOK, [Next]_vars PROVE TypeOK'
    OBVIOUS
  <1> USE TimeAssumption
  <1>1. ASSUME NEW n \in Nodes, NEW h \in Handlers, handleConnection(n, h) PROVE TypeOK'
    BY <1>1 DEF TypeOK, handleConnection, Handlers, prom
  <1>2. ASSUME NEW n \in Nodes, PushFails(n) PROVE TypeOK'
    BY <1>2 DEF TypeOK, PushFails, prom, handler
  <1>3. ASSUME NEW n \in Nodes, NewReport(n) PROVE TypeOK'
    <2>1. PICK r \in Reports[n] : data' = [data EXCEPT ![n] = r]
      BY <1>3 DEF NewReport
    <2>2. r \in AllReports
      BY <2>1 DEF AllReports
    <2>3. data' \in [Nodes -> AllReports] /\ \A m \in Nodes : data'[m] \in Reports[m]
      BY <2>1, <2>2 DEF TypeOK
    <2>4. changes' \in 0 .. MaxChanges
      BY <1>3 DEF TypeOK, NewReport, Change
    <2> QED
      BY <1>3, <2>3, <2>4 DEF TypeOK, NewReport, handler, prom
  <1>4. ASSUME NEW n \in Nodes, NodeStops(n) \/ NodeStarts(n) PROVE TypeOK'
    BY <1>4 DEF TypeOK, NodeStops, NodeStarts, Change, handler, prom
  <1>5. ASSUME NEW h \in Handlers, dpStoreNodeMetricsData(h) PROVE TypeOK'
    BY <1>5 DEF TypeOK, dpStoreNodeMetricsData, prom
  <1>6. ASSUME NEW h \in Handlers, updateClusterMcData(h) PROVE TypeOK'
    <2>0. PICK d : d = [n \in DOMAIN node_mc_data' |-> node_mc_data'[n].report]
      OBVIOUS
    <2>1. /\ DOMAIN node_mc_data' \subseteq DOMAIN node_mc_data
          /\ \A n \in DOMAIN node_mc_data' : node_mc_data'[n] = node_mc_data[n]
      BY <1>6 DEF updateClusterMcData, Purged
    <2>2. DOMAIN d \subseteq Nodes /\ \A n \in DOMAIN d : d[n] \in AllReports
      <3>1. \A n \in DOMAIN node_mc_data' : n \in Nodes /\ node_mc_data'[n].report \in Reports[n]
        BY <2>1 DEF TypeOK
      <3> QED
        BY <2>0, <3>1 DEF AllReports
    <2>3. /\ step' = [step EXCEPT ![h] = "publish"]
          /\ carries' = [carries EXCEPT ![h] = Aggregate(d)]
          /\ UNCHANGED <<nodes, from, Cluster_mc_data, prom, changes>>
      BY <1>6, <2>0 DEF updateClusterMcData
    <2>4. IsAmount(Aggregate(d))
      BY <2>2, AggregateIsAmount
    <2>5. /\ step' \in [Handlers -> {"idle", "store", "update", "publish"}]
          /\ DOMAIN carries' = Handlers
          /\ \A i \in Handlers :
                 /\ step'[i] # "idle" => from'[i] \in Nodes
                 /\ step'[i] = "store" => carries'[i] \in Reports[from'[i]]
                 /\ step'[i] = "publish" => IsAmount(carries'[i])
      BY <1>6, <2>3, <2>4 DEF TypeOK, updateClusterMcData
    <2>6. /\ DOMAIN node_mc_data' \subseteq Nodes
          /\ \A n \in DOMAIN node_mc_data' :
                 node_mc_data'[n] \in [report : Reports[n], age : 0 .. Lifetime + 1]
      BY <2>1 DEF TypeOK
    <2> QED
      BY <2>3, <2>5, <2>6 DEF TypeOK, nodes, prom
  <1>7. ASSUME NEW h \in Handlers, Publish(h) PROVE TypeOK'
    BY <1>7 DEF TypeOK, Publish, Done, nodes, prom
  <1>8. CASE SetTotals
    <2>1. total' \in Int
      BY <1>8, TotalIsInt DEF TypeOK, SetTotals, Total, IsAmount
    <2> QED
      BY <1>8, <2>1 DEF TypeOK, SetTotals, nodes, handler
  <1>9. CASE SetGauges
    <2>1. IsAmount(gauges')
      <3>1. PICK g : IsAmount(g) /\ gauges' = Set(g, Cluster_mc_data)
        BY <1>9, EmptyIsAmount, Zenon DEF TypeOK, SetGauges
      <3>2. IsAmount(Cluster_mc_data)
        BY <1>9 DEF TypeOK, SetGauges
      <3> QED
        BY <3>1, <3>2, SetIsAmount
    <2> QED
      BY <1>9, <2>1 DEF TypeOK, SetGauges, nodes, handler
  <1>10. CASE Tick
    <2>1. \A n \in DOMAIN node_mc_data :
              [node_mc_data[n] EXCEPT !.age = IF @ > Lifetime THEN @ ELSE @ + 1]
                  \in [report : Reports[n], age : 0 .. Lifetime + 1]
      BY DEF TypeOK
    <2>2. /\ DOMAIN node_mc_data' = DOMAIN node_mc_data
          /\ \A n \in DOMAIN node_mc_data' :
                 node_mc_data'[n] \in [report : Reports[n], age : 0 .. Lifetime + 1]
      BY <1>10, <2>1 DEF Tick
    <2>3. pushed' \in [Nodes -> 0 .. MaxPushes]
      BY <1>10 DEF Tick
    <2>4. late' \in BOOLEAN
      BY <1>10, Zenon DEF Tick, TypeOK
    <2> QED
      BY <1>10, <2>2, <2>3, <2>4 DEF TypeOK, Tick, handler
  <1>11. CASE ExporterRestarts
    <2>1. IsAmount(gauges') /\ DOMAIN node_mc_data' = {}
      BY <1>11, EmptyIsAmount DEF ExporterRestarts, Empty
    <2>2. phase' \in [Nodes -> {"down", "new", "up"}] /\ changes' \in 0 .. MaxChanges
      BY <1>11 DEF TypeOK, ExporterRestarts, Change
    <2>3. /\ step' = [h \in Handlers |-> "idle"]
          /\ from' = [h \in Handlers |-> nil]
          /\ carries' = [h \in Handlers |-> nil]
          /\ loop' = "sleep" /\ late' = FALSE /\ Cluster_mc_data' = nil
          /\ total' = 0
          /\ UNCHANGED <<data, pushed, losses>>
      BY <1>11 DEF ExporterRestarts
    <2>4. late' \in BOOLEAN
      BY <2>3
    <2>5. \A h \in Handlers : step'[h] = "idle"
      BY <2>3
    <2> QED
      BY <2>1, <2>2, <2>3, <2>4, <2>5 DEF TypeOK
  <1>12. CASE UNCHANGED vars
    BY <1>12 DEF TypeOK, vars, nodes, handler, prom
  <1> QED
    BY <1>1, <1>2, <1>3, <1>4, <1>5, <1>6, <1>7, <1>8, <1>9, <1>10, <1>11, <1>12 DEF Next

(* What the handlers carry, the store holds, is published and shown has    *)
(* its type.                                                               *)
THEOREM TypeCorrect == Spec => []TypeOK
  <1>1. Init => TypeOK
    <2> SUFFICES ASSUME Init PROVE TypeOK
      OBVIOUS
    <2>1. IsAmount(gauges) /\ DOMAIN node_mc_data = {}
      BY EmptyIsAmount DEF Init, Empty
    <2>2. late \in BOOLEAN
      BY DEF Init
    <2> QED
      BY <2>1, <2>2, TimeAssumption DEF Init, TypeOK
  <1> QED
    BY <1>1, TypeStep, PTL DEF Spec

-----------------------------------------------------------------------------
(* In the middle of promLoop's iteration the total is that of the          *)
(* published aggregate: nothing is published under the lock.               *)
TotalMatches == loop = "sets" => total = Total(Cluster_mc_data)

(* From ten minutes after the start, the total is the sum of the gauges.   *)
THEOREM TotalsAreSums == Spec => TotalIsSum
  <1>1. Init => TotalMatches
    BY DEF Init, TotalMatches
  <1>2. TypeOK /\ TotalMatches /\ [Next]_vars => TotalMatches'
    <2> SUFFICES ASSUME TypeOK, TotalMatches, [Next]_vars PROVE TotalMatches'
      OBVIOUS
    <2>1. CASE SetTotals
      BY <2>1 DEF SetTotals, TotalMatches
    <2>2. ASSUME NEW h \in Handlers, Publish(h) PROVE TotalMatches'
      BY <2>2 DEF Publish, TotalMatches, prom
    <2>3. CASE SetGauges \/ ExporterRestarts
      BY <2>3 DEF SetGauges, ExporterRestarts, TotalMatches
    <2>4. CASE UNCHANGED <<loop, total, Cluster_mc_data>>
      BY <2>4 DEF TotalMatches
    <2>5. ASSUME NEW n \in Nodes,
                 \/ \E h \in Handlers : handleConnection(n, h)
                 \/ PushFails(n) \/ NewReport(n) \/ NodeStops(n) \/ NodeStarts(n)
          PROVE  UNCHANGED <<loop, total, Cluster_mc_data>>
      BY <2>5 DEF handleConnection, PushFails, NewReport, NodeStops, NodeStarts, prom
    <2>6. ASSUME NEW h \in Handlers, dpStoreNodeMetricsData(h) \/ updateClusterMcData(h)
          PROVE  UNCHANGED <<loop, total, Cluster_mc_data>>
      BY <2>6 DEF dpStoreNodeMetricsData, updateClusterMcData, prom
    <2>7. CASE Tick
      BY <2>7, <2>4 DEF Tick
    <2>8. CASE UNCHANGED vars
      BY <2>8, <2>4 DEF vars, prom
    <2> QED
      BY <2>1, <2>2, <2>3, <2>4, <2>5, <2>6, <2>7, <2>8 DEF Next
  <1>3. TypeOK /\ TotalMatches => (SetGauges /\ late => total' = Total(gauges'))
    <2> SUFFICES ASSUME TypeOK, TotalMatches, SetGauges, late
                 PROVE  total' = Total(gauges')
      OBVIOUS
    <2>1. gauges' = Set(Empty, Cluster_mc_data) /\ total' = total
      BY Zenon DEF SetGauges
    <2>2. loop = "sets" /\ IsAmount(Cluster_mc_data)
      BY DEF TypeOK, SetGauges
    <2>3. gauges' = Cluster_mc_data
      BY <2>1, <2>2, EmptyIsAmount, SetIsAmount
    <2> QED
      BY <2>1, <2>2, <2>3 DEF TotalMatches
  <1> QED
    BY <1>1, <1>2, <1>3, TypeCorrect, PTL DEF Spec, TotalIsSum

-----------------------------------------------------------------------------
(* How old the report of a running node may be: one unit more than its     *)
(* pushes that have failed, unless a newer one is about to be stored; and  *)
(* in no case more than one unit more than may fail.                       *)
AboutToStore(n) == \E h \in Handlers : step[h] = "store" /\ from[h] = n
Young(n) ==
    /\ n \in DOMAIN node_mc_data
    /\ node_mc_data[n].age <= MaxLosses + 1
    /\ \/ AboutToStore(n)
       \/ node_mc_data[n].age <= losses[n] + (IF pushed[n] = 0 THEN 1 ELSE 0)
RunningIsYoung == \A n \in Nodes : phase[n] = "up" => Young(n)

(* It is preserved by every step.                                          *)
LEMMA YoungStep ==
    ASSUME MaxLosses + 1 < Lifetime
    PROVE  TypeOK /\ RunningIsYoung /\ [Next]_vars => RunningIsYoung'
  <1> SUFFICES ASSUME TypeOK, RunningIsYoung, [Next]_vars,
                      NEW m \in Nodes, phase'[m] = "up"
               PROVE  Young(m)'
    BY DEF RunningIsYoung
  <1> USE TimeAssumption DEF TypeOK
  <1>1. ASSUME NEW n \in Nodes, NEW h \in Handlers, handleConnection(n, h) PROVE Young(m)'
    <2>1. CASE m = n
      <3>1. AboutToStore(n)'
        BY <1>1 DEF handleConnection, AboutToStore
      <3> QED
        BY <1>1, <2>1, <3>1 DEF handleConnection, RunningIsYoung, Young
    <2>2. CASE m # n
      <3>1. AboutToStore(m) => AboutToStore(m)'
        BY <1>1, <2>2 DEF handleConnection, AboutToStore
      <3> QED
        BY <1>1, <2>2, <3>1 DEF handleConnection, RunningIsYoung, Young
    <2> QED
      BY <2>1, <2>2
  <1>2. ASSUME NEW n \in Nodes, PushFails(n) PROVE Young(m)'
    BY <1>2 DEF PushFails, handler, RunningIsYoung, Young, AboutToStore
  <1>3. ASSUME NEW n \in Nodes, NewReport(n) PROVE Young(m)'
    BY <1>3 DEF NewReport, handler, RunningIsYoung, Young, AboutToStore
  <1>4. ASSUME NEW n \in Nodes, NodeStops(n) \/ NodeStarts(n) PROVE Young(m)'
    BY <1>4 DEF NodeStops, NodeStarts, handler, RunningIsYoung, Young, AboutToStore
  <1>5. ASSUME NEW h \in Handlers, dpStoreNodeMetricsData(h) PROVE Young(m)'
    <2>1. CASE from[h] = m
      BY <1>5, <2>1 DEF dpStoreNodeMetricsData, Young
    <2>2. CASE from[h] # m
      <3>1. AboutToStore(m) => AboutToStore(m)'
        BY <1>5, <2>2 DEF dpStoreNodeMetricsData, AboutToStore
      <3> QED
        BY <1>5, <2>2, <3>1 DEF dpStoreNodeMetricsData, RunningIsYoung, Young
    <2> QED
      BY <2>1, <2>2
  <1>6. ASSUME NEW h \in Handlers, updateClusterMcData(h) PROVE Young(m)'
    <2>1. phase[m] = "up" /\ UNCHANGED <<losses, pushed, from>>
      BY <1>6 DEF updateClusterMcData, nodes
    <2>2. m \in DOMAIN node_mc_data' /\ node_mc_data'[m] = node_mc_data[m]
      <3>1. m \in DOMAIN node_mc_data /\ node_mc_data[m].age < Lifetime
        BY <2>1 DEF RunningIsYoung, Young
      <3>2. PICK over \in SUBSET AtLimit(node_mc_data) :
               node_mc_data' = Purged(node_mc_data, over)
        BY <1>6 DEF updateClusterMcData
      <3>3. m \notin over
        BY <3>1 DEF AtLimit
      <3> QED
        BY <3>1, <3>2, <3>3 DEF Purged
    <2>3. AboutToStore(m) => AboutToStore(m)'
      BY <1>6 DEF updateClusterMcData, AboutToStore
    <2> QED
      BY <2>1, <2>2, <2>3 DEF RunningIsYoung, Young
  <1>7. ASSUME NEW h \in Handlers, Publish(h) PROVE Young(m)'
    <2>1. AboutToStore(m) => AboutToStore(m)'
      BY <1>7 DEF Publish, Done, AboutToStore
    <2> QED
      BY <1>7, <2>1 DEF Publish, nodes, RunningIsYoung, Young
  <1>8. CASE SetTotals \/ SetGauges \/ UNCHANGED vars
    BY <1>8 DEF SetTotals, SetGauges, vars, nodes, handler, RunningIsYoung, Young, AboutToStore
  <1>9. CASE Tick
    <2>1. phase[m] = "up" /\ ~AboutToStore(m) /\ pushed[m] # 0
      BY <1>9 DEF Tick, AboutToStore
    <2>2. Young(m)
      BY <2>1 DEF RunningIsYoung
    <2>3. m \in DOMAIN node_mc_data /\ node_mc_data[m].age <= losses[m]
      BY <2>1, <2>2 DEF Young
    <2>4. m \in DOMAIN node_mc_data' /\ node_mc_data'[m].age <= losses[m] + 1
      BY <1>9, <2>3 DEF Tick
    <2> QED
      BY <1>9, <2>4 DEF Tick, Young
  <1>10. CASE ExporterRestarts
    BY <1>10 DEF ExporterRestarts
  <1> QED
    BY <1>1, <1>2, <1>3, <1>4, <1>5, <1>6, <1>7, <1>8, <1>9, <1>10 DEF Next

(* No running node is purged, with any number of nodes and handlers, if    *)
(* the next push comes before the Lifetime is over although MaxLosses      *)
(* pushes in a row have failed.                                            *)
THEOREM NoRunningNodePurged ==
    ASSUME MaxLosses + 1 < Lifetime
    PROVE  Spec => []RunningNodeKept
  <1>1. Init => RunningIsYoung
    BY DEF Init, RunningIsYoung
  <1>2. RunningIsYoung => RunningNodeKept
    BY DEF RunningIsYoung, Young, RunningNodeKept
  <1>3. TypeOK /\ RunningIsYoung /\ [Next]_vars => RunningIsYoung'
    BY YoungStep
  <1> QED
    BY <1>1, <1>2, <1>3, TypeCorrect, PTL DEF Spec
=============================================================================
