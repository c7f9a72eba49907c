----------------------- MODULE MetricsCollector_proofs -----------------------
(***************************************************************************)
(* Theorems about MetricsCollector, for any finite sets of config sets and *)
(* devices, any poll time and any number of failures.                      *)
(***************************************************************************)
EXTENDS MetricsCollector, Sums

USE NumbersAssumption, SetsAssumption

(* An age of zero is within the bound on ages.                             *)
LEMMA ExpiryIsNat == Expiry \in Nat /\ 0 \in 0 .. Expiry + 1
  <1>1. Expiry \in Nat
    BY DEF Expiry
  <1> QED
    BY <1>1

(* The failed reads of a step keep the count of failures within its bound, *)
(* and if they leave it as it was there were none.                         *)
LEMMA LossesCount ==
    ASSUME fails \in Nat, NEW P \in SUBSET (Sets \X Devs), NEW lost \in Losses(P)
    PROVE  /\ fails + Cardinality(lost) \in 0 .. MaxFails
           /\ fails + Cardinality(lost) = fails => lost = {}
  <1>1. IsFiniteSet(Sets \X Devs)
    BY FS_Product
  <1>2. IsFiniteSet(lost)
    BY <1>1, FS_Subset DEF Losses
  <1>3. Cardinality(lost) \in Nat /\ (Cardinality(lost) = 0 => lost = {})
    BY <1>2, FS_CardinalityType, FS_EmptySet
  <1> QED
    BY <1>3 DEF Losses

(* A notification of use keeps the types: it is dropped unless the set has *)
(* the device.                                                             *)
LEMMA UsedTypes ==
    ASSUME TypeOK, NEW s \in Sets \cup {nil}, NEW d \in Devs, Used(s, d)
    PROVE  /\ inuse' \in [Sets -> SUBSET Devs]
           /\ \A t \in Sets : inuse'[t] \subseteq plugindevs[t]
           /\ trcseen' \in [Sets -> [Devs -> 0 .. Expiry + 1]]
  <1>1. CASE Has(s, d)
    <2>1. s \in Sets /\ d \in plugindevs[s]
      BY <1>1 DEF Has
    <2>2. inuse' = [inuse EXCEPT ![s] = @ \cup {d}]
      BY <1>1 DEF Used
    <2>3. trcseen' = [trcseen EXCEPT ![s] = [@ EXCEPT ![d] = 0]]
      BY <1>1 DEF Used
    <2>4. trcseen' \in [Sets -> [Devs -> 0 .. Expiry + 1]]
      BY <2>1, <2>3, ExpiryIsNat DEF TypeOK
    <2> QED
      BY <2>1, <2>2, <2>4 DEF TypeOK
  <1>2. CASE ~Has(s, d)
    BY <1>2 DEF Used, TypeOK
  <1> QED
    BY <1>1, <1>2

-----------------------------------------------------------------------------
(* Every action keeps the types.                                           *)
LEMMA TypeStep == TypeOK /\ [Next]_vars => TypeOK'
  <1> SUFFICES ASSUME TypeOK, [Next]_vars PROVE TypeOK'
    OBVIOUS
  <1> USE DEF TypeOK
  <1>1. ASSUME NEW d \in Devs, ConfigChange(d) PROVE TypeOK'
    <2>1. owner' \in [Devs -> Sets \cup {nil}]
      <3>1. PICK s \in Sets \cup {nil} : owner' = [owner EXCEPT ![d] = s]
        BY <1>1 DEF ConfigChange
      <3> QED
        BY <3>1
    <2>2. seen' \in [Devs -> Sets \cup {nil}]
      BY <1>1 DEF ConfigChange
    <2>3. moves' \in 0 .. MaxMoves
      BY <1>1 DEF ConfigChange
    <2> QED
      BY <1>1, <2>1, <2>2, <2>3 DEF ConfigChange, plugins, poll, queues
  <1>2. ASSUME NEW d \in Devs, Request(d) PROVE TypeOK'
    BY <1>2 DEF Request, plugins, poll, usage, queues
  <1>3. ASSUME NEW d \in Devs, Release(d) PROVE TypeOK'
    BY <1>3 DEF Release, plugins, poll, queues
  <1>4. ASSUME NEW d \in Devs, MetricsCollNotifyAboutRunningContainer(d) PROVE TypeOK'
    BY <1>4, UsedTypes DEF MetricsCollNotifyAboutRunningContainer, env, plugins, queues
  <1>5. ASSUME NEW d \in Devs, MetricsCollNotifyAboutDestroyNode(d) PROVE TypeOK'
    <2>1. PICK s \in Sets : /\ inuse' = [inuse EXCEPT ![s] = @ \ {d}]
                            /\ trcseen' = [trcseen EXCEPT ![s] = [@ EXCEPT ![d] = 0]]
      BY <1>5 DEF MetricsCollNotifyAboutDestroyNode
    <2>2. trcseen' \in [Sets -> [Devs -> 0 .. Expiry + 1]]
      BY <2>1, ExpiryIsNat
    <2>3. /\ inuse' \in [Sets -> SUBSET Devs]
          /\ \A t \in Sets : inuse'[t] \subseteq plugindevs[t]
      BY <2>1
    <2> QED
      BY <1>5, <2>2, <2>3 DEF MetricsCollNotifyAboutDestroyNode, env, plugins, queues
  <1>6. ASSUME NEW d \in Devs, NEW s \in Sets, MetricsCollNotifyAboutAlloc(s, d) PROVE TypeOK'
    <2>1. Used(s, d)
      BY <1>6 DEF MetricsCollNotifyAboutAlloc
    <2>2. /\ inuse' \in [Sets -> SUBSET Devs]
          /\ \A t \in Sets : inuse'[t] \subseteq plugindevs[t]
          /\ trcseen' \in [Sets -> [Devs -> 0 .. Expiry + 1]]
      BY <2>1, UsedTypes
    <2>3. holders' \in [Devs -> SUBSET Sets]
      <3>1. holders' = holders \/ holders' = [holders EXCEPT ![d] = @ \cup {s}]
        BY <1>6, Zenon DEF MetricsCollNotifyAboutAlloc
      <3> QED
        BY <3>1
    <2>4. fails' \in 0 .. MaxFails
      BY <1>6 DEF MetricsCollNotifyAboutAlloc
    <2> QED
      BY <1>6, <2>2, <2>3, <2>4 DEF MetricsCollNotifyAboutAlloc, plugins, poll, queues
  <1>7. ASSUME NEW s \in Sets, tellMetricsCollAboutAPQNs(s) PROVE TypeOK'
    <2> DEFINE D == list'[s]
    <2>1. D \in SUBSET Devs /\ list' \in [Sets -> SUBSET Devs]
      BY <1>7 DEF tellMetricsCollAboutAPQNs, Mine
    <2>2. PICK lost \in Losses({s} \X (D \ apqns[s])) :
             /\ start' = [start EXCEPT ![s] = [d \in Devs |->
                    IF d \in D \cap apqns[s] THEN @[d]
                    ELSE IF d \in D THEN apGetQueueRequestCounter(lost, s, d) ELSE 0]]
             /\ fails' = fails + Cardinality(lost)
      BY <1>7 DEF tellMetricsCollAboutAPQNs, MetricsCollAPQNs
    <2>3. fails' \in 0 .. MaxFails
      <3>1. {s} \X (D \ apqns[s]) \in SUBSET (Sets \X Devs)
        BY <2>1
      <3>2. fails \in Nat
        OBVIOUS
      <3> QED
        BY <2>2, <3>1, <3>2, LossesCount
    <2> HIDE DEF D
    <2>4. start' \in [Sets -> [Devs -> Nat]]
      BY <2>2 DEF apGetQueueRequestCounter
    <2>5. /\ current' \in [Sets -> [Devs -> Nat]]
          /\ first' \in [Sets -> [Devs -> Nat]]
          /\ apqns' \in [Sets -> SUBSET Devs]
      BY <1>7, <2>1 DEF tellMetricsCollAboutAPQNs, MetricsCollAPQNs, D
    <2> QED
      BY <1>7, <2>1, <2>3, <2>4, <2>5
      DEF tellMetricsCollAboutAPQNs, MetricsCollAPQNs, env, poll, usage
  <1>8. ASSUME NEW s \in Sets, tellMetricsCollAboutPluginDevs(s) PROVE TypeOK'
    <2>1. /\ plugindevs' = [plugindevs EXCEPT ![s] = list[s]]
          /\ inuse' = [inuse EXCEPT ![s] = @ \cap list[s]]
          /\ trcseen' = [trcseen EXCEPT ![s] = [d \in Devs |-> IF d \in inuse'[s] THEN @[d] ELSE 0]]
      BY <1>8 DEF tellMetricsCollAboutPluginDevs, MetricsCollPluginDevs
    <2>2. trcseen' \in [Sets -> [Devs -> 0 .. Expiry + 1]]
      BY <2>1, ExpiryIsNat
    <2>3. /\ plugindevs' \in [Sets -> SUBSET Devs] /\ inuse' \in [Sets -> SUBSET Devs]
          /\ \A t \in Sets : /\ inuse'[t] \subseteq plugindevs'[t]
                             /\ plugindevs'[t] # {} => t \in known
      BY <1>8, <2>1 DEF tellMetricsCollAboutPluginDevs
    <2>4. seen' \in [Devs -> Sets \cup {nil}]
      BY <1>8 DEF tellMetricsCollAboutPluginDevs, MetricsCollPluginDevs
    <2> QED
      BY <1>8, <2>2, <2>3, <2>4
      DEF tellMetricsCollAboutPluginDevs, MetricsCollPluginDevs, env, poll, queues
  <1>9. CASE List
    <2>1. since' \in 0 .. PollTime
      BY <1>9 DEF List
    <2>2. missed' \in BOOLEAN
      BY <1>9, Zenon DEF List
    <2>3. tonotify' \subseteq Devs /\ tosweep' \subseteq Devs
      BY <1>9 DEF List
    <2> QED
      BY <1>9, <2>1, <2>2, <2>3 DEF List, env, plugins, usage, queues
  <1>10. CASE EndOfRound
    BY <1>10 DEF EndOfRound, env, plugins, usage, queues
  <1>11. CASE doLoop
    <2>1. PICK lost \in Losses(Queues) : ReadCounters(lost) /\ fails' = fails + Cardinality(lost)
      BY <1>11 DEF doLoop
    <2>2. fails' \in 0 .. MaxFails
      BY <2>1, LossesCount DEF Queues
    <2>3. /\ current' \in [Sets -> [Devs -> Nat]]
          /\ start' \in [Sets -> [Devs -> Nat]]
      BY <2>1 DEF ReadCounters, apGetQueueRequestCounter
    <2>4. /\ inuse' \in [Sets -> SUBSET Devs]
          /\ \A s \in Sets : inuse'[s] \subseteq plugindevs[s]
          /\ trcseen' \in [Sets -> [Devs -> 0 .. Expiry + 1]]
      <3>1. PICK over \in SUBSET AtLimit :
               inuse' = [s \in Sets |->
                   {d \in inuse[s] : trcseen[s][d] <= Expiry /\ <<s, d>> \notin over}]
        BY <1>11 DEF doLoop, Expire
      <3> QED
        BY <1>11, <3>1 DEF doLoop, Expiry
    <2> QED
      BY <1>11, <2>2, <2>3, <2>4 DEF doLoop, env, plugins, poll
  <1>12. CASE Tick
    <2>1. seen' \in [Devs -> Sets \cup {nil}]
      BY <1>12 DEF Tick
    <2> QED
      BY <1>12, <2>1 DEF Tick, env, plugins, queues, Expiry
  <1>13. CASE UNCHANGED vars
    BY <1>13 DEF vars, env, plugins, poll, usage, queues
  <1> QED
    BY <1>1, <1>2, <1>3, <1>4, <1>5, <1>6, <1>7, <1>8, <1>9, <1>10, <1>11, <1>12, <1>13
    DEF Next

(* Types and bounds, among them: only devices of a set are in use in it.   *)
THEOREM TypeCorrect == Spec => []TypeOK
  <1>1. Init => TypeOK
    <2> SUFFICES ASSUME Init PROVE TypeOK
      OBVIOUS
    <2>1. trcseen \in [Sets -> [Devs -> 0 .. Expiry + 1]]
      BY ExpiryIsNat DEF Init
    <2>2. since \in 0 .. PollTime /\ moves \in 0 .. MaxMoves /\ fails \in 0 .. MaxFails
      BY DEF Init
    <2>3. /\ owner \in [Devs -> Sets \cup {nil}] /\ holders \in [Devs -> SUBSET Sets]
          /\ seen \in [Devs -> Sets \cup {nil}] /\ count \in [Devs -> Nat]
      BY DEF Init
    <2>4. /\ start \in [Sets -> [Devs -> Nat]] /\ current \in [Sets -> [Devs -> Nat]]
          /\ first \in [Sets -> [Devs -> Nat]]
      BY DEF Init
    <2> QED
      BY <2>1, <2>2, <2>3, <2>4 DEF Init, TypeOK
  <1> QED
    BY <1>1, TypeStep, PTL DEF Spec

-----------------------------------------------------------------------------
(* Why a running container stays counted.  The pod lister tells of it in   *)
(* every round, and ages are bounded by the time since its last good       *)
(* round: the time since the last one, and a poll time more if that one    *)
(* failed.  What is noted is forgotten when this reaches the limit.  A     *)
(* device the pod lister has still to tell of is as old as a poll time.  A *)
(* device that is swept had no holder when the kubelet answered, so none   *)
(* that is noted is among them.                                            *)
Patience == IF missed THEN since + PollTime ELSE since

Fresh(d) ==
    seen[d] # nil =>
        /\ owner[d] = seen[d]
        /\ holders[d] # {}
        /\ d \in inuse[seen[d]]
        /\ d \notin tosweep
        /\ missed => since < PollTime
        /\ trcseen[seen[d]][d] <= IF d \in tonotify THEN PollTime ELSE Patience

RoundIsSplit ==
    /\ tonotify \cap tosweep = {}
    /\ missed => tonotify = {}

CountInv == RoundIsSplit /\ \A d \in Devs : Fresh(d)

(* A use that is noted has not reached the limit.                          *)
LEMMA NotedIsYoung ==
    ASSUME TypeOK, CountInv
    PROVE  /\ Patience \in Nat /\ Expiry \in Nat
           /\ \A d \in Devs : seen[d] # nil => trcseen[seen[d]][d] < Expiry
  <1>1. since \in Nat /\ since <= PollTime
    BY DEF TypeOK
  <1>2. Patience \in Nat /\ Expiry \in Nat /\ PollTime < Expiry
    BY <1>1 DEF Patience, Expiry
  <1>3. ASSUME NEW d \in Devs, seen[d] # nil
        PROVE  trcseen[seen[d]][d] < Expiry
    <2>1. trcseen[seen[d]][d] \in Nat
      BY <1>3 DEF TypeOK
    <2>2. /\ trcseen[seen[d]][d] <= IF d \in tonotify THEN PollTime ELSE Patience
          /\ missed => since < PollTime
      BY <1>3 DEF CountInv, Fresh
    <2>3. Patience < Expiry
      BY <1>1, <2>2 DEF Patience, Expiry
    <2> QED
      BY <1>2, <2>1, <2>2, <2>3
  <1> QED
    BY <1>2, <1>3

(* What a notification of use does to the entry of a set: the device of    *)
(* the notification is in use with age zero, if the set has it, and all    *)
(* else stays.                                                             *)
LEMMA UsedEffect ==
    ASSUME TypeOK, NEW s \in Sets \cup {nil}, NEW d \in Devs, Used(s, d),
           NEW t \in Sets, NEW e \in Devs, e \in inuse[t]
    PROVE  /\ e \in inuse'[t]
           /\ trcseen'[t][e] = IF t = s /\ e = d THEN 0 ELSE trcseen[t][e]
  <1>1. CASE Has(s, d)
    <2>1. s \in Sets
      BY <1>1 DEF Has
    <2>2. inuse' = [inuse EXCEPT ![s] = @ \cup {d}]
      BY <1>1 DEF Used
    <2>3. trcseen' = [trcseen EXCEPT ![s] = [@ EXCEPT ![d] = 0]]
      BY <1>1 DEF Used
    <2> QED
      BY <2>1, <2>2, <2>3 DEF TypeOK
  <1>2. CASE ~Has(s, d)
    <2>1. inuse' = inuse /\ trcseen' = trcseen
      BY <1>2 DEF Used
    <2>2. ~(t = s /\ e = d)
      BY <1>2 DEF Has, TypeOK
    <2> QED
      BY <2>1, <2>2
  <1> QED
    BY <1>1, <1>2

LEMMA CountStep == TypeOK /\ TypeOK' /\ CountInv /\ [Next]_vars => CountInv'
  <1> SUFFICES ASSUME TypeOK, TypeOK', CountInv, [Next]_vars PROVE CountInv'
    OBVIOUS
  <1>0. Patience \in Nat /\ Expiry \in Nat
    BY NotedIsYoung
  <1>t. \A d \in Devs : /\ seen[d] \in Sets \cup {nil} /\ seen'[d] \in Sets \cup {nil}
                        /\ \A s \in Sets : trcseen[s][d] \in Nat
    BY DEF TypeOK
  <1>1. ASSUME NEW d \in Devs, ConfigChange(d) PROVE CountInv'
    <2>1. seen' = [seen EXCEPT ![d] = nil]
      BY <1>1 DEF ConfigChange
    <2>2. PICK s \in Sets \cup {nil} : owner' = [owner EXCEPT ![d] = s]
      BY <1>1 DEF ConfigChange
    <2> QED
      BY <1>1, <2>1, <2>2
      DEF ConfigChange, CountInv, Fresh, RoundIsSplit, Patience, poll, TypeOK
  <1>2. ASSUME NEW d \in Devs, Request(d) PROVE CountInv'
    BY <1>2 DEF Request, CountInv, Fresh, RoundIsSplit, Patience, poll, usage
  <1>3. ASSUME NEW d \in Devs, Release(d) PROVE CountInv'
    <2>1. ASSUME NEW e \in Devs, seen'[e] # nil PROVE seen'[e] = seen[e] /\ holders'[e] # {}
      BY <1>3, <2>1 DEF Release, CountInv, Fresh, TypeOK
    <2> QED
      BY <1>3, <2>1 DEF Release, CountInv, Fresh, RoundIsSplit, Patience, poll
  <1>4. ASSUME NEW d \in Devs, MetricsCollNotifyAboutRunningContainer(d) PROVE CountInv'
    <2> DEFINE s == owner[d]
    <2>1. /\ d \in tonotify /\ Used(s, d) /\ tonotify' = tonotify \ {d}
          /\ seen' = IF Has(s, d) /\ holders[d] # {} THEN [seen EXCEPT ![d] = s] ELSE seen
          /\ UNCHANGED <<owner, holders, since, missed, tosweep>>
      BY <1>4 DEF MetricsCollNotifyAboutRunningContainer, env
    <2>2. s \in Sets \cup {nil}
      BY DEF TypeOK
    <2>3. RoundIsSplit'
      BY <2>1 DEF CountInv, RoundIsSplit
    <2> HIDE DEF s
    <2>4. Patience' = Patience
      BY <2>1 DEF Patience
    <2>5. ASSUME NEW e \in Devs, e # d PROVE Fresh(e)'
      <3> SUFFICES ASSUME seen[e] # nil PROVE Fresh(e)'
        BY <2>1, <2>5 DEF Fresh, TypeOK
      <3> DEFINE t == seen[e]
      <3>1. t \in Sets /\ e \in inuse[t] /\ Fresh(e)
        BY <1>t DEF CountInv, Fresh
      <3>2. e \in inuse'[t] /\ trcseen'[t][e] = trcseen[t][e]
        BY <2>1, <2>2, <2>5, <3>1, UsedEffect
      <3>3. seen'[e] = t
        BY <2>1, <2>5 DEF TypeOK
      <3> QED
        BY <2>1, <2>4, <2>5, <3>1, <3>2, <3>3 DEF Fresh, Expiry
    <2>6. Fresh(d)'
      <3> SUFFICES ASSUME seen'[d] # nil PROVE Fresh(d)'
        BY DEF Fresh
      <3>1. seen'[d] = s /\ Has(s, d) /\ holders[d] # {}
        BY <2>1 DEF CountInv, Fresh, Has, TypeOK, s
      <3>2. d \in inuse'[s] /\ trcseen'[s][d] = 0
        BY <2>1, <2>2, <3>1 DEF Used, Has, TypeOK
      <3>3. 0 <= Patience
        BY <1>0
      <3> QED
        BY <2>1, <2>4, <3>1, <3>2, <3>3 DEF Fresh, CountInv, RoundIsSplit, s
    <2> QED
      BY <2>3, <2>5, <2>6 DEF CountInv
  <1>5. ASSUME NEW d \in Devs, MetricsCollNotifyAboutDestroyNode(d) PROVE CountInv'
    <2>1. PICK s \in Sets : /\ inuse' = [inuse EXCEPT ![s] = @ \ {d}]
                            /\ trcseen' = [trcseen EXCEPT ![s] = [@ EXCEPT ![d] = 0]]
      BY <1>5 DEF MetricsCollNotifyAboutDestroyNode
    <2>2. /\ d \in tosweep /\ tosweep' = tosweep \ {d}
          /\ UNCHANGED <<owner, holders, since, missed, tonotify, seen>>
      BY <1>5 DEF MetricsCollNotifyAboutDestroyNode, env
    <2>3. ASSUME NEW e \in Devs, seen[e] # nil
          PROVE  e \in inuse'[seen[e]] /\ trcseen'[seen[e]][e] = trcseen[seen[e]][e]
      <3>1. e # d /\ e \in inuse[seen[e]] /\ seen[e] \in Sets
        BY <2>2, <2>3, <1>t DEF CountInv, Fresh
      <3> QED
        BY <2>1, <3>1 DEF TypeOK
    <2> QED
      BY <2>2, <2>3 DEF CountInv, Fresh, RoundIsSplit, Patience, Expiry
  <1>6. ASSUME NEW d \in Devs, NEW s \in Sets, MetricsCollNotifyAboutAlloc(s, d) PROVE CountInv'
    <2>1. Used(s, d) /\ UNCHANGED <<owner, since, missed, tonotify, tosweep, seen>>
      BY <1>6 DEF MetricsCollNotifyAboutAlloc, poll
    <2>2. \A e \in Devs : holders[e] \subseteq holders'[e]
      <3>1. holders' = holders \/ holders' = [holders EXCEPT ![d] = @ \cup {s}]
        BY <1>6, Zenon DEF MetricsCollNotifyAboutAlloc
      <3>2. holders \in [Devs -> SUBSET Sets]
        BY DEF TypeOK
      <3>3. CASE holders' = holders
        BY <3>3
      <3>4. CASE holders' = [holders EXCEPT ![d] = @ \cup {s}]
        BY <3>2, <3>4
      <3> QED
        BY <3>1, <3>3, <3>4
    <2>3. ASSUME NEW e \in Devs, seen[e] # nil
          PROVE  /\ e \in inuse'[seen[e]]
                 /\ trcseen'[seen[e]][e] \in {0, trcseen[seen[e]][e]}
      <3>1. e \in inuse[seen[e]] /\ seen[e] \in Sets
        BY <2>3, <1>t DEF CountInv, Fresh
      <3> QED
        BY <2>1, <3>1, UsedEffect
    <2>4. 0 <= Patience /\ 0 <= Expiry /\ Patience' = Patience /\ Expiry' = Expiry
      BY <1>0, <2>1 DEF Patience, Expiry
    <2> QED
      BY <2>1, <2>2, <2>3, <2>4 DEF CountInv, Fresh, RoundIsSplit
  <1>7. ASSUME NEW s \in Sets, tellMetricsCollAboutAPQNs(s) PROVE CountInv'
    BY <1>7 DEF tellMetricsCollAboutAPQNs, CountInv, Fresh, RoundIsSplit, Patience,
                env, poll, usage
  <1>8. ASSUME NEW s \in Sets, tellMetricsCollAboutPluginDevs(s) PROVE CountInv'
    <2>1. /\ inuse' = [inuse EXCEPT ![s] = @ \cap list[s]]
          /\ trcseen' = [trcseen EXCEPT ![s] = [d \in Devs |-> IF d \in inuse'[s] THEN @[d] ELSE 0]]
          /\ seen' = [d \in Devs |-> IF seen[d] = s /\ d \notin list[s] THEN nil ELSE seen[d]]
          /\ UNCHANGED <<owner, holders, since, missed, tonotify, tosweep>>
      BY <1>8 DEF tellMetricsCollAboutPluginDevs, MetricsCollPluginDevs, env, poll
    <2>2. ASSUME NEW e \in Devs, seen'[e] # nil
          PROVE  /\ seen'[e] = seen[e] /\ e \in inuse'[seen[e]]
                 /\ trcseen'[seen[e]][e] = trcseen[seen[e]][e]
      <3>1. seen'[e] = seen[e] /\ ~(seen[e] = s /\ e \notin list[s])
        BY <2>1, <2>2
      <3>2. e \in inuse[seen[e]] /\ seen[e] \in Sets
        BY <2>2, <3>1, <1>t DEF CountInv, Fresh
      <3> QED
        BY <2>1, <3>1, <3>2 DEF TypeOK
    <2> QED
      BY <2>1, <2>2 DEF CountInv, Fresh, RoundIsSplit, Patience, Expiry
  <1>9. CASE List
    <2>1. /\ since = PollTime /\ since' = 0 /\ Idle
          /\ UNCHANGED <<owner, holders, inuse, trcseen, seen>>
      BY <1>9 DEF List, env, usage
    <2>2. \A d \in Devs : seen[d] # nil => ~missed /\ trcseen[seen[d]][d] <= PollTime
      BY <2>1 DEF CountInv, Fresh, Idle, Patience
    <2>3. CASE /\ tonotify' = {d \in Devs : holders[d] # {}}
               /\ tosweep' = Devs \ tonotify' /\ missed' = FALSE
      <3>1. \A d \in Devs : seen[d] # nil => d \in tonotify' /\ d \notin tosweep'
        BY <2>3 DEF CountInv, Fresh
      <3> QED
        BY <2>1, <2>2, <2>3, <3>1 DEF CountInv, Fresh, RoundIsSplit
    <2>4. CASE missed' = TRUE /\ UNCHANGED <<tonotify, tosweep>>
      <3>1. Patience' = PollTime
        BY <2>1, <2>4 DEF Patience
      <3> QED
        BY <2>1, <2>2, <2>4, <3>1 DEF CountInv, Fresh, RoundIsSplit, Idle
    <2> QED
      BY <1>9, <2>3, <2>4 DEF List
  <1>10. CASE EndOfRound
    BY <1>10 DEF EndOfRound, CountInv, Fresh, RoundIsSplit, Patience, Expiry, env, usage
  <1>11. CASE doLoop
    <2>1. /\ trcseen' = [s \in Sets |-> [d \in Devs |-> IF d \in inuse'[s] THEN trcseen[s][d] ELSE 0]]
          /\ UNCHANGED <<owner, holders, seen, since, missed, tonotify, tosweep>>
      BY <1>11 DEF doLoop, env, poll
    <2>2. PICK over \in SUBSET AtLimit :
             inuse' = [s \in Sets |->
                 {d \in inuse[s] : trcseen[s][d] <= Expiry /\ <<s, d>> \notin over}]
      BY <1>11 DEF doLoop, Expire
    <2>3. ASSUME NEW e \in Devs, seen[e] # nil
          PROVE  e \in inuse'[seen[e]] /\ trcseen'[seen[e]][e] = trcseen[seen[e]][e]
      <3>1. e \in inuse[seen[e]] /\ seen[e] \in Sets /\ trcseen[seen[e]][e] < Expiry
        BY <2>3, <1>t, NotedIsYoung DEF CountInv, Fresh
      <3>2. <<seen[e], e>> \notin over
        BY <1>0, <1>t, <3>1 DEF AtLimit
      <3> QED
        BY <1>0, <1>t, <2>1, <2>2, <3>1, <3>2
    <2> QED
      BY <2>1, <2>3 DEF CountInv, Fresh, RoundIsSplit, Patience, Expiry
  <1>12. CASE Tick
    <2>1. /\ tonotify = {} /\ tosweep = {} /\ since < PollTime /\ since' = since + 1
          /\ seen' = IF missed /\ since' = PollTime THEN [d \in Devs |-> nil] ELSE seen
          /\ UNCHANGED <<owner, holders, inuse, missed, tonotify, tosweep>>
      BY <1>12 DEF Tick, Idle, env
    <2>2. since \in Nat /\ Patience' = Patience + 1
      BY <2>1 DEF Patience, TypeOK
    <2>3. ASSUME NEW e \in Devs, seen'[e] # nil
          PROVE  /\ seen'[e] = seen[e] /\ (missed => since' < PollTime)
                 /\ e \in inuse[seen[e]] /\ trcseen'[seen[e]][e] <= Patience'
      <3>1. seen' = seen /\ (missed => since' < PollTime)
        BY <2>1, <2>2, <2>3
      <3>2. e \in inuse[seen[e]] /\ seen[e] \in Sets /\ trcseen[seen[e]][e] <= Patience
        BY <2>1, <2>3, <3>1, <1>t DEF CountInv, Fresh
      <3>3. trcseen[seen[e]][e] < Expiry
        BY <2>3, <3>1, NotedIsYoung
      <3>4. trcseen'[seen[e]][e] = trcseen[seen[e]][e] + 1
        BY <1>12, <1>0, <1>t, <3>2, <3>3 DEF Tick, TypeOK
      <3> QED
        BY <1>0, <1>t, <2>2, <3>1, <3>2, <3>4
    <2> QED
      BY <2>1, <2>3 DEF CountInv, Fresh, RoundIsSplit
  <1>13. CASE UNCHANGED vars
    BY <1>13 DEF vars, env, poll, usage, CountInv, Fresh, RoundIsSplit, Patience, Expiry
  <1> QED
    BY <1>1, <1>2, <1>3, <1>4, <1>5, <1>6, <1>7, <1>8, <1>9, <1>10, <1>11, <1>12, <1>13
    DEF Next

(* A running container that the pod lister has found stays counted while   *)
(* answers come, and after a missing one until the next is due.            *)
THEOREM RunningStaysCounted == Spec => []RunningIsCounted
  <1>1. Init => CountInv
    BY DEF Init, CountInv, RoundIsSplit, Fresh
  <1>2. CountInv => RunningIsCounted
    BY DEF CountInv, Fresh, RunningIsCounted
  <1> QED
    BY <1>1, <1>2, CountStep, TypeCorrect, PTL DEF Spec

-----------------------------------------------------------------------------
(* Why request counts are real.  The counters only grow, and a start value *)
(* was read when the APQN was told or later; zero stands for one that has  *)
(* not been read yet, whose place the first good read takes.               *)
CountersAreOrdered ==
    \A s \in Sets : \A d \in apqns[s] :
        /\ first[s][d] <= count[d]
        /\ start[s][d] <= count[d]
        /\ start[s][d] # 0 => first[s][d] <= start[s][d]

(* What the loop reads: the counter or, if the read fails, zero; a start   *)
(* value that was missing becomes what is read.                            *)
LEMMA LoopReads ==
    ASSUME TypeOK, NEW lost \in Losses(Queues), ReadCounters(lost),
           NEW s \in Sets, NEW d \in apqns[s]
    PROVE  /\ current'[s][d] \in {0, count[d]}
           /\ lost = {} => current'[s][d] = count[d]
           /\ start'[s][d] = IF start[s][d] = 0 THEN current'[s][d] ELSE start[s][d]
  <1>1. d \in Devs
    BY DEF TypeOK
  <1> QED
    BY <1>1 DEF ReadCounters, apGetQueueRequestCounter

LEMMA CountersStep == TypeOK /\ CountersAreOrdered /\ [Next]_vars => CountersAreOrdered'
  <1> SUFFICES ASSUME TypeOK, CountersAreOrdered, [Next]_vars PROVE CountersAreOrdered'
    OBVIOUS
  <1>t. \A s \in Sets : \A d \in Devs :
            count[d] \in Nat /\ first[s][d] \in Nat /\ start[s][d] \in Nat
    BY DEF TypeOK
  <1>1. ASSUME UNCHANGED <<count, queues>> PROVE CountersAreOrdered'
    BY <1>1 DEF CountersAreOrdered, queues
  <1>2. ASSUME NEW d \in Devs, Request(d) PROVE CountersAreOrdered'
    <2>1. count' = [count EXCEPT ![d] = @ + 1] /\ UNCHANGED queues
      BY <1>2 DEF Request
    <2>2. \A e \in Devs : count'[e] \in Nat /\ count[e] <= count'[e]
      BY <2>1 DEF TypeOK
    <2>3. \A s \in Sets : apqns[s] \subseteq Devs
      BY DEF TypeOK
    <2> QED
      BY <1>t, <2>1, <2>2, <2>3 DEF CountersAreOrdered, queues
  <1>3. ASSUME NEW s \in Sets, tellMetricsCollAboutAPQNs(s) PROVE CountersAreOrdered'
    <2> DEFINE D == list'[s]
    <2>1. PICK lost : start' = [start EXCEPT ![s] = [d \in Devs |->
                    IF d \in D \cap apqns[s] THEN @[d]
                    ELSE IF d \in D THEN apGetQueueRequestCounter(lost, s, d) ELSE 0]]
      BY <1>3 DEF tellMetricsCollAboutAPQNs, MetricsCollAPQNs
    <2>2. /\ apqns' = [apqns EXCEPT ![s] = D]
          /\ first' = [first EXCEPT ![s] = [d \in Devs |->
                 IF d \in D \cap apqns[s] THEN @[d] ELSE IF d \in D THEN count[d] ELSE 0]]
          /\ count' = count /\ D \subseteq Devs
      BY <1>3 DEF tellMetricsCollAboutAPQNs, MetricsCollAPQNs, env, Mine, TypeOK
    <2> HIDE DEF D
    <2>3. ASSUME NEW d \in D
          PROVE  /\ first'[s][d] <= count[d]
                 /\ start'[s][d] <= count[d]
                 /\ start'[s][d] # 0 => first'[s][d] <= start'[s][d]
      <3>1. d \in Devs
        BY <2>2
      <3>2. CASE d \in apqns[s]
        BY <2>1, <2>2, <3>1, <3>2 DEF CountersAreOrdered, TypeOK
      <3>3. CASE d \notin apqns[s]
        <4>1. first'[s][d] = count[d] /\ start'[s][d] \in {0, count[d]}
          BY <2>1, <2>2, <3>1, <3>3 DEF TypeOK, apGetQueueRequestCounter
        <4> QED
          BY <1>t, <3>1, <4>1
      <3> QED
        BY <3>2, <3>3
    <2>4. ASSUME NEW t \in Sets, t # s
          PROVE  apqns'[t] = apqns[t] /\ first'[t] = first[t] /\ start'[t] = start[t]
      BY <2>1, <2>2, <2>4 DEF TypeOK
    <2>5. apqns'[s] = D
      BY <2>2 DEF TypeOK
    <2> QED
      BY <2>2, <2>3, <2>4, <2>5 DEF CountersAreOrdered
  <1>4. CASE doLoop
    <2>1. PICK lost \in Losses(Queues) : ReadCounters(lost)
      BY <1>4 DEF doLoop
    <2>2. UNCHANGED <<apqns, first, count>>
      BY <1>4 DEF doLoop, env
    <2>3. ASSUME NEW s \in Sets, NEW d \in apqns[s]
          PROVE  /\ start'[s][d] <= count[d]
                 /\ start'[s][d] # 0 => first[s][d] <= start'[s][d]
      <3>1. /\ current'[s][d] \in {0, count[d]}
            /\ start'[s][d] = IF start[s][d] = 0 THEN current'[s][d] ELSE start[s][d]
        BY <2>1, LoopReads
      <3>2. d \in Devs
        BY DEF TypeOK
      <3> QED
        BY <1>t, <3>1, <3>2 DEF CountersAreOrdered
    <2> QED
      BY <2>2, <2>3 DEF CountersAreOrdered
  <1> QED
    BY <1>1, <1>2, <1>3, <1>4
    DEF Next, vars, env, ConfigChange, Release, MetricsCollNotifyAboutRunningContainer,
        MetricsCollNotifyAboutDestroyNode, MetricsCollNotifyAboutAlloc,
        tellMetricsCollAboutPluginDevs, List, EndOfRound, Tick

(* No report invents requests, for any number of APQNs: each APQN adds at  *)
(* most what it has served, and sums are monotone.                         *)
THEOREM NoRequestInvented == Spec => RequestsAreReal
  <1>1. Init => CountersAreOrdered
    BY DEF Init, CountersAreOrdered
  <1>2. ASSUME TypeOK, CountersAreOrdered, doLoop, NEW s \in known
        PROVE  LET report == prepPromExpData' IN
               /\ report[s].requests <=
                      SumFunctionOnSet([d \in Devs |-> count[d] - first[s][d]], apqns[s])
               /\ fails' = fails => report[s].requests >= 0
    <2> DEFINE served == [d \in Devs |-> current'[s][d] - start'[s][d]]
               real   == [d \in Devs |-> count[d] - first[s][d]]
               D      == apqns[s]
    <2>1. PICK lost \in Losses(Queues) : ReadCounters(lost) /\ fails' = fails + Cardinality(lost)
      BY <1>2 DEF doLoop
    <2>2. s \in Sets /\ D \subseteq Devs /\ IsFiniteSet(D)
      BY <1>2, FS_Subset DEF TypeOK
    <2>3. prepPromExpData'[s].requests = SumFunctionOnSet(served, D)
      BY <1>2 DEF doLoop, prepPromExpData
    <2>4. ASSUME NEW d \in D
          PROVE  /\ count[d] \in Nat /\ first[s][d] \in Nat /\ start[s][d] \in Nat
                 /\ current'[s][d] \in {0, count[d]}
                 /\ lost = {} => current'[s][d] = count[d]
                 /\ start'[s][d] = IF start[s][d] = 0 THEN current'[s][d] ELSE start[s][d]
                 /\ first[s][d] <= count[d] /\ start[s][d] <= count[d]
                 /\ start[s][d] # 0 => first[s][d] <= start[s][d]
      <3>1. d \in Devs
        BY <2>2
      <3>2. count[d] \in Nat /\ first[s][d] \in Nat /\ start[s][d] \in Nat
        BY <1>2, <2>2, <3>1 DEF TypeOK
      <3> QED
        BY <1>2, <2>1, <2>2, <3>2, LoopReads DEF CountersAreOrdered
    <2>5. \A d \in D : served[d] \in Int /\ real[d] \in Int /\ served[d] <= real[d]
      BY <2>2, <2>4
    <2>6. SumFunctionOnSet(served, D) <= SumFunctionOnSet(real, D)
      <3> HIDE DEF served, real, D
      <3> QED
        BY <2>2, <2>5, SumMonotone
    <2>7. ASSUME fails' = fails PROVE SumFunctionOnSet(served, D) >= 0
      <3>1. lost = {}
        <4>1. Queues \in SUBSET (Sets \X Devs) /\ fails \in Nat
          BY <1>2 DEF Queues, TypeOK
        <4> QED
          BY <2>1, <2>7, <4>1, LossesCount
      <3>2. \A d \in D : served[d] \in Nat
        BY <2>2, <2>4, <3>1
      <3>3. SumFunctionOnSet(served, D) \in Nat
        <4> HIDE DEF served, D
        <4>1. \A d \in D : \A v \in Nat : served[d] + v \in Nat
          BY <3>2
        <4> QED
          BY <2>2, <4>1, SumClosed
      <3> QED
        BY <3>3
    <2> QED
      BY <2>3, <2>6, <2>7
  <1>3. TypeOK /\ CountersAreOrdered /\ [Next]_vars =>
          [doLoop =>
             LET report == prepPromExpData' IN
             \A s \in known :
                 /\ report[s].requests <=
                        SumFunctionOnSet([d \in Devs |-> count[d] - first[s][d]], apqns[s])
                 /\ fails' = fails => report[s].requests >= 0]_vars
    BY <1>2
  <1> QED
    BY <1>1, <1>3, CountersStep, TypeCorrect, PTL DEF Spec, RequestsAreReal

=============================================================================
