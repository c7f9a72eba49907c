------------------------ MODULE PluginManager_proofs ------------------------
(***************************************************************************)
(* Discover and the manager leave the watcher and its readers what they    *)
(* are: what is proved of ConfigWatcher holds of the composition.  The     *)
(* manager runs the plug-ins Discover has announced.                       *)
(***************************************************************************)
EXTENDS PluginManager, ConfigWatcher_proofs

(* Plug-ins that come and go are readers that join late or stop reading:   *)
(* every step of the composition is a step of ConfigWatcher or a stutter.  *)
THEOREM ImplementsWatcher == ManagerSpec => Spec
  <1>1. ManagerInit => Init
    BY DEF ManagerInit
  <1>2. [ManagerNext]_managerVars => [Next]_vars
    <2> SUFFICES ASSUME [ManagerNext]_managerVars PROVE Next \/ UNCHANGED vars
      OBVIOUS
    <2>1. CASE Edit \/ Watcher
      BY <2>1 DEF Watcher, Next
    <2>2. CASE Discover \/ Receive \/ AddedAll \/ RemovedAll \/ HardwareChange
      BY <2>2 DEF Discover, Receive, AddedAll, RemovedAll, HardwareChange
    <2>3. ASSUME NEW r \in Readers, AddPlugin(r) \/ RemovePlugin(r) \/ Check(r)
          PROVE  Next \/ UNCHANGED vars
      BY <2>3 DEF AddPlugin, RemovePlugin, Check, Next
    <2>4. CASE UNCHANGED managerVars
      BY <2>4 DEF managerVars
    <2> QED
      BY <2>1, <2>2, <2>3, <2>4 DEF ManagerNext
  <1> QED
    BY <1>1, <1>2, PTL DEF ManagerSpec, Spec

(* The readers follow the tags in the composition too.                     *)
THEOREM PluginsInStep ==
    ASSUME EditsDuringUpdate = FALSE
    PROVE  ManagerSpec => []ReaderInStep
  BY ImplementsWatcher, ReadersInStep, PTL

-----------------------------------------------------------------------------
(* Only names of verified configurations are announced.                    *)
LEMMA NamesAreReaders == \A c \in Active : Names(c) \subseteq Readers
  <1> USE DEF Names, Config!GetListOfSetNames, Config!ToSet
  <1>1. Names(nil) = {}
    <2>1. DOMAIN << >> = {}
      OBVIOUS
    <2> QED
      BY <2>1
  <1>2. ASSUME NEW c \in Valid PROVE Names(c) \subseteq Readers
    <2>1. Names(c) = {[i \in DOMAIN c |-> c[i].setname][k] : k \in DOMAIN c}
      BY ContentsAssumption
    <2> QED
      BY <2>1, NamesAssumption
  <1> QED
    BY <1>1, <1>2 DEF Active

(* Types of the composition, for any configurations and edits.             *)
THEOREM ManagerTypeCorrect == ManagerSpec => []ManagerTypeOK
  <1> DEFINE Own == /\ setnameslist \subseteq Readers
                    /\ discover \in {"start", "send", "select"}
                    /\ mgr \in {"select", "add", "remove"}
                    /\ wanted \subseteq Readers
                    /\ plugins \subseteq Readers
                    /\ hw \in Hardware
                    /\ DOMAIN apqns = Readers
  <1>1. ManagerInit => Own
    BY DEF ManagerInit
  <1>2. TypeOK /\ Own /\ [ManagerNext]_managerVars => Own'
    <2> SUFFICES ASSUME TypeOK, Own, [ManagerNext]_managerVars PROVE Own'
      OBVIOUS
    <2> USE DEF screening
    <2>1. CASE UNCHANGED <<manager, screening>>
      BY <2>1 DEF manager
    <2>2. CASE Discover
      BY <2>2, NamesAreReaders DEF Discover, TypeOK
    <2>3. CASE Receive \/ AddedAll \/ RemovedAll
      BY <2>3 DEF Receive, AddedAll, RemovedAll
    <2>4. ASSUME NEW r \in Readers, AddPlugin(r) \/ RemovePlugin(r) PROVE Own'
      BY <2>4 DEF AddPlugin, RemovePlugin
    <2>5. ASSUME NEW r \in Readers, Check(r) PROVE Own'
      BY <2>5 DEF Check, manager
    <2>6. CASE HardwareChange
      BY <2>6 DEF HardwareChange, manager
    <2> QED
      BY <2>1, <2>2, <2>3, <2>4, <2>5, <2>6 DEF ManagerNext, Watcher, managerVars
  <1>3. TypeOK /\ Own => ManagerTypeOK
    BY DEF ManagerTypeOK
  <1> QED
    BY <1>1, <1>2, <1>3, ImplementsWatcher, TypeCorrect, PTL DEF ManagerSpec

-----------------------------------------------------------------------------
(* The set a name stands for in a verified configuration is one of its     *)
(* sets, and it has that name.                                             *)
LEMMA SetOfName ==
    ASSUME NEW c \in Valid, NEW n, Config!GetCryptoConfigSet(c, n) # nil
    PROVE  \E i \in DOMAIN c : c[i].setname = n /\ Config!GetCryptoConfigSet(c, n) = c[i]
  <1> DEFINE I == {i \in 1 .. Len(c) : c[i].setname = n}
  <1>1. c # nil /\ DOMAIN c = 1 .. Len(c) /\ Len(c) \in Nat
    BY ContentsAssumption, NamesAssumption
  <1>2. Config!GetCryptoConfigSet(c, n)
            = IF (IF I # {} THEN Config!Min(I) ELSE 0) = 0
                THEN nil ELSE c[IF I # {} THEN Config!Min(I) ELSE 0]
    BY <1>1 DEF Config!GetCryptoConfigSet, Config!FirstSet, Config!SelectInSeq
  <1>3. PICK i \in I : TRUE
    BY <1>2
  <1>4. \A j \in I : j = i
    BY <1>1, VerifiedAssumption DEF Config!Verify
  <1>5. Config!Min(I) = i
    BY <1>1, <1>3, <1>4 DEF Config!Min
  <1> QED
    BY <1>1, <1>2, <1>3, <1>5

(* Sets of different names of one verified configuration share no APQN of  *)
(* this machine.                                                           *)
LEMMA SetsAreDisjoint ==
    ASSUME NEW c \in Valid, NEW i \in DOMAIN c, NEW j \in DOMAIN c, i # j,
           NEW d \in Config!ToSet(c[i].apqns), NEW e \in Config!ToSet(c[j].apqns),
           Config!Covers(d, d, ThisMachine), Config!Covers(e, e, ThisMachine)
    PROVE  <<d.adapter, d.domain>> # <<e.adapter, e.domain>>
  <1>1. Config!checkapqns(d, e)
    BY VerifiedAssumption DEF Config!Verify, Config!ToSet
  <1> QED
    BY <1>1 DEF Config!checkapqns, Config!Covers

(* Whatever happened before, plug-ins with the same tag claim different    *)
(* APQNs, if the file does not change between the two reads of an update.  *)
THEOREM PluginsAreDisjoint ==
    ASSUME EditsDuringUpdate = FALSE
    PROVE  ManagerSpec => []DisjointInStep
  <1>1. ManagerTypeOK /\ TagIsContent => DisjointInStep
    <2> SUFFICES ASSUME ManagerTypeOK, TagIsContent,
                        NEW r1 \in plugins, NEW r2 \in plugins,
                        r1 # r2, cctag[r1] = cctag[r2],
                        NEW x \in Claims(r1), x \in Claims(r2)
                 PROVE  FALSE
      BY DEF DisjointInStep
    <2> DEFINE c == ccset[r1]
               S(r) == Config!GetCryptoConfigSet(c, r)
    <2>1. c = ccset[r2] /\ c \in Active
      BY DEF ManagerTypeOK, TypeOK, TagIsContent
    <2>2. S(r1) # nil /\ S(r2) # nil
      BY <2>1 DEF Claims
    <2>3. c \in Valid
      BY <2>1, <2>2 DEF Active, Config!GetCryptoConfigSet, Config!FirstSet
    <2>4. PICK i \in DOMAIN c : c[i].setname = r1 /\ S(r1) = c[i]
      BY <2>2, <2>3, SetOfName
    <2>5. PICK j \in DOMAIN c : c[j].setname = r2 /\ S(r2) = c[j]
      BY <2>2, <2>3, SetOfName
    <2>6. PICK d \in Config!ToSet(c[i].apqns) :
              Config!Covers(d, d, ThisMachine) /\ x = <<d.adapter, d.domain>>
      BY <2>2, <2>4 DEF Claims
    <2>7. PICK e \in Config!ToSet(c[j].apqns) :
              Config!Covers(e, e, ThisMachine) /\ x = <<e.adapter, e.domain>>
      BY <2>1, <2>2, <2>5 DEF Claims
    <2> QED
      BY <2>3, <2>4, <2>5, <2>6, <2>7, SetsAreDisjoint
  <1>2. Spec => []TagIsContent
    BY TagsAreContents
  <1> QED
    BY <1>1, <1>2, ImplementsWatcher, ManagerTypeCorrect, PTL

-----------------------------------------------------------------------------
(* ManagerInStep, with what is true between the two selects.               *)
ManagerInv ==
    /\ discover \in {"start", "send", "select"}
    /\ mgr \in {"select", "add", "remove"}
    /\ mgr = "select" => plugins = wanted
    /\ mgr = "remove" => wanted \subseteq plugins
    /\ discover = "select" => wanted = setnameslist

(* Comparing with the list announced last is comparing with what runs.     *)
THEOREM ManagersInStep == ManagerSpec => []ManagerInStep
  <1>1. ManagerInit => ManagerInv
    BY DEF ManagerInit, ManagerInv
  <1>2. ManagerInv /\ [ManagerNext]_managerVars => ManagerInv'
    <2> SUFFICES ASSUME ManagerInv, [ManagerNext]_managerVars PROVE ManagerInv'
      OBVIOUS
    <2> USE DEF ManagerInv
    <2>1. CASE (Edit \/ Watcher) /\ UNCHANGED manager
      BY <2>1 DEF manager
    <2>2. CASE Discover
      BY <2>2 DEF Discover
    <2>3. CASE Receive
      BY <2>3 DEF Receive
    <2>4. CASE AddedAll
      BY <2>4 DEF AddedAll
    <2>5. CASE RemovedAll
      BY <2>5 DEF RemovedAll
    <2>6. ASSUME NEW r \in Readers, AddPlugin(r) PROVE ManagerInv'
      BY <2>6 DEF AddPlugin
    <2>7. ASSUME NEW r \in Readers, RemovePlugin(r) PROVE ManagerInv'
      BY <2>7 DEF RemovePlugin
    <2>8. CASE UNCHANGED manager
      BY <2>8 DEF manager
    <2> QED
      BY <2>1, <2>2, <2>3, <2>4, <2>5, <2>6, <2>7, <2>8
      DEF ManagerNext, HardwareChange, Watcher, Check, managerVars
  <1>3. ManagerInv => ManagerInStep
    BY DEF ManagerInv, ManagerInStep
  <1> QED
    BY <1>1, <1>2, <1>3, PTL DEF ManagerSpec

=============================================================================
