---------------------------- MODULE PluginManager ----------------------------
(***************************************************************************)
(* One plug-in per config set: Discover (plugin.go) polls the current      *)
(* configuration and sends the names of its sets over an unbuffered        *)
(* channel to the device plug-in manager (the dpm library), which makes    *)
(* and starts the plug-ins of new names and stops those of names that are  *)
(* gone.  Composed with ConfigWatcher: the plug-ins are its readers, but   *)
(* only a plug-in that runs reads, and what it reads it keeps only if that *)
(* makes a difference to it.                                               *)
(*                                                                         *)
(* A list of names is a set: Discover sorts both lists it compares, and    *)
(* the names of a verified configuration are unique.  So is a list of      *)
(* APQNs: ApqnScreening shows that filterAPQNs lists the eligible ones and *)
(* that its comparison of lists is one of sets.  Start is taken to succeed *)
(* and Stop to return; DevicePlugin shows when they do not.                *)
(***************************************************************************)
EXTENDS ConfigWatcher, Sequences

CONSTANTS
    QualifiedNames, Machines, ThisMachine, AnyMachine,
    Hardware   \* what a scan of the AP bus may return

Config == INSTANCE CryptoConfig

(* The contents that parse are configurations.                             *)
ASSUME VerifiedAssumption == Valid = {c \in Contents : Config!Verify(c)}

(* Every set of every configuration has a possible plug-in.                *)
ASSUME NamesAssumption ==
    \A c \in Valid : /\ c \in Seq(Config!ToSet(c))
                     /\ \A i \in DOMAIN c : c[i].setname \in Readers

VARIABLES
    setnameslist,   \* z.setnameslist: the names last announced
    discover,       \* where Discover stands: start, send, select
    mgr,            \* where the manager stands: select, add, remove
    wanted,         \* the list the manager has last received
    plugins,        \* the plug-ins it has started and not stopped
    hw,             \* what the AP bus shows
    apqns           \* p.apqns of each plug-in

manager == <<setnameslist, discover, mgr, wanted, plugins>>
screening == <<hw, apqns>>
managerVars == <<vars, manager, screening>>

Names(c) == Config!ToSet(Config!GetListOfSetNames(c))

(* The APQNs of the machine a configuration gives to a plug-in.            *)
Screened(c, r) == Config!Eligible(Config!GetCryptoConfigSet(c, r), hw)

-----------------------------------------------------------------------------
ManagerInit ==
    /\ Init
    /\ setnameslist = {}
    /\ discover = "start"
    /\ mgr = "select"
    /\ wanted = {}
    /\ plugins = {}
    /\ hw \in Hardware
    /\ apqns = [r \in Readers |-> {}]

(* Discover's first list, once main has found a valid configuration, and   *)
(* the lists of the ticks that find other names.                           *)
Discover_Count ==   \* mutant: only the lengths of the lists are compared
    /\ \/ discover = "start" /\ up
       \/ discover = "select" /\ Config!Cardinality(Names(cc)) # Config!Cardinality(setnameslist)
    /\ setnameslist' = Names(cc)
    /\ discover' = "send"
    /\ UNCHANGED <<vars, mgr, wanted, plugins, screening>>
Discover_NonBlocking ==   \* mutant: a list the manager cannot take is dropped
    /\ \/ discover = "start" /\ up
       \/ discover = "select" /\ Names(cc) # setnameslist
    /\ setnameslist' = Names(cc)
    /\ discover' = IF mgr = "select" THEN "send" ELSE "select"
    /\ UNCHANGED <<vars, mgr, wanted, plugins, screening>>
Discover ==
    /\ \/ discover = "start" /\ up
       \/ discover = "select" /\ Names(cc) # setnameslist
    /\ setnameslist' = Names(cc)
    /\ discover' = "send"
    /\ UNCHANGED <<vars, mgr, wanted, plugins, screening>>

(* The rendezvous on the channel.                                          *)
Receive ==
    /\ discover = "send"
    /\ mgr = "select"
    /\ wanted' = setnameslist
    /\ discover' = "select"
    /\ mgr' = "add"
    /\ UNCHANGED <<vars, setnameslist, plugins, screening>>

(* handleNewPlugins: plug-ins of new names are made and started            *)
(* concurrently, then those of missing names are stopped; the manager      *)
(* waits for all of them.                                                  *)
AddPlugin(r) ==
    /\ mgr = "add"
    /\ r \in wanted \ plugins
    /\ NewPlugin(r)
    /\ plugins' = plugins \cup {r}
    /\ apqns' = [apqns EXCEPT ![r] = Screened(cc, r)]
    /\ UNCHANGED <<setnameslist, discover, mgr, wanted, hw>>

AddedAll ==
    /\ mgr = "add"
    /\ wanted \subseteq plugins
    /\ mgr' = "remove"
    /\ UNCHANGED <<vars, setnameslist, discover, wanted, plugins, screening>>

RemovePlugin(r) ==
    /\ mgr = "remove"
    /\ r \in plugins \ wanted
    /\ plugins' = plugins \ {r}
    /\ apqns' = [apqns EXCEPT ![r] = {}]
    /\ UNCHANGED <<vars, setnameslist, discover, mgr, wanted, hw>>

RemovedAll ==
    /\ mgr = "remove"
    /\ plugins \subseteq wanted
    /\ mgr' = "select"
    /\ UNCHANGED <<vars, setnameslist, discover, wanted, plugins, screening>>

(* APQNs come, go, and are set online and offline.                         *)
HardwareChange ==
    /\ hw' \in Hardware \ {hw}
    /\ UNCHANGED <<vars, manager, apqns>>

(* The check of a running plug-in.  The fetched set is stored, with its    *)
(* tag, if it gives other APQNs, and possibly if it gives the same: the    *)
(* overcommit and livesysfs values of the old set, which no file can give, *)
(* differ from those of the new one until a check has adjusted them.       *)
(* Otherwise set and tag are dropped.                                      *)
Check(r) ==
    /\ r \in plugins
    /\ \/ /\ cctag[r] = tag
          /\ Screened(ccset[r], r) # apqns[r]
          /\ apqns' = [apqns EXCEPT ![r] = Screened(ccset[r], r)]
          /\ UNCHANGED vars
       \/ /\ \/ Screened(cc, r) # apqns[r]
             \/ Config!GetCryptoConfigSet(cc, r) # nil
          /\ GetCurrentCryptoConfigSet(r)
          /\ apqns' = [apqns EXCEPT ![r] = Screened(cc, r)]
    /\ UNCHANGED <<manager, hw>>

(* The checks that code and scheduling make sure of.                       *)
CheckOfChange(r) == Check(r) /\ apqns' # apqns

Watcher == (ccGetTag \/ updateConfig \/ Restart) /\ UNCHANGED <<manager, screening>>

ManagerNext ==
    \/ Edit /\ UNCHANGED <<manager, screening>>
    \/ HardwareChange
    \/ Watcher
    \/ Discover
    \/ Receive
    \/ AddedAll
    \/ RemovedAll
    \/ \E r \in Readers : AddPlugin(r) \/ RemovePlugin(r) \/ Check(r)

ManagerSpec == ManagerInit /\ [][ManagerNext]_managerVars

(* Tickers fire for ever, no goroutine is starved, Start and Stop return,  *)
(* the AP bus can be scanned, a container that died is started again.      *)
ManagerFairness ==
    /\ WF_managerVars(ccGetTag /\ UNCHANGED <<manager, screening>>)
    /\ WF_managerVars(updateConfig /\ UNCHANGED <<manager, screening>>)
    /\ WF_managerVars(Restart /\ UNCHANGED <<manager, screening>>)
    /\ WF_managerVars(Discover)
    /\ WF_managerVars(Receive)
    /\ WF_managerVars(AddedAll)
    /\ WF_managerVars(RemovedAll)
    /\ \A r \in Readers : /\ WF_managerVars(AddPlugin(r))
                          /\ WF_managerVars(RemovePlugin(r))
                          /\ WF_managerVars(CheckOfChange(r))

ManagerFairSpec == ManagerSpec /\ ManagerFairness

-----------------------------------------------------------------------------
(* Types and bounds, of the watcher too: neither it nor a plug-in ever has *)
(* a configuration that Verify refuses (cryptoconfigs.go:469), and only    *)
(* names of verified sets get a plug-in.                                   *)
ManagerTypeOK ==
    /\ TypeOK
    /\ setnameslist \subseteq Readers
    /\ discover \in {"start", "send", "select"}
    /\ mgr \in {"select", "add", "remove"}
    /\ wanted \subseteq Readers
    /\ plugins \subseteq Readers
    /\ hw \in Hardware
    /\ DOMAIN apqns = Readers

(* When the manager is back in its select the plug-ins that run are those  *)
(* of the list it received, and while Discover waits for its next tick     *)
(* that is the list Discover announced last (plugin.go:105-108), so that   *)
(* comparing with z.setnameslist is comparing with what runs.              *)
ManagerInStep ==
    /\ mgr = "select" => plugins = wanted
    /\ discover = "select" => wanted = setnameslist

(* Two plug-ins that work with the same version of the configuration never *)
(* claim the same APQN of this machine, through any history of edits,      *)
(* refused files, plug-ins made late and plug-ins stopped                  *)
(* (cryptoconfigs.go:219-229, 512; plugin.go:143).                         *)
Claims(r) ==
    LET set == Config!GetCryptoConfigSet(ccset[r], r)
    IN  IF set = nil THEN {}
        ELSE {<<def.adapter, def.domain>> : def \in
                {d \in Config!ToSet(set.apqns) : Config!Covers(d, d, ThisMachine)}}
DisjointInStep ==
    \A r1, r2 \in plugins :
        r1 # r2 /\ cctag[r1] = cctag[r2] => Claims(r1) \cap Claims(r2) = {}

(* A configuration that stays gets its plug-ins, one for each of its sets  *)
(* and no other; without a configuration all are stopped                   *)
(* (plugin.go:92-113).                                                     *)
PluginsFollow == \A c \in Active : <>[](cc = c) => <>[](plugins = Names(c))

(* No plug-in that runs is left behind: however file and hardware change,  *)
(* again and again its list is the APQNs eligible for its set in the       *)
(* current configuration, although a check may drop the set it fetched     *)
(* and keep an old one with an old tag (cryptoconfigs.go:509-516,          *)
(* plugin.go:187-240).                                                     *)
RunningServeCurrent ==
    \A r \in Readers : []<>(r \in plugins => apqns[r] = Screened(cc, r))

=============================================================================
