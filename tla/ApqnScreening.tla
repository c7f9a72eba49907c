---------------------------- MODULE ApqnScreening ----------------------------
(***************************************************************************)
(* From the configuration file and the AP bus to the devices of every set: *)
(* a file is verified or refused as a whole, each set's plug-in screens    *)
(* the APQNs of the machine against its set, at its own pace, and the pod  *)
(* lister looks the set of an APQN up in the current configuration.        *)
(*                                                                         *)
(* Goroutines, tags and locks are the subject of ConfigWatcher and         *)
(* DevicePlugin; here every function is one step, and its input is the     *)
(* subject.                                                                *)
(***************************************************************************)
EXTENDS CryptoConfig

CONSTANTS
    Configs,     \* what the configuration file may say
    Hardware,    \* what a scan of the AP bus may return
    Names,       \* names of config sets: there is a plug-in for each
    Limit,       \* devices per APQN
    MaxEdits     \* bound on the changes of the file

(* A scan lists every APQN once: it walks the directories of the cards and *)
(* of their queues.  No card has a generation with two digits: the         *)
(* comparison of strings in filterAPQNs takes cex10 for older than cex4.   *)
ASSUME HardwareAssumption ==
    \A list \in Hardware :
        /\ list \in Seq(ToSet(list))
        /\ \A i \in DOMAIN list : list[i].gen \in 1 .. 9
        /\ \A i, j \in DOMAIN list :
               list[i].adapter = list[j].adapter /\ list[i].domain = list[j].domain => i = j

(* What JSON decoding gives: a list of sets, each with the fields of the   *)
(* structure and a list of definitions, which name machines of the cluster *)
(* or none.                                                                *)
ASSUME ConfigAssumption ==
    \A c \in Configs :
        /\ c \in Seq(ToSet(c))
        /\ \A i \in DOMAIN c :
               /\ c[i] = [setname |-> c[i].setname, project |-> c[i].project,
                          cexmode |-> c[i].cexmode, mincexgen |-> c[i].mincexgen,
                          apqns |-> c[i].apqns]
               /\ c[i].apqns \in Seq(ToSet(c[i].apqns))
               /\ \A k \in DOMAIN c[i].apqns :
                      c[i].apqns[k].machineid \in Machines \cup {AnyMachine}

ASSUME LimitAssumption == Limit \in Int

VARIABLES
    file,       \* the configuration in the file
    cc,         \* the current configuration, or nil
    hw,         \* what the AP bus shows
    ccset,      \* p.ccset, p.apqns and p.devices of each plug-in
    apqns,
    devices,
    edits

plugins == <<ccset, apqns, devices>>
vars == <<file, cc, hw, plugins, edits>>

-----------------------------------------------------------------------------
Init ==
    /\ file \in Configs
    /\ cc = nil
    /\ hw \in Hardware
    /\ ccset = [n \in Names |-> nil]
    /\ apqns = [n \in Names |-> <<>>]
    /\ devices = [n \in Names |-> <<>>]
    /\ edits = 0

(* The administrator writes another file.                                  *)
Edit ==
    /\ edits < MaxEdits
    /\ file' \in Configs \ {file}
    /\ edits' = edits + 1
    /\ UNCHANGED <<cc, hw, plugins>>

updateConfig ==
    /\ cc' = IF Verify(file) THEN file ELSE nil
    /\ UNCHANGED <<file, hw, plugins, edits>>

(* APQNs come, go, and are set online and offline.                         *)
HardwareChange ==
    /\ hw' \in Hardware \ {hw}
    /\ UNCHANGED <<file, cc, plugins, edits>>

checkChanged(n) ==
    LET set  == GetCryptoConfigSet(cc, n)
        list == filterAPQNs(set, hw)
    IN  /\ \/ ~apEqualAPQNLists(list, apqns[n])
           \/ set # nil /\ ccset[n] = nil
        /\ ccset' = [ccset EXCEPT ![n] = set]
        /\ apqns' = [apqns EXCEPT ![n] = list]
        /\ devices' = [devices EXCEPT ![n] = makePluginDevsFromAPQNs(set, list, Limit)]
        /\ UNCHANGED <<file, cc, hw, edits>>

Next ==
    \/ Edit
    \/ updateConfig
    \/ HardwareChange
    \/ \E n \in Names : checkChanged(n)

Spec == Init /\ [][Next]_vars

-----------------------------------------------------------------------------
(* Verify accepts exactly the well-formed configurations: its pairwise     *)
(* comparison with wildcards (cryptoconfigs.go:118-127, 208-229) amounts   *)
(* to no machine having an APQN in two places.                             *)
VerifyIsExact == Verify(file) <=> WellFormed(file)

(* The set the pod lister finds for a device's APQN (podlister.go:241) is  *)
(* the set whose plug-in announces it (plugin.go:138-153), whatever other  *)
(* machines define.                                                        *)
LookupAgrees ==
    \A n \in Names : \A a \in ToSet(filterAPQNs(GetCryptoConfigSet(cc, n), hw)) :
        GetCryptoConfigSetForThisAPQN(cc, a, ThisMachine) = GetCryptoConfigSet(cc, n)

(* A check that sees no change (ap.go:217-248, plugin.go:198) has nothing  *)
(* to do: the plug-in's list is exactly the APQNs eligible for its set,    *)
(* with their present state.  The comparison is one-way and by counting,   *)
(* which is enough only because no list names an APQN twice.               *)
NoChangeMissed ==
    \A n \in Names :
        LET set == GetCryptoConfigSet(cc, n)
        IN  apEqualAPQNLists(filterAPQNs(set, hw), apqns[n])
                => ToSet(apqns[n]) = Eligible(set, hw)

(* The kubelet is never told the same device id twice, neither by one      *)
(* plug-in nor by two that have both screened with the current             *)
(* configuration and hardware (plugin.go:172-177).                         *)
Ids(n) == [i \in DOMAIN devices[n] |-> devices[n][i].id]
InStep(n) == ToSet(apqns[n]) = Eligible(GetCryptoConfigSet(cc, n), hw)
NoDeviceTwice ==
    /\ \A n \in Names : IsInjective(Ids(n))
    /\ \A n1, n2 \in Names :
           n1 # n2 /\ InStep(n1) /\ InStep(n2) => Range(Ids(n1)) \cap Range(Ids(n2)) = {}

=============================================================================
