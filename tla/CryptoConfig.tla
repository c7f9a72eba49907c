---------------------------- MODULE CryptoConfig ----------------------------
(***************************************************************************)
(* The crypto configuration (cryptoconfigs.go) and what the plug-ins       *)
(* derive from it (plugin.go, ap.go), as operators.                        *)
(*                                                                         *)
(*   - A configuration is a sequence of config sets                        *)
(*       [setname, project, cexmode, mincexgen, apqns]                     *)
(*     and apqns a sequence of definitions [adapter, domain, machineid].   *)
(*     An empty machine id stands for every machine.                       *)
(*   - An APQN of the machine, as the scan of the AP bus shows it, is      *)
(*       [adapter, domain, gen, mode, online].                             *)
(*                                                                         *)
(* A card generation "cex<n>" is the number n, a mincexgen that is not     *)
(* given is 0.  overcommit and livesysfs are fields that JSON decoding     *)
(* never fills; Verify gives them their defaults.                          *)
(***************************************************************************)
EXTENDS Integers, SequencesExt

CONSTANTS
    QualifiedNames,   \* the names validation.IsQualifiedName accepts
    Machines,         \* machine ids of the cluster
    ThisMachine,      \* the one this plug-in process found in /proc/sysinfo
    AnyMachine,       \* the empty machine id
    nil

ASSUME MachineAssumption == ThisMachine \in Machines /\ AnyMachine \notin Machines

-----------------------------------------------------------------------------
(* FALSE if there is a machine on which the definitions mean one APQN.     *)
checkapqns(a1, a2) ==
    ~ /\ a1.adapter = a2.adapter
      /\ a1.domain = a2.domain
      /\ a1.machineid = a2.machineid \/ AnyMachine \in {a1.machineid, a2.machineid}

(* The checks of one set that look at nothing else.                        *)
ValidFields(s) ==
    /\ s.setname \in QualifiedNames
    /\ s.project # ""
    /\ s.cexmode \in {"", "ep11", "cca", "accel"}
    /\ s.mincexgen \in {0} \cup 4 .. 9

Verify_OwnSetOnly(c) ==   \* mutant: no comparison with the other sets
    \A i \in DOMAIN c :
        /\ ValidFields(c[i])
        /\ \A j \in DOMAIN c \ {i} : c[i].setname # c[j].setname
        /\ \A k \in DOMAIN c[i].apqns :
               /\ c[i].apqns[k].adapter \in 0 .. 255
               /\ c[i].apqns[k].domain \in 0 .. 255
               /\ \A n \in DOMAIN c[i].apqns \ {k} :
                      checkapqns(c[i].apqns[k], c[i].apqns[n])
Verify_OtherSetsOnly(c) ==   \* mutant: no comparison within the set
    \A i \in DOMAIN c :
        /\ ValidFields(c[i])
        /\ \A j \in DOMAIN c \ {i} : c[i].setname # c[j].setname
        /\ \A k \in DOMAIN c[i].apqns :
               /\ c[i].apqns[k].adapter \in 0 .. 255
               /\ c[i].apqns[k].domain \in 0 .. 255
               /\ \A j \in DOMAIN c \ {i} : \A n \in DOMAIN c[j].apqns :
                      checkapqns(c[i].apqns[k], c[j].apqns[n])
Verify(c) ==
    \A i \in DOMAIN c :
        /\ ValidFields(c[i])
        /\ \A j \in DOMAIN c \ {i} : c[i].setname # c[j].setname
        /\ \A k \in DOMAIN c[i].apqns :
               /\ c[i].apqns[k].adapter \in 0 .. 255
               /\ c[i].apqns[k].domain \in 0 .. 255
               /\ \A n \in DOMAIN c[i].apqns \ {k} :
                      checkapqns(c[i].apqns[k], c[i].apqns[n])
               /\ \A j \in DOMAIN c \ {i} : \A n \in DOMAIN c[j].apqns :
                      checkapqns(c[i].apqns[k], c[j].apqns[n])

GetListOfSetNames(c) ==
    IF c = nil THEN <<>> ELSE [i \in DOMAIN c |-> c[i].setname]

-----------------------------------------------------------------------------
(* Lookups.  The definition means the APQN on machine m.                   *)
Covers(def, a, m) ==
    /\ def.adapter = a.adapter
    /\ def.domain = a.domain
    /\ def.machineid \in {AnyMachine, m}

(* The first set that passes the test, or nil.                             *)
FirstSet(c, Test(_)) ==
    LET i == IF c = nil THEN 0 ELSE SelectInSeq(c, Test)
    IN  IF i = 0 THEN nil ELSE c[i]

GetCryptoConfigSet(c, setname) == FirstSet(c, LAMBDA s : s.setname = setname)

GetCryptoConfigSetForThisAPQN_AllMachines(c, a, m) ==   \* mutant
    FirstSet(c, LAMBDA s : \E k \in DOMAIN s.apqns :
        s.apqns[k].adapter = a.adapter /\ s.apqns[k].domain = a.domain)
GetCryptoConfigSetForThisAPQN(c, a, m) ==
    FirstSet(c, LAMBDA s : \E k \in DOMAIN s.apqns : Covers(s.apqns[k], a, m))

-----------------------------------------------------------------------------
(* What a plug-in announces.                                               *)

(* "cex<gen>" < "cex<min>", a comparison of strings, min having one digit  *)
(* and gen at most two.                                                    *)
LeadingDigit(n) == IF n < 10 THEN n ELSE n \div 10
GenBelow(gen, min) == LeadingDigit(gen) < min

(* An APQN is listed once for every definition of the set that it passes.  *)
filterAPQNs(ccset, list) ==
    LET Passes(a, def) == /\ Covers(def, a, ThisMachine)
                          /\ ~GenBelow(a.gen, ccset.mincexgen)
        Passed(a) == {k \in DOMAIN ccset.apqns : Passes(a, ccset.apqns[k])}
        Copies(a) == [k \in 1 .. Cardinality(Passed(a)) |-> a]
    IN  IF ccset = nil THEN <<>>
                       ELSE FlattenSeq([i \in DOMAIN list |-> Copies(list[i])])

makePluginDevsFromAPQNs(ccset, list, limit) ==
    LET Device(a, i) == [id |-> <<a.adapter, a.domain, i>>, healthy |-> a.online]
        Devices(a)   == [i \in 1 .. Max({1, limit}) |-> Device(a, i - 1)]
    IN  IF ccset = nil THEN <<>>
                       ELSE FlattenSeq([i \in DOMAIN list |-> Devices(list[i])])

apEqualAPQNLists_NoState(l1, l2) ==   \* mutant: the online state is left out
    /\ Len(l1) = Len(l2)
    /\ \A i \in DOMAIN l1 :
           LET a == l1[i]
               j == SelectInSeq(l2, LAMBDA b : b.adapter = a.adapter /\ b.domain = a.domain)
           IN  j # 0 /\ l2[j].gen = a.gen /\ l2[j].mode = a.mode
apEqualAPQNLists(l1, l2) ==
    /\ Len(l1) = Len(l2)
    /\ \A i \in DOMAIN l1 :
           LET a == l1[i]
               j == SelectInSeq(l2, LAMBDA b : b.adapter = a.adapter /\ b.domain = a.domain)
           IN  j # 0 /\ l2[j] = a

-----------------------------------------------------------------------------
(* What the code is measured against.                                      *)

(* The places of a configuration that define the APQN on machine m.        *)
Hits(c, a, m) ==
    {p \in UNION {{i} \X DOMAIN c[i].apqns : i \in DOMAIN c} :
        Covers(c[p[1]].apqns[p[2]], a, m)}

(* A configuration as the documentation wants it: every set is in order,   *)
(* names are unique, and on no machine of the cluster is an APQN defined   *)
(* twice.                                                                  *)
WellFormed(c) ==
    /\ \A i \in DOMAIN c : ValidFields(c[i])
    /\ \A i, j \in DOMAIN c : c[i].setname = c[j].setname => i = j
    /\ \A i \in DOMAIN c : \A k \in DOMAIN c[i].apqns :
           LET a == c[i].apqns[k]
           IN  /\ a.adapter \in 0 .. 255 /\ a.domain \in 0 .. 255
               /\ \A m \in Machines : \A p, q \in Hits(c, a, m) : p = q

(* The APQNs of the machine that are a set's: named by one of its          *)
(* definitions, on a card of the generation it asks for.                   *)
Eligible(ccset, list) ==
    {a \in ToSet(list) :
        /\ ccset # nil
        /\ a.gen >= ccset.mincexgen
        /\ \E def \in ToSet(ccset.apqns) : Covers(def, a, ThisMachine)}

=============================================================================
