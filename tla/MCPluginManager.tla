--------------------------- MODULE MCPluginManager ---------------------------
(***************************************************************************)
(* Configurations for PluginManager: one set, the same set in another      *)
(* project, another set with the same APQN, both sets with the first moved *)
(* to another APQN, and both sets claiming one APQN, which Verify refuses. *)
(* One of the two APQNs comes and goes.                                    *)
(***************************************************************************)
EXTENDS PluginManager

CONSTANT m1

Set(n, project, adapter, m) ==
    [setname |-> n, project |-> project, cexmode |-> "", mincexgen |-> 0,
     apqns |-> <<[adapter |-> adapter, domain |-> 1, machineid |-> m]>>]

MCContents ==
    { <<Set("s1", "p", 5, AnyMachine)>>,
      <<Set("s1", "q", 5, AnyMachine)>>,
      <<Set("s2", "p", 5, m1)>>,
      <<Set("s1", "p", 6, m1), Set("s2", "p", 5, AnyMachine)>>,
      <<Set("s1", "p", 5, AnyMachine), Set("s2", "p", 5, m1)>> }

APQN(adapter) ==
    [adapter |-> adapter, domain |-> 1, gen |-> 8, mode |-> "cca", online |-> TRUE]

MCHardware == {<<APQN(5)>>, <<APQN(5), APQN(6)>>}

MCValid == {c \in MCContents : Config!Verify(c)}

=============================================================================
