--------------------------- MODULE MCApqnScreening ---------------------------
(***************************************************************************)
(* Configurations and hardware for ApqnScreening.  Every field takes valid *)
(* and invalid values in the first of two sets, and the definitions of two *)
(* sets overlap in every way that two machines and the wildcard allow.     *)
(***************************************************************************)
EXTENDS ApqnScreening

CONSTANTS m1, m2

Def(a, d, m) == [adapter |-> a, domain |-> d, machineid |-> m]
Set(n, p, mode, gen, defs) ==
    [setname |-> n, project |-> p, cexmode |-> mode, mincexgen |-> gen, apqns |-> defs]

Defs == {Def(5, 1, AnyMachine), Def(5, 1, m1), Def(5, 1, m2), Def(6, 1, m1)}

(* One set, of which each field in turn takes its values, beside a set of  *)
(* another or of the same name.                                            *)
Field(n, p, mode, gen, def) ==
    <<Set(n, p, mode, gen, <<def>>), Set("s2", "p", "", 0, <<>>)>>
Good == Def(5, 1, AnyMachine)
FieldConfigs ==
    UNION { {Field(n, "p", "ep11", 7, Good) : n \in {"s1", "s2", "-"}},
            {Field("s1", p, "", 0, Good) : p \in {"", "p"}},
            {Field("s1", "p", mode, 0, Good) : mode \in {"cca", "cex"}},
            {Field("s1", "p", "", gen, Good) : gen \in {3, 7}},
            {Field("s1", "p", "", 0, Def(a, d, AnyMachine)) : a \in {255, 256}, d \in {255, 256}} }

(* Two sets with all combinations of definitions, in both orders.          *)
OverlapConfigs ==
    {<<Set("s1", "p", "", 0, l1), Set("s2", "p", "", 7, l2)>> :
        l1 \in BoundedSeq(Defs, 2), l2 \in BoundedSeq(Defs, 1)}

MCConfigs == FieldConfigs \cup OverlapConfigs \cup {Reverse(c) : c \in OverlapConfigs}

APQN(a, gen, mode, on) ==
    [adapter |-> a, domain |-> 1, gen |-> gen, mode |-> mode, online |-> on]

MCHardware ==
    { <<>>,
      <<APQN(5, 8, "ep11", TRUE)>>,
      <<APQN(5, 8, "cca", FALSE), APQN(6, 8, "cca", TRUE)>>,
      <<APQN(5, 8, "cca", TRUE), APQN(6, 5, "cca", TRUE)>> }

=============================================================================
