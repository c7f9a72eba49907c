--------------------------- MODULE MCDevicePlugin ---------------------------
(* Model checking DevicePlugin: three configurations.  Two define the set, *)
(* the second with one more APQN, the third does not know it.              *)
EXTENDS DevicePlugin

CONSTANTS a1, a2, c1, c2, c3

MCApqns   == {a1, a2}
MCConfigs == {c1, c2, c3}
MCDefs    == [c \in MCConfigs |->
                 IF c = c1 THEN {a1} ELSE IF c = c2 THEN {a1, a2} ELSE {}]
MCWithout == {c3}

=============================================================================
