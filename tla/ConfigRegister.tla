--------------------------- MODULE ConfigRegister ---------------------------
(***************************************************************************)
(* What the configuration watcher promises to the rest of the plug-in: a   *)
(* register that follows the mounted ConfigMap.  The active configuration  *)
(* only ever changes to the verified content of the file or to none, and   *)
(* it catches up with a file that stays as it is.  A file that cannot be   *)
(* opened is no news: what is active stays active, unless the file can     *)
(* vanish in the middle of an update.                                      *)
(***************************************************************************)
CONSTANTS
    Contents, Valid, Missing, nil,
    MayVanish   \* the file may vanish between the two reads of an update

VARIABLES file, active

Init == file \in Contents \cup {Missing} /\ active = nil

Edit == file' \in Contents \cup {Missing} /\ UNCHANGED active

Activate   == file \in Valid /\ active' = file /\ UNCHANGED file
Deactivate == file \in Contents \ Valid /\ active' = nil /\ UNCHANGED file
Lose       == MayVanish /\ file = Missing /\ active' = nil /\ UNCHANGED file

Next == Edit \/ Activate \/ Deactivate \/ Lose

Safe == Init /\ [][Next]_<<file, active>>

Spec ==
    /\ Safe
    /\ WF_<<file, active>>(Activate)
    /\ WF_<<file, active>>(Deactivate)

=============================================================================
