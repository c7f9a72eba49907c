------------------------ MODULE ConfigWatcher_proofs ------------------------
(***************************************************************************)
(* The watcher implements the register, whenever the file changes, and its *)
(* tag identifies the configuration, provided the file does not change     *)
(* between the two reads of an update.                                     *)
(***************************************************************************)
EXTENDS ConfigWatcher, TLAPS

(* Every step of watcher, readers and administrator keeps the types.       *)
LEMMA TypeStep == TypeOK /\ [Next]_vars => TypeOK'
  <1> SUFFICES ASSUME TypeOK, [Next]_vars PROVE TypeOK'
    OBVIOUS
  <1> USE ContentsAssumption, EditsAssumption
      DEF TypeOK, Files, Active, Tags, readers
  <1>1. CASE Edit
    BY <1>1 DEF Edit
  <1>2. CASE ccGetTag
    BY <1>2 DEF ccGetTag, Failed
  <1>3. CASE updateConfig
    BY <1>3 DEF updateConfig, Failed
  <1>4. CASE Restart
    BY <1>4 DEF Restart
  <1>5. ASSUME NEW r \in Readers, NewPlugin(r) \/ GetCurrentCryptoConfigSet(r)
        PROVE  TypeOK'
    BY <1>5 DEF NewPlugin, GetCurrentCryptoConfigSet
  <1>6. CASE UNCHANGED vars
    BY <1>6 DEF vars
  <1> QED
    BY <1>1, <1>2, <1>3, <1>4, <1>5, <1>6 DEF Next

(* In particular no configuration becomes active, or reaches a plug-in,    *)
(* that Verify has not accepted.                                           *)
THEOREM TypeCorrect == Spec => []TypeOK
  <1>1. Init => TypeOK
    <2> SUFFICES ASSUME Init PROVE TypeOK
      OBVIOUS
    <2>1. edits \in 0 .. MaxEdits
      BY EditsAssumption DEF Init
    <2>2. up \in BOOLEAN
      BY Zenon DEF Init
    <2> QED
      BY <2>1, <2>2 DEF Init, TypeOK, Files, Active, Tags
  <1> QED
    BY <1>1, TypeStep, PTL DEF Spec

(* An update under way has seen a file: without a change in between it     *)
(* still does at its second read.                                          *)
FileIsThere == watcher = "tagged" => EditsDuringUpdate \/ file # Missing

(* That is an invariant of every behaviour.                                *)
LEMMA FileStaysThere == Spec => []FileIsThere
  <1>1. Init => FileIsThere
    BY DEF Init, FileIsThere
  <1>2. FileIsThere /\ [Next]_vars => FileIsThere'
    BY DEF FileIsThere, Next, Edit, ccGetTag, Failed, updateConfig, Restart, NewPlugin,
        GetCurrentCryptoConfigSet, vars
  <1> QED
    BY <1>1, <1>2, PTL DEF Spec

(* Every step of the watcher is a step of the register or changes nothing  *)
(* the register shows, however the file changes.                           *)
THEOREM ImplementsRegister == Spec => Register!Safe
  <1>1. Init => Register!Init
    BY DEF Init, Files, Register!Init
  <1>2. TypeOK /\ FileIsThere /\ [Next]_vars => [Register!Next]_<<file, cc>>
    <2> SUFFICES ASSUME TypeOK, FileIsThere, [Next]_vars
                 PROVE  Register!Next \/ UNCHANGED <<file, cc>>
      OBVIOUS
    <2>1. CASE Edit
      BY <2>1 DEF Edit, Files, Register!Next, Register!Edit
    <2>2. CASE updateConfig
      BY <2>2 DEF updateConfig, TypeOK, FileIsThere, Files, Register!Next, Register!Activate,
          Register!Deactivate, Register!Lose
    <2>3. CASE ccGetTag \/ Restart
      BY <2>3 DEF ccGetTag, Restart
    <2>5. CASE \E r \in Readers : NewPlugin(r) \/ GetCurrentCryptoConfigSet(r)
      BY <2>5 DEF NewPlugin, GetCurrentCryptoConfigSet
    <2>4. CASE UNCHANGED vars
      BY <2>4 DEF vars
    <2> QED
      BY <2>1, <2>2, <2>3, <2>4, <2>5 DEF Next
  <1> QED
    BY <1>1, <1>2, TypeCorrect, FileStaysThere, PTL DEF Spec, Register!Safe

-----------------------------------------------------------------------------
(* A tag is the content it stands for, with the watcher, in the update     *)
(* under way and with every reader.                                        *)
TagIsContent ==
    /\ tag = cc
    /\ watcher = "tagged" => newtag = file
    /\ \A r \in Readers : cctag[r] = ccset[r]

(* That is so if the file does not change between the two reads of         *)
(* updateConfig.                                                           *)
THEOREM TagsAreContents ==
    ASSUME EditsDuringUpdate = FALSE
    PROVE  Spec => []TagIsContent
  <1>1. Init => TagIsContent
    BY DEF Init, TagIsContent
  <1>2. TypeOK /\ TagIsContent /\ [Next]_vars => TagIsContent'
    <2> SUFFICES ASSUME TypeOK, TagIsContent, [Next]_vars PROVE TagIsContent'
      OBVIOUS
    <2> USE DEF TypeOK, TagIsContent, readers
    <2>1. CASE Edit
      BY <2>1 DEF Edit
    <2>2. CASE ccGetTag
      BY <2>2 DEF ccGetTag, Failed
    <2>3. CASE updateConfig
      BY <2>3 DEF updateConfig, Failed
    <2>4. CASE Restart
      BY <2>4 DEF Restart
    <2>5. ASSUME NEW r \in Readers, NewPlugin(r) \/ GetCurrentCryptoConfigSet(r)
          PROVE  TagIsContent'
      BY <2>5 DEF NewPlugin, GetCurrentCryptoConfigSet
    <2>6. CASE UNCHANGED vars
      BY <2>6 DEF vars
    <2> QED
      BY <2>1, <2>2, <2>3, <2>4, <2>5, <2>6 DEF Next
  <1> QED
    BY <1>1, <1>2, TypeCorrect, PTL DEF Spec

(* Then a plug-in that knows the current tag holds the current             *)
(* configuration.                                                          *)
THEOREM ReadersInStep ==
    ASSUME EditsDuringUpdate = FALSE
    PROVE  Spec => []ReaderInStep
  <1>1. TagIsContent => ReaderInStep
    BY DEF TagIsContent, ReaderInStep
  <1> QED
    BY <1>1, TagsAreContents, PTL

=============================================================================
