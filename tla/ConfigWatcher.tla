---------------------------- MODULE ConfigWatcher ----------------------------
(***************************************************************************)
(* The configuration watcher (cryptoconfigs.go): a goroutine that follows  *)
(* the mounted ConfigMap and publishes the last verified configuration and *)
(* its tag, the SHA-256 of the file, under a read-write mutex; and the     *)
(* plug-ins' check loops that read set and tag through                     *)
(* GetCurrentCryptoConfigSet and keep their copy as long as the tag is the *)
(* one they know.                                                          *)
(*                                                                         *)
(* updateConfig reads the file twice, once for the tag, without the lock,  *)
(* and once for the content: the two reads are separate steps here.  A     *)
(* configuration is abstracted to the content it was parsed from, and its  *)
(* hash to the same content.                                               *)
(***************************************************************************)
EXTENDS Naturals

CONSTANTS
    Contents,           \* what the configuration file may contain
    Valid,              \* contents that parse and that Verify accepts
    Missing,            \* the file cannot be opened
    nil,
    Readers,            \* plug-ins that hold a config set and its tag
    MaxEdits,           \* bound on the changes of the file
    EditsDuringUpdate   \* the file may change between the two reads

ASSUME ContentsAssumption ==
    /\ Valid \subseteq Contents
    /\ nil \notin Contents
    /\ Missing \notin Contents
    /\ nil # Missing

ASSUME EditsAssumption == MaxEdits \in Nat /\ EditsDuringUpdate \in BOOLEAN

VARIABLES
    file,     \* the mounted ConfigMap
    cc,       \* the current crypto configuration, or nil
    tag,      \* its tag, or nil
    watcher,  \* where the watcher stands: idle, tagged; exited: the process died
    newtag,   \* the tag read by the update under way
    up,       \* InitializeConfigWatcher has returned without an error
    ccset,    \* for each reader the config set it holds ...
    cctag,    \* ... and the tag it got it with
    edits     \* number of changes of the file so far

readers == <<ccset, cctag>>
vars == <<file, cc, tag, watcher, newtag, up, readers, edits>>

Files  == Contents \cup {Missing}
Active == Valid \cup {nil}
Tags   == Contents \cup {nil}

-----------------------------------------------------------------------------
Init ==
    /\ file \in Files
    /\ cc = nil
    /\ tag = nil
    /\ watcher = "idle"
    /\ newtag = nil
    /\ up = FALSE
    /\ ccset = [r \in Readers |-> nil]
    /\ cctag = [r \in Readers |-> nil]
    /\ edits = 0

(* The administrator changes the ConfigMap and the kubelet swaps the       *)
(* mounted file, atomically.                                               *)
Edit ==
    /\ edits < MaxEdits
    /\ watcher = "tagged" => EditsDuringUpdate
    /\ file' \in Files \ {file}
    /\ edits' = edits + 1
    /\ UNCHANGED <<cc, tag, watcher, newtag, up, readers>>

(* An error return of updateConfig: main ends the process when the first   *)
(* update fails, the goroutine only logs it.                               *)
Failed == watcher' = IF up THEN "idle" ELSE "exited"

ccGetTag ==
    /\ watcher = "idle"
    /\ \/ /\ file # Missing
          /\ newtag' = file
          /\ watcher' = "tagged"
       \/ /\ file = Missing
          /\ Failed
          /\ UNCHANGED newtag
    /\ UNCHANGED <<file, cc, tag, up, readers, edits>>

(* The rest of updateConfig, under the lock.                               *)
updateConfig_Unverified ==   \* mutant: what parses is published
    /\ watcher = "tagged"
    /\ IF newtag # tag /\ file # Missing
         THEN cc' = file /\ tag' = newtag /\ up' = TRUE
         ELSE UNCHANGED <<cc, tag, up>>
    /\ watcher' = "idle"
    /\ newtag' = nil
    /\ UNCHANGED <<file, readers, edits>>
updateConfig_KeepsOld ==   \* mutant: a bad file leaves the old configuration
    /\ watcher = "tagged"
    /\ IF file \in Valid
         THEN cc' = file /\ tag' = newtag /\ up' = TRUE /\ watcher' = "idle"
         ELSE Failed /\ UNCHANGED <<cc, tag, up>>
    /\ newtag' = nil
    /\ UNCHANGED <<file, readers, edits>>
updateConfig_KeepsTag ==   \* mutant: a bad file resets cc but not the tag
    /\ watcher = "tagged"
    /\ IF newtag = tag
         THEN watcher' = "idle" /\ UNCHANGED <<cc, tag, up>>
         ELSE IF file \in Valid
                THEN cc' = file /\ tag' = newtag /\ up' = TRUE /\ watcher' = "idle"
                ELSE cc' = nil /\ Failed /\ UNCHANGED <<tag, up>>
    /\ newtag' = nil
    /\ UNCHANGED <<file, readers, edits>>
updateConfig ==
    /\ watcher = "tagged"
    /\ \/ /\ newtag = tag
          /\ watcher' = "idle"
          /\ UNCHANGED <<cc, tag, up>>
       \/ /\ newtag # tag
          /\ file \in Valid
          /\ cc' = file
          /\ tag' = newtag
          /\ up' = TRUE
          /\ watcher' = "idle"
       \/ /\ newtag # tag
          /\ file \notin Valid
          /\ cc' = nil
          /\ tag' = nil
          /\ Failed
          /\ UNCHANGED up
    /\ newtag' = nil
    /\ UNCHANGED <<file, readers, edits>>

(* A reader that knows the current tag keeps its set; otherwise it is      *)
(* given the current set and tag.  checkChanged stores them only if they   *)
(* make a difference to the plug-in and drops them otherwise, which        *)
(* changes nothing here: nothing makes a reader take this step.            *)
GetCurrentCryptoConfigSet_Once(r) ==   \* mutant: who has a set keeps it
    /\ up
    /\ cctag[r] = nil /\ tag # nil
    /\ ccset' = [ccset EXCEPT ![r] = cc]
    /\ cctag' = [cctag EXCEPT ![r] = tag]
    /\ UNCHANGED <<file, cc, tag, watcher, newtag, up, edits>>
GetCurrentCryptoConfigSet(r) ==
    /\ up
    /\ cctag[r] # tag
    /\ ccset' = [ccset EXCEPT ![r] = cc]
    /\ cctag' = [cctag EXCEPT ![r] = tag]
    /\ UNCHANGED <<file, cc, tag, watcher, newtag, up, edits>>

(* A plug-in made by NewPlugin knows nothing and takes what there is.      *)
NewPlugin(r) ==
    /\ up
    /\ ccset' = [ccset EXCEPT ![r] = cc]
    /\ cctag' = [cctag EXCEPT ![r] = tag]
    /\ UNCHANGED <<file, cc, tag, watcher, newtag, up, edits>>

(* Kubernetes starts the container of a process that died again.           *)
Restart ==
    /\ watcher = "exited"
    /\ watcher' = "idle"
    /\ newtag' = nil
    /\ UNCHANGED <<file, cc, tag, up, readers, edits>>

Next ==
    \/ Edit
    \/ ccGetTag
    \/ updateConfig
    \/ Restart
    \/ \E r \in Readers : NewPlugin(r) \/ GetCurrentCryptoConfigSet(r)

Spec == Init /\ [][Next]_vars

(* The ticker fires for ever and the goroutine is not starved; a dead      *)
(* container is restarted.                                                 *)
Fairness ==
    /\ WF_vars(ccGetTag)
    /\ WF_vars(updateConfig)
    /\ WF_vars(Restart)

FairSpec == Spec /\ Fairness

-----------------------------------------------------------------------------
(* Types and bounds.  In particular neither the watcher nor a plug-in ever *)
(* has a configuration that Verify refuses (cryptoconfigs.go:470).         *)
TypeOK ==
    /\ file \in Files
    /\ cc \in Active
    /\ tag \in Tags
    /\ watcher \in {"idle", "tagged", "exited"}
    /\ newtag \in Tags
    /\ up \in BOOLEAN
    /\ ccset \in [Readers -> Active]
    /\ cctag \in [Readers -> Tags]
    /\ edits \in 0 .. MaxEdits

(* The tag identifies the configuration: a plug-in that is told its tag is *)
(* the current one (cryptoconfigs.go:512) holds a set of the current       *)
(* configuration, or none if there is none, after any sequence of good,    *)
(* bad and repeated files.  It rests on the file not changing between the  *)
(* two reads of updateConfig.                                              *)
ReaderInStep == \A r \in Readers : cctag[r] = tag => ccset[r] = cc

(* The watcher implements the register the plug-ins rely on: what is       *)
(* active was verified, was in the file when it became active, and a file  *)
(* that stays is eventually honoured, or dropped if it is bad; while the   *)
(* file cannot be opened nothing changes (cryptoconfigs.go:451-497).       *)
Register == INSTANCE ConfigRegister WITH active <- cc, MayVanish <- EditsDuringUpdate
FollowsFile == Register!Spec

(* What docs/technical_concepts_limitations.md says of every new           *)
(* ConfigMap: it is re-read, verified and, if valid, activated.  The code  *)
(* does not do so when the file changes between the two reads of an update *)
(* and changes back.                                                       *)
ValidFileIsActivated == \A c \in Valid : <>[](file = c) => <>[](cc = c)

(* What docs/technical_concepts_limitations.md says of a ConfigMap that    *)
(* cannot be opened: the plug-ins run without any configuration.  The code *)
(* returns before it resets the old one (cryptoconfigs.go:452-455).        *)
UnreadableFileIsDropped == <>[](file = Missing) => <>[](cc = nil)

=============================================================================
