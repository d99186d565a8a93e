--------------------------- MODULE CrashSafeStore ---------------------------
(***************************************************************************)
(* What ReadMe.md ("saving the config") promises of the configuration      *)
(* file: "A crash or power loss leaves either the old or the new file,     *)
(* never a broken one."                                                    *)
(*                                                                         *)
(* A save has one new file, the configuration as it was when the save      *)
(* began.  The new file takes the place of the old one in one step, at     *)
(* most once a save, and no other step of a save is seen in the file.  The *)
(* disk keeps the old file and the new one until the save is done; it is   *)
(* done with the new file only.  After a save that was given up the disk   *)
(* may have every file shown since the last one that was done, and none    *)
(* before that.                                                            *)
(***************************************************************************)

CONSTANTS
  Versions,   \* of the configuration
  Default,    \* the one without a file
  Absent      \* no file

VARIABLES
  config,     \* the configuration in memory
  saving,     \* the version being saved, as a set: {} if none is
  shown,      \* the file as the file system shows it
  kept        \* the files the disk may have after a power loss

storeVars == <<config, saving, shown, kept>>

Init ==
  /\ config = Default
  /\ saving = {}
  /\ shown \in {Absent, Default}
  /\ kept = {shown}

Change ==
  /\ config' \in Versions
  /\ UNCHANGED <<saving, shown, kept>>

Begin ==
  /\ saving = {}
  /\ saving' = {config}
  /\ UNCHANGED <<config, shown, kept>>

\* The old file is replaced.
Replace(v) ==
  /\ saving = {v}
  /\ shown' = v
  /\ kept' = kept \cup {v}
  /\ UNCHANGED <<config, saving>>

\* The save is done: the new file is shown, and for good.
Done ==
  /\ saving = {shown}
  /\ kept' = {shown}
  /\ saving' = {}
  /\ UNCHANGED <<config, shown>>

\* The save ends with the old file, or with the new one but not for good.
GiveUp ==
  /\ saving' = {}
  /\ UNCHANGED <<config, shown, kept>>

Load(file) == IF file = Absent THEN Default ELSE file

Crash ==
  /\ config' = Load(shown)
  /\ saving' = {}
  /\ UNCHANGED <<shown, kept>>

PowerLoss ==
  /\ shown' \in kept
  /\ kept' = {shown'}
  /\ config' = Load(shown')
  /\ saving' = {}

Next ==
  \/ Change \/ Begin \/ Done \/ GiveUp \/ Crash \/ PowerLoss
  \/ \E v \in Versions : Replace(v)

Spec == Init /\ [][Next]_storeVars

=============================================================================
