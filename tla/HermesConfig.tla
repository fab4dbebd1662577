----------------------------- MODULE HermesConfig -----------------------------
(***************************************************************************)
(* writeMCPEntry, restoreBackup and removeBackup of src/setup/hermes.ts,   *)
(* as writeHermesMPCEntry of the integration stage calls them: the file of *)
(* Hermes is read, gets the entry of HCO, is copied to a backup and        *)
(* replaced by a temporary file that is renamed.                           *)
(*                                                                         *)
(* The functions are synchronous, but the file belongs to Hermes and its   *)
(* user, who may save it between any two of their system calls, and the    *)
(* process may be killed there.  Of what the file holds it only matters    *)
(* which save of the user it stems from and whether it parses, not what    *)
(* the entry says.  The temporary file is read by nobody and left out.     *)
(***************************************************************************)
EXTENDS Naturals

CONSTANT MaxEdits   \* bound on the saves of the user

ASSUME EditsAssumption == MaxEdits \in Nat

VARIABLES
  config,     \* the file of Hermes
  backup,     \* the same with .hco-backup
  writing,    \* the system call writeHermesMPCEntry is about to make, or "no"
  loaded,     \* what readConfig has returned last
  ownBackup,  \* the backup was made by this call of it
  edits,      \* the user's last save
  excused     \* history: a save fell into a call, or a backup was restored that
              \* an earlier, killed call had left

hermesVars == <<config, backup, writing, loaded, ownBackup, edits, excused>>

\* form: YAML that parses, that does not (as the user left it), half a copy
Forms == {"absent", "whole", "invalid", "torn"}
Documents == [form : Forms, save : Nat]
NoFile == [form |-> "absent", save |-> 0]
Calls == {"read", "copy", "copying", "replace", "remove", "restore"}

HermesTypeOK ==
  /\ config \in Documents /\ backup \in Documents /\ loaded \in Documents
  /\ writing \in Calls \cup {"no"}
  /\ ownBackup \in BOOLEAN /\ edits \in Nat /\ excused \in BOOLEAN

HermesInit ==
  /\ config \in [form : {"absent", "whole"}, save : {0}]
  /\ backup = NoFile /\ loaded = NoFile
  /\ writing = "no" /\ ownBackup = FALSE
  /\ edits = 0 /\ excused = FALSE

-----------------------------------------------------------------------------
\* readConfig; a missing file reads as an empty one, and half a copy may parse.
Readable(d) == d.form \in {"absent", "whole", "torn"}
Throwing(d) == d.form \in {"invalid", "torn"}

\* The stage reads the file to see whether it has an entry of HCO; then it asks.
Look ==
  /\ writing = "no"
  /\ Readable(config)
  /\ loaded' = config
  /\ UNCHANGED <<config, backup, writing, ownBackup, edits, excused>>

\* Faulty variant: what the stage has read before its question is used.
BeginWriteLoaded ==
  /\ writing = "no"
  /\ writing' = "copy"
  /\ ownBackup' = FALSE
  /\ UNCHANGED <<config, backup, loaded, edits, excused>>

\* writeHermesMPCEntry is called.
BeginWrite ==
  /\ writing = "no"
  /\ writing' = "read"
  /\ ownBackup' = FALSE
  /\ UNCHANGED <<config, backup, loaded, edits, excused>>

ReadConfig ==
  /\ writing = "read"
  /\ \/ Readable(config) /\ loaded' = config /\ writing' = "copy"
     \/ Throwing(config) /\ loaded' = loaded /\ writing' = "restore"
  /\ UNCHANGED <<config, backup, ownBackup, edits, excused>>

\* existsSync and the start of copyFileSync, which empties the backup that is there;
\* it may also fail.
BeginCopy ==
  /\ writing = "copy"
  /\ \/ config.form = "absent" /\ writing' = "replace" /\ backup' = backup
     \/ /\ config.form # "absent" /\ writing' = "copying"
        /\ backup' = [NoFile EXCEPT !.form = "torn"]
     \/ writing' = "restore" /\ backup' = backup
  /\ UNCHANGED <<config, loaded, ownBackup, edits, excused>>

\* The rest of copyFileSync, which removes its target if it fails.
EndCopy ==
  /\ writing = "copying"
  /\ \/ backup' = config /\ ownBackup' = TRUE /\ writing' = "replace"
     \/ backup' = NoFile /\ ownBackup' = FALSE /\ writing' = "restore"
  /\ UNCHANGED <<config, loaded, edits, excused>>

\* Faulty variant: the file itself is written, and perhaps not to its end.
ReplaceInPlace ==
  /\ writing = "replace"
  /\ \/ config' = [form |-> "whole", save |-> loaded.save] /\ writing' = "remove"
     \/ config' = [config EXCEPT !.form = "torn"] /\ writing' = "restore"
  /\ UNCHANGED <<backup, loaded, ownBackup, edits, excused>>

\* The temporary file is written and renamed, or something throws before that.
Replace ==
  /\ writing = "replace"
  /\ \/ config' = [form |-> "whole", save |-> loaded.save] /\ writing' = "remove"
     \/ config' = config /\ writing' = "restore"
  /\ UNCHANGED <<backup, loaded, ownBackup, edits, excused>>

\* What a call has in memory is gone when it is over.
Return == writing' = "no" /\ loaded' = NoFile /\ ownBackup' = FALSE

\* removeBackup, which ignores errors
RemoveBackup ==
  /\ writing = "remove"
  /\ backup' \in {NoFile, backup}
  /\ Return
  /\ UNCHANGED <<config, edits, excused>>

\* restoreBackup renames the backup over the file, whoever made it; it ignores errors.
RestoreBackup ==
  /\ writing = "restore"
  /\ \/ /\ backup.form # "absent"
        /\ config' = backup /\ backup' = NoFile
        /\ excused' = (excused \/ ~ownBackup)
     \/ UNCHANGED <<config, backup, excused>>
  /\ Return
  /\ UNCHANGED edits

WriteStep ==
  \/ ReadConfig \/ BeginCopy \/ EndCopy \/ Replace \/ RemoveBackup \/ RestoreBackup

\* The process is killed.
KillWrite ==
  /\ Return
  /\ UNCHANGED <<config, backup, edits, excused>>

\* The user, or Hermes, saves the file, valid or not.
Edit ==
  /\ edits < MaxEdits
  /\ edits' = edits + 1
  /\ config' \in [form : {"whole", "invalid"}, save : {edits + 1}]
  /\ excused' = (excused \/ writing \in {"copy", "copying", "replace", "restore"})
  /\ UNCHANGED <<backup, writing, loaded, ownBackup>>

HermesNext == Look \/ BeginWrite \/ WriteStep \/ KillWrite \/ Edit

HermesSpec == HermesInit /\ [][HermesNext]_hermesVars

-----------------------------------------------------------------------------
(* Properties.                                                             *)

\* A reader of the file, which Hermes may be at any time, never finds it half written;
\* the only way to half a file is to restore a backup that a killed call had begun.
NeverTorn == config.form = "torn" => excused

\* What the user has saved last is in the file, however many calls have replaced it,
\* failed, been rolled back or been killed, and however long the wizard waited for an
\* answer; saves that fall between the reading and the replacing, and backups of
\* killed calls, are the only exceptions.
EditsSurvive == config.save = edits \/ excused
=============================================================================
