------------------------------- MODULE Settings -------------------------------
(***************************************************************************)
(* src/config.rs: read_settings against a file system it shares with an    *)
(* operator.  The read runs without an await, so it excludes every other   *)
(* read of the process; each call into the file system is a step, and the  *)
(* operator acts between any two.                                          *)
(*                                                                         *)
(* A directory is named by what its settings.json holds: the directory is  *)
(* "absent", or "empty" (no such file), or the file is "partial" (it was   *)
(* truncated and not written yet, or not to the end), the "defaults", or   *)
(* what an operator saved.                                                 *)
(***************************************************************************)
EXTENDS Integers

CONSTANTS
  Edits,      \* contents an operator saves that parse
  Malformed   \* contents an operator saves that do not parse, or not be read

NoFile == {"absent", "empty"}
Saved == Edits \cup Malformed
Places == NoFile \cup {"partial", "defaults"} \cup Saved
Configs == {"defaults"} \cup Edits

ASSUME ContentAssumption ==
  /\ Edits \cap Malformed = {}
  /\ (NoFile \cup {"partial", "defaults", "nothing"}) \cap Saved = {}

VARIABLES
  file,     \* ~/.vigil-collector
  legacy,   \* ~/.psmonitor
  at,       \* the call read_settings makes next; idle, or it has returned
  cfg,      \* the Settings it returned last
  orphan,   \* the file it opened for writing is no longer at that path
  saving,   \* what an editor is writing in place, or "nothing"
  touched   \* history: the operator touched the file since the read began

settingsVars == <<file, legacy, at, cfg, orphan, saving, touched>>

SettingsInit == /\ file \in Places /\ legacy \in Places
                /\ at = "idle" /\ cfg = "defaults" /\ orphan = FALSE
                /\ saving = "nothing" /\ touched = FALSE

\* What serde makes of the text; anything else falls back to the defaults.
Parsed(content) == IF content \in Edits THEN content ELSE "defaults"

-----------------------------------------------------------------------------
(* read_settings, one call at a time *)

BeginRead == /\ at = "idle"
             /\ at' = "new_exists"
             /\ orphan' = FALSE
             /\ touched' = FALSE
             /\ UNCHANGED <<file, legacy, cfg, saving>>

Goes(from, to) == at = from /\ at' = to

Returns(settings) == at' = "returned" /\ cfg' = settings

NewExists == /\ Goes("new_exists",
                     IF file = "absent" THEN "old_is_dir" ELSE "file_exists")
             /\ UNCHANGED <<file, legacy, cfg>>

OldIsDir == /\ Goes("old_is_dir",
                    IF legacy = "absent" THEN "file_exists" ELSE "rename")
            /\ UNCHANGED <<file, legacy, cfg>>

\* A rename replaces an empty directory and fails on any other; it may fail
\* anyway, and the read goes on.
Rename == /\ Goes("rename", "file_exists")
          /\ \/ /\ file \in NoFile /\ legacy # "absent"
                /\ file' = legacy
                /\ legacy' = "absent"
             \/ UNCHANGED <<file, legacy>>
          /\ UNCHANGED cfg

FileExists == /\ Goes("file_exists",
                      IF file \in NoFile THEN "create_dir" ELSE "read")
              /\ UNCHANGED <<file, legacy, cfg>>

CreateDir == /\ \/ /\ Goes("create_dir", "create")
                   /\ file' = IF file = "absent" THEN "empty" ELSE file
                   /\ UNCHANGED cfg
                \/ /\ at = "create_dir" /\ file = "absent"
                   /\ Returns("defaults")
                   /\ UNCHANGED file
             /\ UNCHANGED legacy

\* fs::write opens the file, which truncates whatever is there by now ...
Create == /\ \/ /\ Goes("create", "write")
                /\ file' = "partial"
                /\ UNCHANGED cfg
             \/ /\ at = "create"
                /\ Returns("defaults")
                /\ UNCHANGED file
          /\ UNCHANGED legacy

\* ... and writes.  A full disk leaves less; an editor that writes the same
\* file in place leaves a mix of both.
Write == /\ at = "write"
         /\ file' \in {file} \cup (IF orphan THEN {} ELSE {"partial", "defaults"})
         /\ Returns("defaults")
         /\ UNCHANGED legacy

\* Mutant: the settings of the first read are kept.
ReadCached == /\ at = "read"
              /\ Returns(IF cfg = "defaults" THEN Parsed(file) ELSE cfg)
              /\ UNCHANGED <<file, legacy>>

\* Mutant: a file that does not parse is replaced by the defaults.
ReadRepairing == /\ at = "read"
                 /\ Returns(Parsed(file))
                 /\ file' = Parsed(file)
                 /\ UNCHANGED legacy

\* A file deleted since it was seen is an error, like one that does not parse.
Read == /\ at = "read"
        /\ Returns(Parsed(file))
        /\ UNCHANGED <<file, legacy>>

ReadStep == /\ \/ NewExists \/ OldIsDir \/ Rename \/ FileExists
               \/ CreateDir \/ Create \/ Write \/ Read
            /\ UNCHANGED <<orphan, saving, touched>>

-----------------------------------------------------------------------------
(* The operator, who may also create the directory *)

\* An editor that saves in place: truncate, then write.
StartSave == /\ saving = "nothing"
             /\ saving' \in Saved
             /\ file' = "partial"
             /\ UNCHANGED orphan

FinishSave == /\ saving # "nothing"
              /\ file' \in {saving} \cup (IF file = "defaults" THEN {"partial"}
                                                               ELSE {})
              /\ saving' = "nothing"
              /\ UNCHANGED orphan

\* An editor that saves to another file and renames it, or a deletion.
Replace == /\ saving = "nothing"
           /\ file' \in Saved \cup (IF file = "absent" THEN {} ELSE {"empty"})
           /\ orphan' = (orphan \/ at = "write")
           /\ UNCHANGED saving

Operator == /\ StartSave \/ FinishSave \/ Replace
            /\ touched' = TRUE
            /\ UNCHANGED <<legacy, at, cfg>>

-----------------------------------------------------------------------------
(* Properties *)

SettingsTypeOK ==
  /\ file \in Places /\ legacy \in Places
  /\ at \in {"idle", "new_exists", "old_is_dir", "rename", "file_exists",
             "create_dir", "create", "write", "read", "returned"}
  /\ cfg \in Configs
  /\ orphan \in BOOLEAN /\ touched \in BOOLEAN
  /\ saving \in Saved \cup {"nothing"}

\* "Edit settings.json and the next call picks it up" (README.md:115): unless
\* the operator is at it during the read, a read returns what the file says,
\* and the defaults if it says nothing that parses, whatever earlier reads,
\* crashes and failed writes left there.
EditPickedUp == at = "returned" /\ ~touched => cfg = Parsed(file)

\* No step of a read destroys what an operator saved, in either directory and
\* malformed or not, unless the operator saved it in the middle of that read.
SettingsKept ==
  [][at' # at /\ ~touched =>
       /\ file \in Saved => file' = file
       /\ legacy \in Saved => legacy \in {file', legacy'}]_settingsVars
=============================================================================
