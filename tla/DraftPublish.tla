----------------------------- MODULE DraftPublish -----------------------------
(***************************************************************************)
(* _publish of the Workflow Builder (workflow_builder/run.py, also called by   *)
(* publish.py): the prompts of a draft, then its Workflow, replace the files    *)
(* that are there, each kept aside until the end, and are taken back if a step  *)
(* fails.  The process may also be killed in between, and another publication   *)
(* follow.                                                                  *)
(*                                                                         *)
(* The content of a file is the number of the publication that wrote it.       *)
(***************************************************************************)
EXTENDS Integers

CONSTANTS
  Files,         \* files of the asset: prompts 1 .. Files - 1, the Workflow last
  Publications   \* bound: publications, the one that made the original included

ASSUME PublishAssumption == Files \in Nat \ {0} /\ Publications \in Nat \ {0}

VARIABLES
  target, backup,  \* the files, and what is kept aside (0: absent)
  original,          \* history: the files when the publication began
  copied, moved,   \* files copied; files with an entry in backups
  publishAt, file,        \* where the publication is, and its next file
  overwrite, number

publishVars == <<target, backup, original, copied, moved, publishAt, file, overwrite, number>>

File == 1 .. Files
Nothing == [f \in File |-> 0]
Prompt(f) == f < Files

PublishInit ==
  /\ target = Nothing /\ backup = Nothing /\ original = Nothing
  /\ copied = {} /\ moved = {}
  /\ publishAt = "idle" /\ file = 1 /\ overwrite = FALSE /\ number = 0

(* Without --overwrite nothing may be there. *)
BeginPublish ==
  /\ publishAt \in {"idle", "done", "raised"} /\ number < Publications
  /\ number' = number + 1
  /\ overwrite' \in BOOLEAN
  /\ (~overwrite' => target = Nothing)
  /\ original' = target
  /\ copied' = {} /\ moved' = {} /\ file' = 1
  /\ publishAt' = "backup"
  /\ UNCHANGED <<target, backup>>

(* The dry-run of the Workflow comes before its backup. *)
Closes == publishAt = "backup" /\ file <= Files

MutantBackup ==
  /\ Closes
  /\ publishAt' = "replace"
  /\ IF overwrite /\ target[file] # 0 /\ backup[file] = 0
     THEN /\ backup' = [backup EXCEPT ![file] = target[file]]
          /\ target' = [target EXCEPT ![file] = 0]
          /\ moved' = moved \cup {file}
     ELSE UNCHANGED <<backup, target, moved>>
  /\ UNCHANGED <<original, copied, file, overwrite, number>>
BackupExisting ==
  /\ Closes
  /\ publishAt' = "replace"
  /\ IF overwrite /\ target[file] # 0
     THEN /\ backup' = [backup EXCEPT ![file] = target[file]]
          /\ target' = [target EXCEPT ![file] = 0]
          /\ moved' = moved \cup {file}
     ELSE UNCHANGED <<backup, target, moved>>
  /\ UNCHANGED <<original, copied, file, overwrite, number>>

Replace ==
  /\ publishAt = "replace"
  /\ target' = [target EXCEPT ![file] = number]
  /\ copied' = IF Prompt(file) THEN copied \cup {file} ELSE copied
  /\ file' = file + 1
  /\ publishAt' = IF file < Files THEN "backup" ELSE "drop"
  /\ UNCHANGED <<backup, original, moved, overwrite, number>>

(* The else clause: what was kept aside is dropped. *)
DropBackup ==
  /\ publishAt = "drop"
  /\ \E f \in moved : backup' = [backup EXCEPT ![f] = 0] /\ moved' = moved \ {f}
  /\ UNCHANGED <<target, original, copied, publishAt, file, overwrite, number>>

FinishPublish ==
  /\ publishAt = "drop" /\ moved = {}
  /\ publishAt' = "done"
  /\ UNCHANGED <<target, backup, original, copied, moved, file, overwrite, number>>

RaisePublish ==
  /\ publishAt \in {"backup", "replace"}
  /\ publishAt' = "undo"
  /\ UNCHANGED <<target, backup, original, copied, moved, file, overwrite, number>>

(* The except clause: copies are removed, then what was kept aside is put back.  *)
(* Its own errors, which it ignores, are left out.                           *)
UndoCopy ==
  /\ publishAt = "undo"
  /\ \E f \in copied :
       /\ target' = [target EXCEPT ![f] = 0]
       /\ copied' = copied \ {f}
  /\ UNCHANGED <<backup, original, moved, publishAt, file, overwrite, number>>

Restore ==
  /\ publishAt = "undo" /\ copied = {}
  /\ \E f \in moved :
       /\ target' = [target EXCEPT ![f] = backup[f]]
       /\ backup' = [backup EXCEPT ![f] = 0]
       /\ moved' = moved \ {f}
  /\ UNCHANGED <<original, copied, publishAt, file, overwrite, number>>

Undone ==
  /\ publishAt = "undo" /\ copied = {} /\ moved = {}
  /\ publishAt' = "raised"
  /\ UNCHANGED <<target, backup, original, copied, moved, file, overwrite, number>>

(* publish.py is killed when the UI waited 75 s for it. *)
KillPublish ==
  /\ publishAt \in {"backup", "replace", "drop", "undo"}
  /\ publishAt' = "idle"
  /\ UNCHANGED <<target, backup, original, copied, moved, file, overwrite, number>>

Publish == BackupExisting \/ Replace \/ DropBackup \/ FinishPublish \/ UndoCopy \/ Restore \/ Undone
PublishNext == BeginPublish \/ Publish \/ RaisePublish \/ KillPublish
PublishSpec == PublishInit /\ [][PublishNext]_publishVars

--------------------------------------------------------------------------
(* A publication that raised leaves the files as it found them; and until every     *)
(* file is replaced, what it found is still there, in its place or aside, so that   *)
(* a process that is killed loses nothing (run.py:188-249).                        *)
NothingLost ==
  /\ publishAt = "raised" => target = original
  /\ (\E f \in File : target[f] # number) =>
       \A f \in File : original[f] # 0 => original[f] \in {target[f], backup[f]}
=============================================================================
