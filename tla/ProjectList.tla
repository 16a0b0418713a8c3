------------------------------ MODULE ProjectList ------------------------------
(***************************************************************************)
(* projects.json, the list of projects that the UI server and every Runner    *)
(* that registers its project read, change and write back, and the lock file   *)
(* around it (project_registry.py, ui/project_runtime_state.py,               *)
(* runner/workspace.py).                                                     *)
(*                                                                         *)
(* A client is one such call; the calls of one process follow each other.      *)
(* One file operation is one step.                                          *)
(***************************************************************************)
EXTENDS Integers, FiniteSets

CONSTANTS
  Client,      \* the calls, each made once
  Entry,       \* projects
  Free,        \* the owner of a lock file that is not there
  MaxCallerDeaths    \* bound: processes that die while they hold the lock

ASSUME RegistryAssumption == Free \notin Client /\ MaxCallerDeaths \in Nat

VARIABLES
  listLock,      \* who created the lock file, or Free
  old,       \* whether the file is older than STALE_LOCK_SECONDS
  rows,      \* the list
  callAt,        \* where each call is
  read,      \* the list it read
  intended,  \* history: the list as the calls made it, one after the other
  raced,     \* history: whether two calls saw the lock of a dead one at a time
  callDeaths

registryVars == <<listLock, old, rows, callAt, read, intended, raced, callDeaths>>

CallGoto(c, where) == callAt' = [callAt EXCEPT ![c] = where]

RegistryInit ==
  /\ listLock = Free /\ old = FALSE /\ rows = {} /\ intended = {} /\ raced = FALSE
  /\ callDeaths = 0
  /\ callAt = [c \in Client |-> "start"]
  /\ read = [c \in Client |-> {}]

--------------------------------------------------------------------------
(* os.open with O_CREAT and O_EXCL *)
MutantTakeLock(c) ==
  /\ callAt[c] = "start"
  /\ listLock' = c /\ old' = FALSE /\ CallGoto(c, "held")
  /\ UNCHANGED <<rows, read, intended, raced, callDeaths>>
TakeLock(c) ==
  /\ callAt[c] = "start" /\ listLock = Free
  /\ listLock' = c /\ old' = FALSE /\ CallGoto(c, "held")
  /\ UNCHANGED <<rows, read, intended, raced, callDeaths>>

(* _remove_stale_lock: the age, then the file, whosever it is by then. *)
SeeStale(c) ==
  /\ callAt[c] = "start" /\ listLock # Free /\ old
  /\ CallGoto(c, "stale")
  /\ raced' = (raced \/ \E d \in Client : callAt[d] = "stale")
  /\ UNCHANGED <<listLock, old, rows, read, intended, callDeaths>>

BreakLock(c) ==
  /\ callAt[c] = "stale"
  /\ listLock' = Free /\ old' = FALSE /\ CallGoto(c, "start")
  /\ UNCHANGED <<rows, read, intended, raced, callDeaths>>

(* LOCK_TIMEOUT_SECONDS have passed. *)
GiveUpLock(c) ==
  /\ callAt[c] = "start" /\ listLock # Free
  /\ CallGoto(c, "over")
  /\ UNCHANGED <<listLock, old, rows, read, intended, raced, callDeaths>>

ReadRows(c) ==
  /\ callAt[c] = "held"
  /\ read' = [read EXCEPT ![c] = rows] /\ CallGoto(c, "read")
  /\ UNCHANGED <<listLock, old, rows, intended, raced, callDeaths>>

(* add_project, register_ui_project; remove_project, which may find the project   *)
(* running.  The list is written aside and put in place in one step.          *)
Added(list, e) == list \cup {e}
Removed(list, e) == list \ {e}
WriteRows(c) ==
  /\ callAt[c] = "read"
  /\ \E e \in Entry :
       \/ rows' = Added(read[c], e) /\ intended' = Added(intended, e)
       \/ rows' = Removed(read[c], e) /\ intended' = Removed(intended, e)
       \/ UNCHANGED <<rows, intended>>
  /\ CallGoto(c, "written")
  /\ UNCHANGED <<listLock, old, read, raced, callDeaths>>

(* The finally clause unlinks whatever lock is there. *)
DropLock(c) ==
  /\ callAt[c] = "written"
  /\ listLock' = Free /\ old' = FALSE /\ CallGoto(c, "over")
  /\ UNCHANGED <<rows, read, intended, raced, callDeaths>>

CallerDies(c) ==
  /\ callAt[c] \in {"held", "read", "written"} /\ callDeaths < MaxCallerDeaths
  /\ callDeaths' = callDeaths + 1 /\ CallGoto(c, "dead")
  /\ UNCHANGED <<listLock, old, rows, read, intended, raced>>

(* A minute passes.  A living owner is done within it. *)
Age ==
  /\ listLock # Free /\ ~old /\ callAt[listLock] = "dead"
  /\ old' = TRUE
  /\ UNCHANGED <<listLock, rows, callAt, read, intended, raced, callDeaths>>

CallStep(c) == \/ TakeLock(c) \/ SeeStale(c) \/ BreakLock(c) \/ GiveUpLock(c)
           \/ ReadRows(c) \/ WriteRows(c) \/ DropLock(c)
RegistryNext == Age \/ \E c \in Client : CallStep(c) \/ CallerDies(c)
RegistrySpec == RegistryInit /\ [][RegistryNext]_registryVars

--------------------------------------------------------------------------
(* No call undoes another one's change, though each writes a whole list it read   *)
(* before: the list is what the calls made of it one after the other, unless two   *)
(* of them judged the lock of a dead one at the same time, when the second may      *)
(* unlink the lock of a living call (project_registry.py:39-77).                 *)
ProjectsKept == rows = intended \/ raced
=============================================================================
