----------------------------- MODULE WorkflowStudio -----------------------------
(***************************************************************************)
(* The Workflow Studio (ui/workflow_studio_state.py): Workflows and Prompts    *)
(* of the global directory and of the projects, created, edited, renamed and    *)
(* deleted from several tabs.  _edit_lock makes every request one step, its      *)
(* validation included.                                                      *)
(*                                                                         *)
(* A Workflow is the set of Prompts it refers to; what else is in it, and        *)
(* whether it is well formed, is left out.  A save whose expected_hash is not     *)
(* that of the file is refused, and so is no step here.                        *)
(***************************************************************************)
EXTENDS Integers

CONSTANTS
  Project,    \* the projects
  PromptName, \* names of Prompts
  Slot,       \* names of Workflows
  Global,     \* the scope that is no project
  MaxEdits    \* bound: requests that change something

ASSUME StudioAssumption == Global \notin Project /\ MaxEdits \in Nat

VARIABLES
  known,      \* projects on the list
  returned,   \* history: projects that came on the list with Workflows of their own
  prompts,    \* <<scope, name>> of the Prompts that exist
  workflows,  \* <<scope, slot>> of the Workflows that exist
  refs,       \* names each of them refers to
  edits

studioVars == <<known, returned, prompts, workflows, refs, edits>>

Scope == Project \cup {Global}
Visible == known \cup {Global}
NoRefs == [w \in Scope \X Slot |-> {}]

StudioInit ==
  known = {} /\ returned = {} /\ prompts = {} /\ workflows = {} /\ refs = NoRefs /\ edits = 0

--------------------------------------------------------------------------
(* _resolve_prompt_reference: the Prompts beside the Workflow, then the global. *)
Resolved(s, n) == IF <<s, n>> \in prompts THEN <<s, n>> ELSE <<Global, n>>
RefsResolve(s, names) == \A n \in names : Resolved(s, n) \in prompts

(* _prompt_usages: by Workflows of the global directory, of the projects on the  *)
(* list and of the project the request names.                                *)
MutantUsed(p, here) ==
  \E w \in workflows : w[1] = p[1] /\ p[2] \in refs[w]
Used(p, here) ==
  \E w \in workflows : w[1] \in Visible \cup {here} /\ \E n \in refs[w] : Resolved(w[1], n) = p

Edit == edits < MaxEdits /\ edits' = edits + 1
WriteWorkflow(w, names) ==
  /\ RefsResolve(w[1], names)
  /\ workflows' = workflows \cup {w}
  /\ refs' = [refs EXCEPT ![w] = names]

(* studio_save, and the editors of the flow, of one Stage and of the graph. *)
SaveWorkflow ==
  /\ Edit
  /\ \E w \in workflows, names \in SUBSET PromptName : w[1] \in Visible /\ WriteWorkflow(w, names)
  /\ UNCHANGED <<known, returned, prompts>>

(* studio_workflow_create, studio_import, studio_duplicate: never over a file. *)
CreateWorkflow ==
  /\ Edit
  /\ \E w \in (Visible \X Slot) \ workflows, names \in SUBSET PromptName : WriteWorkflow(w, names)
  /\ UNCHANGED <<known, returned, prompts>>

DeleteWorkflow ==
  /\ Edit
  /\ \E w \in workflows :
       /\ w[1] \in Visible
       /\ workflows' = workflows \ {w} /\ refs' = [refs EXCEPT ![w] = {}]
  /\ UNCHANGED <<known, returned, prompts>>

(* studio_rename stays in the scope and validates the Workflow where it goes. *)
RenameWorkflow ==
  /\ Edit
  /\ \E w \in workflows, k \in Slot :
       /\ w[1] \in Visible /\ <<w[1], k>> \notin workflows /\ RefsResolve(w[1], refs[w])
       /\ workflows' = (workflows \ {w}) \cup {<<w[1], k>>}
       /\ refs' = [refs EXCEPT ![w] = {}, ![<<w[1], k>>] = refs[w]]
  /\ UNCHANGED <<known, returned, prompts>>

(* studio_prompt_create; an import or a duplicate is one too. *)
CreatePrompt ==
  /\ Edit
  /\ \E p \in (Visible \X PromptName) \ prompts : prompts' = prompts \cup {p}
  /\ UNCHANGED <<known, returned, workflows, refs>>

(* studio_delete and studio_rename of a Prompt: refused while it is used. *)
DeletePrompt ==
  /\ Edit
  /\ \E p \in prompts, here \in Visible :
       p[1] \in Visible /\ ~Used(p, here) /\ prompts' = prompts \ {p}
  /\ UNCHANGED <<known, returned, workflows, refs>>

RenamePrompt ==
  /\ Edit
  /\ \E p \in prompts, here \in Visible, n \in PromptName :
       /\ p[1] \in Visible /\ ~Used(p, here) /\ <<p[1], n>> \notin prompts
       /\ prompts' = (prompts \ {p}) \cup {<<p[1], n>>}
  /\ UNCHANGED <<known, returned, workflows, refs>>

(* add_project and remove_project leave the project's own files alone. *)
AddProject ==
  /\ Edit
  /\ \E p \in Project \ known :
       /\ known' = known \cup {p}
       /\ returned' = IF \E w \in workflows : w[1] = p THEN returned \cup {p} ELSE returned
  /\ UNCHANGED <<prompts, workflows, refs>>

RemoveProject ==
  /\ Edit
  /\ \E p \in known : known' = known \ {p}
  /\ UNCHANGED <<returned, prompts, workflows, refs>>

StudioNext ==
  \/ SaveWorkflow \/ CreateWorkflow \/ DeleteWorkflow \/ RenameWorkflow
  \/ CreatePrompt \/ DeletePrompt \/ RenamePrompt \/ AddProject \/ RemoveProject
StudioSpec == StudioInit /\ [][StudioNext]_studioVars

--------------------------------------------------------------------------
(* Every Workflow that can be opened finds its Prompts, although a Prompt of a    *)
(* project hides the global one of the same name, and any order of requests       *)
(* creates, renames and deletes both (workflow_studio_state.py:948-1052).  Only   *)
(* what a project brings along when it comes on the list was not looked after.      *)
PromptsResolve ==
  \A w \in workflows : w[1] \in Visible \ returned => RefsResolve(w[1], refs[w])
=============================================================================
