------------------------------ MODULE MCProtocols ------------------------------
(***************************************************************************)
(* The protocols around a run that share no state with each other, side by      *)
(* side: a behavior picks one of them and the others stay where they begin.     *)
(***************************************************************************)
EXTENDS RunLock, AgentProcesses, DraftPublish, SafetyHooks, WorkflowStudio, ProjectList,
        StageTrial, WorkflowText, WorkflowDraft, WorkflowEditor, PromptEditor, ProjectPage,
        DryRun

VARIABLE protocol   \* the one that steps

Protocols == {"lock", "takeover", "agents", "publish", "hooks", "studio", "registry",
              "trial", "text", "draft", "patient", "hurried", "prompt", "page", "dryrun"}

(* Two of the launches, after Supervisors that are killed; the others never start. *)
CONSTANT Survivor
Takeover == INSTANCE RunLock WITH Launch <- Survivor, MaxCrashes <- 2, ReusePids <- FALSE

(* A user of the Workflow Editor who waits for every answer, and one who does not. *)
Patient == INSTANCE WorkflowEditor WITH MaxRequests <- 1
Hurried == INSTANCE WorkflowEditor WITH MaxMine <- 1, MaxReloads <- 1

protocolVars == <<protocol, lockVars, agentVars, publishVars, hookVars, studioVars, registryVars,
                  trialVars, textVars, draftVars, editorVars, promptVars, taskPageVars, dryVars>>

(* Workflows of three Stages that end, loop, review and hand off. *)
DryStage(pass, fail) ==
  [pass |-> pass, fail |-> fail, soft |-> FALSE, max |-> 0, targets |-> <<>>]
Workflows3 == [1 .. 3 -> {
  DryStage(ToNext, ToStop), DryStage(ToNext, 1), DryStage(3, 2), DryStage(ToDone, 3), DryStage(1, ToNext),
  [DryStage(ToNext, 1) EXCEPT !.soft = TRUE, !.max = 1],
  [DryStage(ToNext, ToStop) EXCEPT !.targets = <<3, 2>>]}]

(* What the fields of a Workflow's text may hold, and the Stages that are drawn. *)
TextValue ==
  [type   |-> {<<"base">>},
   prompt |-> {<<"p">>, <<"|", "q">>, Absent},
   option |-> {<<"1">>, Absent},
   routes |-> {<<"", "pass">>, <<"", "pass", "fail">>, Absent}]
TextConfig ==
  {[type |-> <<"base">>, prompt |-> <<"p">>, option |-> Absent, routes |-> <<"", "pass">>],
   [type |-> <<"base">>, prompt |-> <<"|", "q">>, option |-> <<"1">>, routes |-> Absent],
   [type |-> <<"base">>, prompt |-> Absent, option |-> Absent, routes |-> <<"", "pass", "fail">>]}

(* The text and the canvas are empty where they are at rest. *)
Empty == [stages |-> <<>>, flow |-> <<>>]
TextBegins == IF protocol = "text" THEN TextInit ELSE text = <<>> /\ meant = Empty /\ patches = 0
DryBegins == IF protocol = "dryrun" THEN DryInit ELSE DryFrom(CHOOSE w \in Candidate : TRUE)
DraftBegins == DraftFrom(IF protocol = "draft" THEN Roles ELSE Empty)

Init ==
  /\ protocol \in Protocols
  /\ LockInit /\ AgentsInit /\ PublishInit /\ HooksInit /\ StudioInit /\ RegistryInit
  /\ TrialInit /\ TextBegins /\ DraftBegins /\ EditorInit /\ PromptInit /\ PageInit
  /\ DryBegins

Unmoved(ps, v) == IF protocol \in ps THEN TRUE ELSE UNCHANGED v
OthersUnmoved ==
  /\ UNCHANGED protocol
  /\ Unmoved({"lock", "takeover"}, lockVars) /\ Unmoved({"agents"}, agentVars)
  /\ Unmoved({"publish"}, publishVars) /\ Unmoved({"hooks"}, hookVars)
  /\ Unmoved({"studio"}, studioVars) /\ Unmoved({"registry"}, registryVars)
  /\ Unmoved({"trial"}, trialVars) /\ Unmoved({"text"}, textVars) /\ Unmoved({"draft"}, draftVars)
  /\ Unmoved({"patient", "hurried"}, editorVars) /\ Unmoved({"prompt"}, promptVars) /\ Unmoved({"page"}, taskPageVars)
  /\ Unmoved({"dryrun"}, dryVars)

Next ==
  \/ protocol = "lock"     /\ OthersUnmoved /\ LockNext
  \/ protocol = "takeover" /\ OthersUnmoved /\ Takeover!LockNext
  \/ protocol = "agents"   /\ OthersUnmoved /\ AgentsNext
  \/ protocol = "publish"  /\ OthersUnmoved /\ PublishNext
  \/ protocol = "hooks"    /\ OthersUnmoved /\ HooksNext
  \/ protocol = "studio"   /\ OthersUnmoved /\ StudioNext
  \/ protocol = "registry" /\ OthersUnmoved /\ RegistryNext
  \/ protocol = "trial"    /\ OthersUnmoved /\ TrialNext
  \/ protocol = "text"     /\ OthersUnmoved /\ TextNext
  \/ protocol = "draft"    /\ OthersUnmoved /\ DraftNext
  \/ protocol = "patient"  /\ OthersUnmoved /\ Patient!EditorNext
  \/ protocol = "hurried"  /\ OthersUnmoved /\ Hurried!EditorNext
  \/ protocol = "prompt"   /\ OthersUnmoved /\ PromptNext
  \/ protocol = "page"     /\ OthersUnmoved /\ PageNext
  \/ protocol = "dryrun"   /\ OthersUnmoved /\ DryNext

Spec == Init /\ [][Next]_protocolVars
================================================================================
