# A TLA+ verification of AI Task Runner

AI Task Runner runs long unattended Workflows of AI coding Stages. Its promise
is durability: whatever dies, hangs, is stopped or is started twice, a run
continues from `state.json` as if nothing had happened. Around the run there are
other protocols that unit tests reach badly: locks made of files, processes that
outlive their parents, jobs whose status several programs write, editors that go
on while their requests are under way. This directory models them, checks them
on small instances and proves part of them for all.

Contents: [inventory](#1-inventory), [modules](#2-modules-and-the-code),
[runs](#3-what-the-runs-check), [bounds](#4-bounds), [fairness](#5-fairness),
[proofs](#6-what-is-proved), [departures](#7-where-the-code-departs-from-its-documents),
[limits](#8-what-is-not-modelled), [plan](#9-plan). Paths are relative to `src/`.

To check a run: `tlc -workers 2 -config MCFlow_plan.cfg MCFlow`. A configuration
is named after its module, except `MCLock_race.cfg` of `RunLock`. To check the
proofs of a module: `tlapm FlowEngineProofs.tla`. `PROJECT.json` maps every
definition to the lines it stands for and lists runs, mutants, hazards, findings
and theorems.

## 1. Inventory

How the parts interact:

```text
 browser: app.js (task page, Prompt editor), studio-src (Workflow Designer)
     │ requests, polls
     ▼
 UI server ── projects.json under its lock; Workflow and Prompt files; jobs
     │ starts, stops, reserves (launching.json)          │ starts
     ▼                                                   ▼
 Supervisor <── CLI / API              Workflow Builder process ── draft, publish
     │ run.lock, stop.request, marker
     │ spawns, restarts with --resume
     ▼
 Worker: api.run ── retries in the process; script.py: a List of runs
     │
 WorkflowRunner ── workflow.snapshot.json, resources/, state.json, backup
     │
 FlowEngine ──> StageExecutor ──> Stage ──> agent client ──> process runner ──> agent
     │                │ hooks (safety)
     └── RunState ────┘  saved by StateStore
```

| part | state | operations | hard | correct when |
|---|---|---|---|---|
| Flow engine (`runner/workflow/flow_engine.py`) | position, cycle, Review counters, previous result, completion | run the Stage at the position, bypass a Review, count a verdict, route, finish | saves several times per Stage, and dies between two saves; counters keyed by a task that others move | routes resolve, every backward move counts, a Review stays within its budget, a run ends, a completed run has no pending task |
| Dynamic expansion (`runner/workflow/dynamic_expansion.py`) | the expanded Workflow, groups, tasks of each producer | install a producer's tasks and children, drop those of its previous result, make a bound task current | producers nest, run again, and are children themselves; five maps are rewritten | nothing of a superseded expansion survives, tasks and Stages match |
| State store, reducers (`runner/runtime/run_state.py`, `runner/workflow/results.py`) | `state.json`, a backup outside the project | create, load, save, restore, normalize, finish | the two files are two writes | no save rolls a run back; what is saved can be loaded |
| Supervisor (`runner/runtime/supervisor.py`) | `run.lock`, worker, stop request, marker | take the lock or judge it stale, spawn, wait, restart, stop, clean up | launches race through files; Supervisors are killed; process ids come back | one owner of a work_dir, one Worker, a stop ends its launch, a restart continues the run, no agent is left behind |
| Runner, resources, run loop (`runner/workflow_runner.py`, `resources.py`, `api.py`) | the frozen Workflow, goal and prompt | bind resources, snapshot and state, validate a resume, recover from an error | separate files; a launch may be refused or die after some of them | a run keeps the inputs it was started with |
| YAML List (`runner/script.py`) | a `state.json` for each item | start, skip, resume, fail an item | retries, restarts and resumes begin again at the first item | items run in order and once |
| Stage executor, Stage types, agent session (`runner/workflow/execution/`, `stages/`, `runner/agent/client.py`) | attempts, counters, votes, sessions | attempt, vote, repair, retry, rotate the session, reduce | votes, hooks, sessions and budgets interact over attempts; sessions outlive workers | a rejected attempt's votes do not count, sessions are not shared or reused wrongly, a finite budget ends |
| Process runner (`runner/runtime/process_runner.py`) | pipes, queue, threads, the active-process marker | start, feed, drain, time out, end | bounded pipes and queue; a descendant holds a pipe open | a call returns; no agent outlives its call or its clean-up |
| Safety hooks (`runner/plugins/safety.py`) | a copy of the project | before and after each attempt | the copy lives as long as the worker | a read-only attempt leaves the project as it was |
| UI runtime (`ui/project_runtime_state.py`, `runtime_view.py`) | the reservation of a launch, the chat, the note of the answered run | launch, stop, continue, rerun, reset, clear, poll | polls take no lock; the server and the Runners die | one active Runtime, no reset under it, one answer for a run, no reservation for ever |
| Project list (`project_registry.py`) | `projects.json` and its lock file | add, remove, register | processes die with the lock | no call undoes another one's change |
| Workflow Studio (`ui/workflow_studio_state.py`) | Workflow and Prompt files, trials of Stages | create, save, rename, delete, patch lines, try a Stage, cancel it | references resolve through scopes; text is edited by lines; cancels race ends | references resolve; a patched file reads as what was asked; a cancelled trial stops |
| Workflow Designer (`ui/studio-src/`) | canvas, Undo, draft in the browser, file hash | edit, connect, undo, save, switch the view, reload, restore | dialogs and answers act on an older canvas; edits go on during requests | no dangling edge, Undo retraces, no edit and no other editor's save is lost |
| Pages of a project (`ui/static/app.js`) | what is shown, the Prompt that is open | select, poll, send, open, save | answers come late, of another project | nothing shown goes back; no Prompt is saved into another |
| Workflow Builder (`workflow_builder/`, `ui/workflow_builder_state.py`) | `active.json`, `status.json`, drafts | start, poll, cancel, clear, save, publish | three programs rewrite one file; a publication replaces several | a working job is the active one; every job ends; a failed publication changes nothing |
| Loader, profiles, registry (`runner/workflow/`) | none | parse, look up | | |
| Configuration, events, prompting, errors | none, or logs | build text | | |
| Dry run (`tool/workflow_dryrun.py`) | one Workflow, its cases, a mock engine | find paths, make cases, run them | a script of results is repeated over loops, bypasses and handoffs | a Workflow called closed ends |
| Other tools, smoke tests, examples (`tool/`) | none of a run | probes, live tests | | |

## 2. Modules and the code

| module | stands for | extends or instantiates |
|---|---|---|
| `DynamicExpansion` | the data of a run and the functions of `dynamic_expansion.py` and `schema.py` | |
| `FlowEngine` | the engine as a state machine with crashes and resumes | `DynamicExpansion` |
| `Workflows`, `MCFlow` | the Workflows of the `FlowEngine` runs | |
| `StageExecution` | what the engine relies on: one execution of a Stage | |
| `StageExecutor`, `MCStage` | the retry loop, votes and sessions of a Stage, executed once or again by the same worker | implements `StageExecution` |
| `RunList` | what a List promises | |
| `ScriptList` | the List inside retries, restarts and launches | implements `RunList` |
| `ProcessRunner` | one call of `run_process` | |
| `RunLock` | `run.lock` among any number of launches | |
| `RunLaunch`, `MCLaunch` | launches one after another, and the files they leave | |
| `AgentProcesses` | agents, workers that die, and the clean-up | |
| `SafetyHooks` | the hooks around attempts | |
| `UILaunch` | requests, polls, Runners and a server that dies | |
| `ProjectList` | the registry lock and the calls under it | |
| `WorkflowStudio` | Workflows and Prompts that refer to each other | |
| `WorkflowText` | a Workflow file as lines, and the edits that patch them | |
| `StageTrial` | trials of single Stages and their cancellation | |
| `WorkflowDraft` | the Designer's canvas, Undo and Redo, dialogs | |
| `WorkflowEditor` | a session of the Visual and YAML editors with the server | |
| `PromptEditor` | a session of the Prompt editor | |
| `ProjectPage` | the task page and its late answers | |
| `DryRun` | the closure matrix of a Workflow | |
| `WorkflowGenerator` | Builder jobs: requests, polls, Builder and Runner | |
| `DraftPublish` | the publication of a draft, undone or killed | |
| `MCProtocols` | fifteen protocols side by side, of thirteen of these modules, a behavior being one of them | all it composes |
| `MCProgress` | what must end: two kinds of run, a List, a call | all it composes |
| `ProtocolProofs` | theorems about `SafetyHooks`, `AgentProcesses`, `StageTrial`, `ProjectList`, `WorkflowStudio`, `DraftPublish`, `RunLock`, `ScriptList` | these, `TLAPS` |
| `PageProofs` | theorems about `WorkflowEditor`, `PromptEditor`, `ProjectPage`, `WorkflowDraft` | these, `TLAPS` |
| `GeneratorProofs` | theorems about `WorkflowGenerator` and `DryRun` | these, `WorkflowTextProofs` for its inductions |
| `WorkflowTextProofs` | theorems about `WorkflowText`, and inductions over the naturals | this, `TLAPS` |
| `FlowEngineProofs` | theorems about `DynamicExpansion` and `FlowEngine` | these, `TLAPS` |
| other `*Proofs` | theorems about the module they are named for | that module, `TLAPS` |

`MCProtocols` and `MCProgress` put protocols that share no state side by side:
`protocol` (`process`) says which one steps, the others stay where they begin.
`RunLock` appears in `MCProtocols` twice (nobody killed; two launches, killed), and
`WorkflowEditor` twice (a user who waits for each answer; one who does not).

### DynamicExpansion

A Stage's name is a pair of a group number and a local name: `Ref(0, "plan")` is a
configured Stage, `Ref(3, "e1")` a child of the third expansion. In the code a
group is `<producer>__g<counter>` and a child `<group>__<safe name>`; the counter
alone makes it unique, and `SafeName` keeps the one thing the text adds, that two
names can become the same. `Nothing` is the empty name. `Template` is a Stage as
written, `Definition` one in the executable Workflow, with its path (the groups
it is nested in) and the two continuations the code stores as `_dynamic_*` keys.
Dictionaries of counters are sets of `[key, count]`.

`Expand` is `expand_stage_result`: drop what the producer had (`DropPrevious`),
install the tasks (`InstallTasks`), insert the children after the producer.
`FlowAccepted` is everything that can raise on the way: `validate_routes`, the
checks of `_expand_stages`, `_validate_task_bindings`. `Activate` is
`activate_dynamic_task`.

### FlowEngine

`mem` is the worker's `RunState` and `disk` is `state.json`; a save copies one to
the other. `pc` says where the engine is. One Stage is three steps, because the
code saves between them:

1. *Enter*: `BypassReview`, or `BeginStage` (the `set_stage` of a Stage that
   reports one), or one of the four ways the loop head ends.
2. *Execute*: session saves while the Stage runs, then `FinishStage`, the
   executor's save of the outcome, which still lacks the verdict and the route.
3. *Settle*: record the verdict, complete the task, route, save. This is one
   step because the code saves once, at its end.

`Crash` loses `mem`. `ResumeAfterCrash` is the Supervisor's restart,
`ResumeByOperator` a later `--resume` of a run that stopped or failed; both go
through `Resumable` (`RunState.validate`, `_validate_resume_state`) and
`Normalize`. `verdicts` is a history variable: the FAIL verdicts of each Review
since its last PASS.

What a Stage answers is nondeterministic (`Outcomes`): error, pass (with a child
Workflow, or a Handoff target) or, if it can, fail. The child Workflows come from
the constants `FlowId`, `FlowTasks`, `FlowStages`.

### StageExecutor

The executions of an AI Stage under one of the session policies (`main`, `role`,
`fresh`, `review`). An attempt is `StartAttempt`, one step for each model call (`Call`,
`Parse`, `Repair`, `Unparsed`, `CallFails`, `Collect`) and `EndAttempt` (changed files,
`hooks.after`); then `Accept`, `Retry`, `RetryChangedFiles` or `GiveUp`, and `Finish`
reduces the answer or raises. A worker may die between any two steps; `Restart`
keeps the session saved in `state.json` and nothing else. A correction (`Repair`) is a
model call like the first one: it may fail, for good or for the moment, or lose its session
(`CallFails`).

The engine may execute the Stage again in the same worker (`Again`), which finds its client
in `ctx.scratch` with the session it had and with its prompt noted as seen, or as others
left it (`AsOthersLeftIt`): all sessions of a Review given up (`reset_sessions`), or, of a
client that Stages share, a session that another one used or reset. `Init` is the Stage's
first execution in a worker, which may find a session that an earlier worker saved, or one
that a sibling with the same prompt used. The loop counts failures for each execution.
`hist` is history: which sessions were given up or know the Stage's prompt, which attempts
were rejected, what was counted. Tokens of
the model service are not modelled: an answer is a vote, malformed, or an error of
one of the classes the loop tells apart.

### ScriptList and ProcessRunner

A List's item saves its state once and ends, fails or dies; what happens in between
is `FlowEngine`'s matter. Around it are the retry loop of `api.run`, the exit codes
of the Supervisor, and later launches. `ProcessRunner` counts output instead of
spelling it; the command, the thread that feeds it, the one that reads it, the
draining loop and the clock each step on their own.

### RunLock, AgentProcesses, RunLaunch

One file operation of `RunLock` is one step: create with `O_EXCL`, write the payload,
read, judge the process id, read again, unlink, release. `lock.owner` stands for the
token and process id in the file. `RecheckOld` is the file older than the grace
period of five seconds; for a living creator that takes a stall, which `MaxStalls`
counts. `OwnerPidAlive` compares process ids only, as the code does.

`RunLaunch` assumes one launch at a time and follows what it does: the Supervisor
(`sup`) launches, spawns, reaps, restarts and stops; the Worker (`pc`) follows
`WorkflowRunner.__init__` file by file, then saves progress until it returns, fails,
raises or dies. `state` and `backup` are two writes. A run is a number; `begun`
remembers what each run was started with, `saved` how far `state.json` ever had it.
A hung Worker that the Supervisor kills is `Crash`: both end in a restart.
`command.file` says whether the AI validator prompt was a file, which is frozen, or
a text, which is not; `goal.txt` works the same way.

`AgentProcesses` is who ends an agent: the call that started it, or the Supervisor,
from the marker. `Immortal` agents survive their kill.

### UILaunch and WorkflowGenerator

`_runtime_lock` (and `_builder_lock`) makes requests follow each other: `at` says how
far the request being served is, one step for each read or write of a file that
others touch. Polls take no lock and interleave with everything. A Runner goes
through reservation, lock, marker, work, end, and may die at any point; so may the
server, which forgets what it held and keeps the files. `Age` is a grace period
running out; it runs out only when whoever it waits for is gone or late (`Startup`).

### Studio, Designer and pages

Contents are sets of edits, hashes are the content they are of, so "who lost what" is
a set difference. A request carries what it was sent with; it is served and answered
in separate steps, with edits, other requests and other editors in between.
`WorkflowText` is the opposite: a file is its lines, because what `_patch_stage_fields`
and its siblings decide is where a value or a Stage ends. `trail` in `WorkflowDraft`
is the sequence of canvases the user saw, `given`, `mixed`, `crossed`, `outdated`,
`behind`, `overtaken`, `stale` and `ghost` are histories that name exactly the cases in
which a property does not hold of the code; section 7 tells what happens in them.
`dropped` holds what the user gave up (unsaved changes discarded, a question about a draft
answered no) or typed during a save, and nothing else; drafts that the page takes away by
itself are in `outdated`.

In `PromptEditor` a save writes, a load reads and a page dies at any time, its requests
going on without it; `Shown` is what the page does with the content it then shows, the draft
it finds included. In `ProjectPage` the answer of a message may be late, a refusal, or lost
although the message was accepted (`AnswerLost`).

### Dry run

A Stage is its position. `Paths` is the breadth-first search, whose results become the
script of a case; `Failing` adds what the case is named for. The engine's steps are those
of `FlowEngine` without tasks, expansion and crashes; `Scripted` is the mock that answers,
`HitLimit` the cut-off, `EndCase` the comparison with what was expected. The code searches
the Workflow its happy path expanded to, and runs the unexpanded one: here the children
are Stages like any other, and every Stage has its case for ERROR.

## 3. What the runs check

Every property of a passing run has a mutant in `PROJECT.json`: a plausible slip in
one mapped definition under which the same run fails.

| run | instance | states | shows |
|---|---|---|---|
| `plan` | `FlowEngine`: a producer that returns either what `PlanStage` makes of two tasks (Execute and Review each), or a Workflow with a producer in it whose children review a task, hand off and leave by `done`; or four that no careful producer returns (unknown task, no task, route out of the group, skipped tasks); a Review of the whole that sends a failure back to the plan; one interruption anywhere | 348 000 | whatever was saved can be resumed, but for a child of an unknown task (`SavedStateResumable`) with the same previous result (`ResumeRepeatsInput`); no child, group, counter or task of a superseded expansion survives at any depth (`NoStaleChildren`); a task is completed only by a Stage bound to it although nesting moves the current task (`OnlyOwnStageCompletesTask`); a task's Review stays within its budget, one budget more for each interruption (`VerdictBudget`); every step back counts a cycle (`BackwardMovesCount`); nothing pending is completed (`CompletedHasNoPendingTask`); `TypeOK` |
| `any` | `RunLaunch`: three launches of four command lines (new, forced with a prompt as file or text, resume), two crashes, one recovered error, failing backups | 3 390 000 | a Worker runs a run only with the Workflow it was started with (`RunKeepsWorkflow`); `state.json` never goes back (`NoRollback`); after the first save a launch sticks to its run and its prompt (`RestartContinuesRun`) |
| `stop` | `RunLaunch`: one run in two launches, stop requests at any time, crashes, an error, `state.json` deleted once | 283 000 | a launch is stopped only by a request made for it, and a request seen by a running launch ends it even if its Worker would run for ever (`StopHonoured`); a restored backup lacks at most one save for each interrupted Worker (`RestoredIsRecent`); every launch ends (`EveryLaunchEnds`) |
| `stage` | `StageExecutor`: two votes, three session policies, one retry or unlimited ones, one repair of a malformed answer, a worker that executes the Stage twice and one that dies | 3 210 000 | in every execution, votes come from different sessions, those of a rejected attempt are not counted, the verdict is their majority (`VotesSound`); a session given up is never used again, no execution fails more attempts in one than its share, a prompt without the task only goes to a session that knows it (`SessionsSound`); the loop implements `StageExecution`, its ending included (`Implements`) |
| `ui` | `UILaunch`: three requests of any kind, two Runners that may die, a server that dies once, polls | 1 370 000 | one active Runtime (`OneRuntimeUnraced`), none reset while active (`ResetSparesRuntime`), one answer per run (`AnswersOnce`), no reservation that blocks for ever (`Unblocked`) |
| `gen` | `WorkflowGenerator`: two jobs, one cancelled, one process that dies, polls that write back what they read | 382 000 | a working Builder's job is the active one and has no final status (`BuilderIsActive`); every job ends (`JobEnds`) |
| `parts` | `MCProtocols` | 744 000 | `MutualExclusion` and `LoneLaunchStarts` (three launches with reused process ids, nobody killed; two launches, both killed); `NoOrphan`; `NothingLost` (three publications of three files); `AttemptRestored`; `PromptsResolve`; `ProjectsKept`; `CancelStops`; `TextIsMeant`; `CanvasSound`; `EditsSafe`; `PromptsSafe`; `PageSound`; `MatrixSound` (343 Workflows of three Stages) |
| `progress` | `MCProgress`: two Reviews that send the work back with neither cycle limit nor interruption; the careless child Workflows and one that completes the wrong task, with two interruptions; a List of three items; a call of `run_process` | 5 800 | every run ends, and a reviewer is not invoked once its budget is used (`RunsEnd`); a List runs its items in order, once, and ends (`ListImplements`: `ScriptList` implements `RunList`); a call returns (`CallReturns`) |
| `save`, `poll`, `skip`, `race` | the smallest instances that show a departure | | violations, section 7 |

The properties of `parts` in words. `CancelStops`: a trial cancelled at whatever point
before its end answers so, its process does not run on, and no other trial answers
cancelled. `TextIsMeant`: after any two edits the lines read as what the edits asked
for, whatever comments and blank lines the author left. `CanvasSound`: no edge or flow
entry names a Stage that is gone, and Undo and Redo walk along what the user saw.
`EditsSafe`: an edit is on the canvas, in the text, on its way, in the file or in a
draft that is offered, and no save takes away what another editor saved.
`PromptsSafe`: a change is in its Prompt's file or in a draft that is offered, unless the
user gave it up or typed it during a save; a page that removes a draft because it is of another
content loses a change by that only where somebody else, or a page that had died, changed the
file, or an older copy of it was shown; and a file holds only what was meant for it.
`PageSound`: the runtime shown never goes back, a message carries a Workflow of the
project it goes to, a lock is held only while a request that opens it is under way, and
a completed run's answer is shown. `MatrixSound`: the matrix has cases for just the
Stages that some results lead to, each case does run its Stage with the result it is
named for, and a Workflow without handoffs that is called closed ends from each of these
Stages once all of them pass.

Type invariants are conjuncts of these properties, or of the inductive invariants that
section 6 proves (`RunLock`, `SafetyHooks`, `DraftPublish`, `WorkflowStudio`,
`ProjectList`).

## 4. Bounds

* `MaxCycles` is the program's own `max_cycles` and not a bound. `CycleCap`
  saturates the counter of an unlimited run; it is compared with nothing else then.
* `MaxCycles = 5` in `plan` lets an inner producer run twice inside a plan that
  was itself made again, so groups are superseded that nest in each other and
  that succeed each other. `MaxCycles = 3` is enough for `loose`, where children fail
  at once.
* `MaxCrashes` is 1 or 2 for `FlowEngine`: an interruption can fall anywhere, and
  a resume starts from `disk` alone, so what a later one finds is a state an
  earlier one could have left.
* Tasks: at most two in a plan, enough for order, scope and supersession with a
  task completed and a task pending. Budgets are 1 and 2: the verdict that uses
  the budget up is, and is not, the first.
* `RunLock`: three launches are a living owner, a taker and a rival; killing two
  of two leaves files with and without payload. Stalls (`MaxStalls`) are 0 in the
  runs.
* `RunLaunch`: three launches are one that leaves something, one that is refused
  or forced, and one that resumes. `MaxProgress = 3` in `stop` lets a backup fall
  behind by more than the interruptions would allow.
* `StageExecutor`: three attempts of an execution and four sessions let a session be
  rotated, given up and replaced, and two executions by one worker, with one that dies, let
  it be kept, used by another Stage and found again. One retry reaches the end of a
  budget, an unlimited Stage goes past it. The delays 1 and 2 are the first one and a doubled one.
* `UILaunch`: three requests are a launch, one that ends or follows it, and one that
  meets what these left; two Runners are one that leaves something and a successor.
* `WorkflowGenerator`: two jobs are one whose files are stale and one that is active.
* `ProcessRunner`: pipes of one item and a queue of two fill up and drain; four writes
  fill both twice.
* `MCProtocols`: two of each thing that may be confused (files, Prompts, projects,
  Stages, trials), two changes of one's own and one of another editor, one death each.
  `MaxUndo = 1` is a stack that overflows at once; the code's is 50. Two requests of the
  Designer overtake each other, and so do two of the page's reads and two of its messages; one
  change of the project leaves answers of the other one under way. Larger instances hold too and are left out for their time:
  `WorkflowEditor` with three edits (1 060 000 states), `PromptEditor` with two changes and
  no other editor (2 590 000), `ProjectPage` with two changes of the project (2 400 000),
  `StageTrial` with three trials (163 000).
* `DryRun`: three Stages, each of seven definitions (straight on, back, forward, to itself,
  `done`, a Review with a budget, a handoff). All Workflows of 35 definitions, every
  combination of targets among them, hold too (1 900 000 states). With a bound
  of 40 every case that ends does so within seven executions, so `MaxSteps = 12` cuts off
  only cases that do not end.
* `Racing = {FALSE}` in `ui` leaves out the one race that `poll` shows.

## 5. Fairness

* `FlowEngine!Fairness`: weak fairness of entering, of `FinishStage`, of settling
  and of the restart. Nothing in the engine waits for another process, so a step
  that can be taken is taken. A Stage ends because its agent calls have timeouts
  (`CallReturns`) and its retries a limit (`Implements`); unlimited technical retries
  (`stage_retries: -1`) are assumed to end, which is an assumption about the service.
  Nothing forces a crash, an operator's resume or a session change.
* `RunLaunch!SupervisedSpec`: weak fairness of the Supervisor only; it polls every
  fraction of a second and its backoff is bounded by `retry_max_delay`. This is
  all `StopHonoured` needs. `EveryLaunchEnds` assumes weak fairness of the Worker in its
  own statement: a Worker that takes no step loses its heartbeat and is killed, that is,
  it steps or it crashes, and `MaxCrashes` makes crashes finite. The code restarts for
  ever otherwise, which is its design.
* `StageExecutor!FairSpec`: weak fairness of the loop. `StageExecution` promises an end
  only for a finite limit of retries.
* `ScriptList!ListFairness`: weak fairness of the work on items, retries and restarts.
* `ProcessRunner!PipeFairness`: weak fairness of the threads, of the caller, of the grace
  period and of the time limit; the command itself owes nothing, except that one without
  a limit goes on.
* `UILaunch`: weak fairness of the request being served, of ageing and of a Runner's
  steps. Nothing forces a request or a poll.
* `WorkflowGenerator`: the same, of the Builder and of a poll that has begun, and strong
  fairness of the poll that would change a status: the page polls while a job is shown,
  and each poll that finds it enabled changes it.
* `RunLock`, and the protocols of `parts`, have no liveness property: a launch that finds
  the lock held is refused at once, and a browser that ends owes nothing.

## 6. What is proved

Every theorem holds for all values of the constants, under the assumptions the modules
name, which TLC evaluates in every run.

**FlowEngineProofs**: `TypeCorrect`, `RoutesAlwaysResolve`, `CompletionIsReal`,
`EveryLoopIsCounted`, `NothingStaleIsSaved`, `ResumeIsExact`, `SavedStateIsResumable` and
`OwnStageCompletes`, for every configured Workflow, whatever its producers return, and any
number of interruptions. The inductive invariant is `IndInv`. That every route resolves is
not inductive: dropping a group could leave a Stage elsewhere that routes into it. It
becomes so with `RoutesOutward` (a Stage refers only to Stages whose path is contained in
its own: its group or the groups around it), so that whoever refers to a dropped Stage is
dropped with it; `ProducersOutside` (no producer lies inside a group of its own, so it
survives its own supersession and its place is found again); and `GroupsNumbered` (the
next group's number is new, so a new group collides with nothing). `AtStage` and
`HandoffChose` carry from Enter to Settle what the guards established.
The first part of the module proves this for the pure functions: `KeepEnumerates` (what
filtering a sequence returns), `DropPreviousProperties`, `ChildStagesProperties`,
`InsertProperties`, and from them `ExpandPreservesStateInv`; the second has one
lemma for each group of actions. `RoutesResolve` is proved and has no run any more.

`NothingStaleIsSaved` proves `NoStaleChildren`, which holds because groups form a tree.
The invariant `EngineTidy` adds to `IndInv`, in memory and on disk, `Tree` (Stages of one
group have one path, and whoever produced a group around a Stage lies on that Stage's
path) and `OneOwner` (a task has one producer). A group around a Stage that is kept was
therefore not produced by a Stage that is dropped (`DropPreviousTidy`), and a new group
hangs where its producer hangs (`ExpandTidy`). A completed run has no such maps left, and
`Normalize` must not make it active again, so the invariant also says that a completed
run's stage is `completed`. `ResumeIsExact` proves `ResumeRepeatsInput`: every commit
saves the result that the engine passes on, through any expansion.

`SavedStateIsResumable` needs where things lie. `Layout` says that names differ, that
children follow their producer in the Workflow, so that the producer stays where it is
when its expansion is dropped (what `dynamic_expansion.py:48` relies on), that a handoff
names its targets, and that a Stage is bound to a task of its own expansion, so that a
task only goes with the Stages bound to it; `Marks` keeps position, current task and
sessions inside what is there (`ExpandLayout`, `DropPreviousLayout`). Its hypothesis
`SafeNamesDiffer` is necessary: labels are compared before they are made safe
(`dynamic_expansion.py:298-318`), section 7. `OwnStageCompletes` follows the current task
through every step (`BoundToCurrent`). It assumes that the ids of the tasks of one result
differ, which `results.py:85` demands, and that children that complete a task are bound to
one (`CompletersBound`): `finish_task` completes whatever is current, so a completing
child without a binding does complete somebody else's task. The careless children of the
runs are outside that theorem.

`VerdictsStayInBudget` proves `VerdictBudget`, and with it `OpenReviewsStayInBudget` and
`ReviewersStopInTime` that a reviewer of a task still to be done is only invoked while it
has a failure left. The counter that the code keeps is not the number of verdicts: a crash
between the save of a bypass and the save of its route clears the one and keeps the other.
`BudgetInv` relates them: the verdicts of a Review are at most its counter and one budget
for each interruption, or one more while a bypass is under way (`Granted`); counter and
verdicts are kept under keys that no other Stage uses (`Keyed`), in memory as on disk
(`Agree`); and a Review that runs has a failure left (`MayFail`). That is about tasks
which are open. `finish_task` drops the counters of a finished task, so a route that leads
back to one of its Reviews gives it a new budget; `VerdictsStayInBudget` therefore assumes
that no step enters a Stage of a finished task (`ReopensTask`), as holds of the Workflows
of the run. A Gate behind a plan whose FAIL leads to a Review in it breaks
`VerdictBudget`, and not the other two.

**StageExecutorProofs**: `StageInvariant`, `VotesAreSound`, `SessionsAreSound` and
`RetryLoopIsSafe`, for all policies, budgets and numbers of votes, wherever the worker
dies. `StageInv` joins the retry budget (`LoopInv`), the sessions (`SessionInv`: they are
numbered as they are made, so the next one has failed nothing and was never dropped; in
one execution, a session's failures are those the loop has counted, plus the one that is being
settled; a session noted as seen has answered the Stage's whole prompt, and so has the one
that a correction is asked in, which is how the short prompt stays right over executions),
the votes (`BallotInv`: those up to the checkpoint are older than the attempt, so
discarding down to it takes exactly the attempt's own), `FreshInv` (a session that a call
waits in has not voted yet) and `VerdictInv`. `RetryLoopIsSafe` proves the safety part of
the refinement `Implements` step by step: a step of the loop is a step of `StageExecution`
or a stutter.

**ProtocolProofs**, `RunLock`: `LockTypeCorrect` for every bound; `LockExcludes`: for any number of
launches and with reused process ids, one owner and one Worker, assuming that no
Supervisor is killed or stalls for the grace period. `CleanInv` says why: a lock file
belongs to the launch that created it until that launch removes it, and a launch that saw
a token and then found its process gone saw one whose owner had released it (`pc[seen[p]]
= "done"`), so the re-read finds another content. Both assumptions are necessary, section
7: it takes a third launch to show that kills break it. For two, `TakeoverExcludes` proves
that kills do not, wherever they fall and even if ids are used again. `TakeoverInv` says that
whoever came as far as to remove a file found the other launch gone (`Departed`): no token
is used twice, so it never comes back, and nobody is left whose file could be taken.
`LoneLaunchIsNotRefused` is about the opposite case: kills and stalls, but nobody else
about. `LoneInv` counts the attempts: a launch that meets no other one spends one of its
two on the dead one's lock and finds none the second time. It assumes that process ids are
not used again, or nobody is killed; both together do refuse a launch, section 7.

**RunLaunchProofs**: `LaunchTypeCorrect`, `WorkflowIsKept`, `RunIsNotRolledBack`,
`RestartKeepsTheRun` and `RestoredBackupIsRecent`. The invariant `RunInv` follows the
fingerprint through every file: `state.json`, the backup and the Worker's state each carry
the Workflow their run began with, so a Worker whose snapshot has the saved fingerprint is
bound to the right one. For `RunIsNotRolledBack` it also says how far each file is: the
backup never ahead of `state.json`, and `state.json` where its run was saved last. For
`RestartKeepsTheRun`, `OwnInv` says that once a launch has a run that run is what is
saved, and every later Worker of the launch resumes; `PromptInv` that a prompt given as a
file is the frozen one from then on. For `RestoredBackupIsRecent`, `LagInv` says that a
run has been saved at most once for every interruption more than its backup knows, where
the save that is under way counts as one (`Slack`). It assumes `~BackupMayFail`: the code
goes on when a backup cannot be written, and such a backup may lack any number of saves.

**ProtocolProofs**, `ScriptList`: `ListKeepsItsPromise`, the safety part of the refinement of
`RunList` by `ScriptList`, for a List of any length: `OrderInv` (items before one that has
a state are completed, and a list that is not resumed has come to nothing after the
present item) lets a retry or a restart that begins at the first item again come to the
one that was interrupted. It assumes `Leftovers = {}`, section 7.

**UILaunchProofs**: `UIInvariant`, `OneRuntimeUnlessRaced`, `ResetSparesActive` and
`RunsAreAnsweredOnce`, for any number of launches, requests and deaths. `UIInv` says that
one Runner at most is busy (`FilesInv`); that it holds the reservation, and the
reservation counts, until its marker is there (`Held`), so that a look at the marker and
then at the reservation misses nobody, in this order; that only a look that found a marker
or nobody removes a reservation (`LookInv`); and therefore that nobody is busy while a
request resets, forgets or launches (`ServingInv`). `ChatInv` adds what an answer needs: a
run's id is its Runner's and is not used before that Runner saves a state (`Unborn`), a
run that is not done has not been answered, and while an answer waits for its note nobody
else has the chat and no other run can begin (`SyncInv`).

**ProtocolProofs** covers six smaller modules too:

* `SafetyHooks`: `HooksInvariant`, `AttemptsAreRestored`. Wherever an attempt that is to
  be taken back may begin, the copy is the project (`HookInv`); the copy is behind only
  while an attempt that may write has not been followed up.
* `AgentProcesses`: `NoAgentIsLeftBehind`, from `AgentInv`: a known agent that is alive is
  the marker's, and the current worker's (`KnownInv`).
* `StageTrial`: `CancelledTrialsStop`, from `TrialInv`: at each step of a trial, where it
  is found (`Located`) and who will notice its cancellation (`Caught`): the set it is
  asked of, or the kill that is under way.
* `ProjectList`: `ListIsKept`, from `RegistryInv`: who is between reading and writing
  holds the lock (`Exclusive`), so what it read is what the calls made of the list so far
  (`Serial`).
* `WorkflowStudio`: `NoPromptIsMissed`, from `StudioInv`: the scope that a reference
  resolves in is only left by requests that looked at every reference in it.
* `DraftPublish`: `PublishInvariant`, `PublishingLosesNothing`, for any number of files
  and publications: for every step of a publication, which of a file, its copy and its
  original agree.

**GeneratorProofs**: `GeneratorInvariant` and `WorkingJobIsActive`, for any number of jobs
and Builders. What makes `BuilderIsActive` hold under polls that write back an old status:
whoever is about to write over a Builder at work (a poll, a request, a cancel) holds a
status that already has the Builder's process id, so it finds the Builder alive and leaves
the job as it is; the id is missing only between `Popen` and the request's own record of
it, and `_builder_lock` keeps a cancel out of there.

`MatrixStaysSound` proves `MatrixSound` for any number of Stages and any Workflow, loops,
budgets and handoffs included. Three arguments make it up.

* The search is complete (`SearchFindsAll`): what is found in k + 1 steps and not in k ends
  a path of k + 1 steps that visits no Stage twice (`PathToNew`), and a set of Stages that
  grows at each step has stopped growing before there have been as many steps as Stages
  (`GrowthEnds`), which is as deep as such paths go. What the recursive functions `Levels`,
  `Within` and `PassingIn` are follows from `Iterates`, and every induction is one over a
  set of naturals (`AllNaturals`), from the least element of its complement.
* A case does what it is named for (`RunsItsCase`): its script was read off a path that
  visits no Stage twice (`Trail`), so until it comes to its own Stage no Stage has been
  asked or has failed before (`OnWay`): there is neither a bypass nor a repeated answer,
  nor can the cut-off be met, and the engine takes the path (`StepOnWay`, `GoesOnWay`).
* Closed means that passing completes (`MatrixCloses`): a case that completes shows that
  the Stage after the failure completes once all pass, if the Stages on its way that
  do not just pass are known to do so too (`Links`, `CaseIsSo`). These lie on shorter paths
  (`SeenEarlier`), because the case begins with a shortest one (`FirstIs`), so the claim follows
  by induction on the length of paths. It needs every case to have been run (`CasesShown`).

**PageProofs** is about the three pages and the canvas, for any number of edits, requests,
editors, reads and projects.

* `EditorInvariant`, `NoEditIsLost`: a canvas or a text is made from the content of its
  hash or base (`PageBased`), the view that is not shown holds nothing of its own
  (`PageHeld`), and an answer that is awaited replaces the page by what is held or by what
  the page itself sent (`RequestOK`); so each edit is in the page, the file or the stored
  draft (`Kept`), or is one of those that `given` and `mixed` name, section 7.
* `PromptInvariant`, `NoPromptTextIsLost`: for each Prompt on its own, as long as no save
  to it was crossed: whatever is in the textarea, in a save or in the question about a draft is
  in the file, in the kept draft, dropped, or lost with a draft of another content already, so
  that no page that dies takes anything with it (`PText`, `PSaving`, `POffer`). `Settled(p)`
  counts that last way only if the Prompt is `behind`; `PFresh` says why the page removes no
  other draft with a change in it: as long as nobody else, and no dead page, saved the Prompt and no older copy was
  shown, what is open, asked for or drafted goes with the content that the file has.
* `TaskInvariant`, `PageShowsWhatIs`: the read that others join is the last one, and of
  the project that is shown (`SharedOK`), so its answer is not older than what is shown
  (`ReadOK`); a message that waits for a read that began before its start goes on with a
  later one (`SendOK`), so a start is not reported over an older runtime (`ReportOK`);
  and the completed run that was noticed is in the chat or in a read of it (`ChatOK`).
* `CanvasStaysSound`, `RolesStaySound`: from every canvas that is sound itself, and so from
  the one of the runs. That Undo and Redo walk along what the user saw is not inductive by
  itself: what an Undo puts on the Redo stack must be a canvas of that walk too. `Retraced`
  says that there is a road through what the user saw, without a repetition, on which both
  stacks move away from the canvas step by step; `Shared` that the stacks together hold no
  more snapshots than one may, so that neither drops one of the other's; `DraftWhole` that
  each snapshot is sound, and that a dialog's pending edge has its Stage. Where a dialog
  went on with an older canvas (`stale`) only the second half of `CanvasSound` is left.

**WorkflowTextProofs**: `TextStaysMeant` proves `TextIsMeant` for any finite set of
Stages, any values of their fields and any number of edits. `PatchAssumption` says that a
value is absent or a nonempty sequence of lines: a field that is there has its first line
at the key.

The inductive invariant `TextInv` does not say what the lines are read as, but that they can
be explained: `Means(t, L, ...)` is there when `L` says of each line where one is behind
it (between the Stages, in a Stage, in the n-th line of a value, behind n entries of the flow),
each line takes one from the place before it to its own (`Moves`), no head, Stage or field
occurs twice, and none that is meant is missing. That such lines do read as what is meant
(`ReadsIsRead`) needs what is collected from a stretch of lines (`AmongSteps`, `ValueRead`,
`FlowRead`), and is used once, at the end. Every patch replaces a stretch of lines by new
ones, so one lemma about putting one explanation into another (`SplicedMeans`) carries all of
them: what remains for each is that the new lines are right where they are put and that the
stretch ends where the value, the Stage or the flow does (`ValuePatched`, `LineAdded`,
`StageInserted`, `StageRemoved`, `FlowReplaced`). A drawing is saved by three passes over
its Stages; in between the lines mean Stages of which some are as they were and some as
drawn (`StagesRemoved`, `StagesStaged`, `StagesRouted`). What an author typed is built up
by the same lemmas, from a text without Stages (`AuthoredRead`).

What folds over the lines of a file or over a set of Stages give for every length is an
induction over data, which the prover has no rule for. These proofs, and those about
`DryRun`, do it as a statement about a set of naturals: the set has 0 and with each number
the next, so it has all of them (`AllNaturals`).

Every safety property of the passing runs is stated by a theorem. Only model-checked: of the
refinements `Implements` and `ListImplements` their liveness; every liveness property, because
liveness and `ENABLED` are out of the prover's reach; and everything about concrete child
Workflows. No module uses `RECURSIVE`.

## 7. Where the code departs from its documents

Each of these has a run whose counterexample shows it:

* `save`: Save is the publish boundary of the Builder. `_builder_validate_draft` calls
  `subprocess.run` in a file that does not import `subprocess`
  (`ui/workflow_builder_state.py:281`): a Save of a ready draft raises and publishes
  nothing.
* `poll`: a project has at most one active Runtime
  (`docs/development/PROJECT_GUIDE.md:45`). `read_runtime` removes the reservation
  without its token (`ui/project_runtime_state.py:389`, `:696`); between the reads of a
  Reset that lets a second Runner start.
* `skip`: an exhausted item of a List is skipped (`docs/user/CLI_REFERENCE.md:32`).
  `script.py:101` waits for exit code 2; the engine returns 1 (`flow_engine.py:61`).
* `race`: two launches judge a dead owner's lock; the slower unlinks the lock that
  the faster has just created (`supervisor.py:290`). The re-read before the unlink
  narrows the window and does not close it.

Met while modelling, without a run of their own. Where a property would be broken it
excludes exactly these cases, and says so in its comment.

*Engine and launches*

* `README.md:56` lets a Review fail `max_failures` times, then it is skipped. The
  bypass clears the counter and saves before it routes; a crash between the two gives
  the reviewer a second budget (`VerdictBudget` allows it).
* A child that routes to `done` finishes its Workflow (`docs/development/ADD_STAGE.md:62`).
  If the producer's continuation is `next`, `done` becomes `next` **at the child**
  (`dynamic_expansion.py:111`), and its next sibling runs.
* A child bound to a task its result does not contain is accepted and saved
  (`dynamic_expansion.py:286`); the run fails there and every later resume is refused.
* A Review bound to no task counts its failures under whichever task is current
  (`flow_engine.py:168`). When tasks are not completed in their order, as with a
  nested producer, that changes from round to round and the budget starts again.
* Two children whose names differ only in characters a name may not have become
  one name (`dynamic_expansion.py:297-319`); the Workflow is saved and a resume is
  refused for duplicate names.
* `--force-new` whose Worker dies before its first save is restarted as `--resume` and
  finds the old run (`supervisor.py:141`).
* The Worker of a killed Supervisor runs on, and the next launch starts a second one.
* A launch given the process id of a dead owner takes itself for it and is refused
  (why `takeover` has `ReusePids = FALSE`).
* A plain launch that is refused because a state exists has already replaced
  `workflow.snapshot.json`, so the advised `--resume` is refused too if the
  Workflows differ (`workflow_runner.py:71`, `:83`).
* A run given its prompt as text leaves a prompt frozen by an earlier run in place,
  and its own restart reads that one (`resources.py:152`).
* A worker that dies between starting an agent and writing its marker leaves a process
  that nothing ends (`process_runner.py:81`): `NoOrphan` is about `Known` agents.
* A List whose directory holds the completed states of an earlier one skips these items
  and succeeds (`Leftovers = {}` in the run; `docs/user/CLI_REFERENCE.md:44`).

*Stages*

* An exception of `hooks.after`, or a malformed file, rejects an attempt and keeps its
  votes (`stage_executor.py:267`), as the model does: `VotesSound` is about attempts that
  the hooks rejected for violations.
* The short prompt of a Retry says what to correct and does not name the task again
  (`base_stage.py:232`): a session knows it from its first prompt only.
* "One Same Session stays bounded" (`stage_executor.py:64`): the count of failures begins
  anew with each execution (`:84`), so a session that a worker keeps over executions, as that
  of a `role` Stage, may fail the bound's number of attempts in each of them.
* A majority is the default only where `required_passes` is not configured.

*UI runtime*

* `launch_message` removes a completed run's files before it knows that the message will
  be accepted, and the run's answer with them if no poll has shown it
  (`project_runtime_state.py:970`); `rerun_last` shows it first.
* A server that dies between starting a Runner and noting it leaves one it does not know
  (`orphaned`): a second Runtime may start beside it, and as both save the state of their run in turn an
  answer may be given again, or after its chat was cleared. With four Runners and seven requests
  TLC finds that, so `AnswersOnce` excludes it as the other properties of `ui` do. A second server on the
  same projects is assumed away.
* Two calls that judge the same stale registry lock may both proceed (`raced`,
  `project_registry.py:75`).
* A project that comes back on the list brings references nobody looked after
  (`returned`).

*Stage trials and line patches*

* The set of cancelled trials is emptied when it has 64 entries, whatever is in it
  (`forgotten`); a cancel that comes after its trial ended stays in it;
  `_stage_test_runtime` makes its lock at the first use, without a lock.
* A field whose value has a blank line, or a comment no deeper than the field, leaves its
  tail behind when it is patched (`workflow_studio_state.py:803-833`).
* `studio_graph_save` never removes an option that the drawing no longer has
  (`workflow_studio_state.py:1405-1416`); `TextIsMeant` takes this for what was asked.

*Dry run*

* Dry Run validates graph closure (`README.md:345`). Unless the scenario says otherwise a
  handoff goes to its last target, and a Stage that only another target leads to is tried
  with FAIL and ERROR; if these stop the run, or lead elsewhere, its PASS is never tried.
  A Workflow whose branch comes back to itself for ever is called closed
  (`workflow_dryrun.py:129`, `:423`): `MatrixSound` speaks of Workflows without handoffs.
* A result that leads to a Stage is repeated whenever its own Stage runs again
  (`workflow_dryrun.py:143`), so a Workflow in which FAIL of one Stage leads to another that
  comes back, and would go on once the first passes, is called open.

*Workflow Designer*

* A dialog, and the answer of *Apply Stage YAML*, go on with the canvas they were opened
  over (`main.tsx:1131-1154`, `:1628-1656`): later edits are lost and Redo may survive
  them (`stale`). Applied Stage YAML also loses the Stage's routes and targets
  (`workflow_studio_state.py:407-411`, `:428`).
* Undo while the Create Stage dialog is open can remove the pending edge's source; the new
  Stage then puts a missing one into the flow, and Save is refused (`ghost`).
* Connecting FAIL to a Stage that is not in the flow appends it there, so that the last
  Stage's implicit PASS no longer ends the Workflow; a connection from START reorders
  the implicit edges.
* What is edited, or restored, while a save, a switch of the view or a load is under way
  is replaced by its answer, and the stored draft with it (`given`;
  `main.tsx:1305-1423`, `:1698`). A late answer may also replace newer content.
* `saveYaml` reads the file again after it saved it (`main.tsx:1376`), and a switch takes
  its hash from one answer and its text from another: a text may carry a hash of newer
  content, and its next save overwrites another editor's change (`mixed`), despite "File
  changed on disk. Reload before saving to avoid overwriting another editor."
  (`workflow_studio_state.py:268`).
* Reload without unsaved edits clears a recovery draft that is still offered; *Discard*
  also clears what was stored after it was offered; the first edit overwrites it.

*Prompt editor and task page*

* `saveStudio` reads the open file and its hash after it awaited the check of the text
  (`app.js:1530-1534`): a Prompt opened meanwhile is overwritten with the text of the
  other (`crossed`), and what was typed during a save is replaced by its answer
  (`dropped`). The question about a draft writes it to whatever is open when it is
  answered, also over a save of the same Prompt that was answered meanwhile: the text then
  goes with the hash of the newer content (`crossed`). `PromptsSafe` says nothing of such a file.
* Opening a Prompt removes a draft that was of another content, without a word
  (`app.js:1282-1284`): a change that is typed before the page ends is lost when the Prompt is
  opened again after another editor saved it, or after the server carried out the save of the page that
  ended; so is one typed over a newer content than the cached, or overtaken, copy that
  is shown next. A change is in `outdated` then, and `PromptsSafe` allows it for
  a Prompt that is `behind`, and for no other.
* A save neither drops the cached copy nor refreshes the list: the Prompt opened again
  within 15 seconds shows its old content and hash, and the next save is refused. Reload of
  an unmodified Prompt does nothing (`app.js:1318`, `:1545`).
* Chat answers carry no token: an older one may replace a newer one (`overtaken`,
  `app.js:466`), and `PageSound` says nothing of the chat then. A chat that cannot be read while a project is opened leaves the Workflow
  list unread and the previous project's chat in place; after an accepted message it
  reports that the start failed (`app.js:788-793`).
* Between `selectProject` and the list of Workflows a message can be sent without one; the
  server refuses it.

## 8. What is not modelled

* Texts: outputs, prompts, errors, `transition_history`, logs, events, rendering.
* A child called `next`, `done` or `stop`; a child whose full name collides with a
  Stage outside its group; a task id that gets a numeric suffix.
* `state.json` that exists and cannot be parsed. Deletion is modelled; a file is
  replaced in one step because `os.replace` is atomic.
* Ctrl-C, and concurrency of a Supervisor's orphaned Worker with later launches in
  `RunLaunch`; `RunLock` shows that it arises.
* The count of repeated errors after which `api.run` gives up is the bound
  `MaxErrors`, followed by an exit that may happen at any time.
* Edits of the project from outside while an attempt runs, or between attempts.
* Agent command lines and the parsing of their output (`runner/agent/`), context
  compression, the console and the git guard (`runner/plugins/`), loader, profiles and
  registry, configuration, prompting: functions of their input, or the work of other
  programs, without a protocol of their own.
* `tool/`: `qwen_live_reliability.py` alone is a fifth of the Python code, a harness of
  probes against a live service; the others (worktree launcher, bundles, probes)
  are development aids. They keep no state of a run, and what they check is other code.
* The HTTP server, the file browser, the Builder's page and the catalogs: dispatch and
  display.

## 9. Plan

Done: every module of section 2 and the proofs of section 6. What would add most next:

1. A `CommittedRun`: an abstract durable run (a sequence of commits, each at most repeated
   by a crash and never lost) that `FlowEngine` implements.
2. The recovery of an agent's answer by the clients (`runner/agent/qwen.py`,
   `opencode.py`) as a parser over event sequences.
3. A second UI server, and an outside editor of the project's files.
