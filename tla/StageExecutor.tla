----------------------------- MODULE StageExecutor -----------------------------
(***************************************************************************)
(* The executions of an AI Stage: the retry loop of StageExecutor           *)
(* (execution/stage_executor.py), the votes a BaseStage collects over its    *)
(* attempts, the session each model call uses and what that session has      *)
(* been told (stages/base_stage.py), and the session bookkeeping of the      *)
(* agent client (agent/client.py).                                          *)
(*                                                                         *)
(* An attempt is StartAttempt, one step per model call, and EndAttempt       *)
(* (changed files, hooks.after); then the loop answers, retries or gives up, *)
(* and Finish reduces the answer.  The worker may die between any two of     *)
(* them: what survives is the session saved in state.json.  A worker whose   *)
(* Stage returned may execute it again, with the client it has.             *)
(***************************************************************************)
EXTENDS Integers, Sequences, FiniteSets

CONSTANTS
  Policies,     \* session policies the Stage may be declared with
  Limits,       \* values of stage_retries; Unlimited is one
  Runs,         \* votes the Stage collects
  Repairs,      \* structured_retries
  BaseDelay,    \* retry_delay
  MaxDelay,     \* retry_max_delay
  MaxSessions,  \* bound: sessions the agent creates
  MaxAttempts,  \* bound: attempts of one execution
  MaxRestarts,  \* bound: workers that die while the Stage runs
  MaxRepeats    \* bound: executions after one that returned

Unlimited == -1
PerSession == 2                    \* DEFAULT_PER_SESSION_ATTEMPTS
ASSUME ParameterAssumption ==
  /\ Policies \subseteq {"main", "role", "fresh", "review"}
  /\ Limits \subseteq Nat \cup {Unlimited} /\ Runs \in Nat \ {0} /\ Repairs \in Nat
  /\ BaseDelay \in Nat /\ MaxDelay \in Nat
  /\ MaxSessions \in Nat \ {0}
  /\ MaxAttempts \in Nat /\ MaxRestarts \in Nat /\ MaxRepeats \in Nat

VARIABLES
  limit,     \* retry_limit of this execution
  policy,    \* session policy of the Stage ("review": the shared review_client)
  pc,        \* where the executor is
  loop,      \* locals of StageExecutor.run
  session,   \* session_id of the Stage's client
  seen,      \* session recorded in prompt_contracts for this Stage's prompt
  saved,     \* session of this client in state.json
  stage,     \* the BaseStage: votes, checkpoint, pending
  result,    \* result of the attempt
  repairs,   \* corrections left to the current structured call
  restarts, repeats,
  hist       \* history: made, known, stray and dropped of this worker, the rest of this execution

vars == <<limit, policy, pc, loop, session, seen, saved, stage, result, repairs, restarts, repeats,
          hist>>

NoSession == 0
Session == 1 .. MaxSessions        \* in the order in which they are created
Sessions == Session \cup {NoSession}
Larger(a, b) == IF a > b THEN a ELSE b
Smaller(a, b) == IF a < b THEN a ELSE b
FirstDelay == IF limit = Unlimited THEN Larger(1, BaseDelay) ELSE BaseDelay
LastDelay == Larger(FirstDelay, MaxDelay)

FreshLoop == [attempt |-> 0, used |-> 0, failures |-> 0, mode |-> "initial",
              delay |-> FirstDelay, wait |-> FirstDelay]
FreshStage == [votes |-> <<>>, checkpoint |-> 0, pending |-> FALSE]
NoResult == [status |-> "pass", transient |-> FALSE, changed |-> FALSE]
Error(transient) == [status |-> "error", transient |-> transient, changed |-> FALSE]

(* The session that the Stage finds: the one of its own client, kept in the   *)
(* worker or saved by an earlier one, or, of a main or review client, which   *)
(* Stages share, one that a sibling with the same prompt may have used.       *)
Shared == policy \in {"main", "review"}
Durable == policy \in {"main", "role"}

Init ==
  /\ limit \in Limits /\ policy \in Policies
  /\ pc = "attempt" /\ loop = FreshLoop /\ stage = FreshStage
  /\ result = NoResult /\ repairs = 0 /\ restarts = 0 /\ repeats = 0
  /\ session \in {NoSession, 1}
  /\ seen \in {NoSession, session}
  /\ saved = IF Durable THEN session ELSE NoSession
  /\ hist = [made |-> session, known |-> {seen} \ {NoSession},
             stray |-> FALSE, dropped |-> {}, failed |-> [s \in Session |-> 0],
             rejected |-> {}, counted |-> <<>>, outcome |-> "error"]

--------------------------------------------------------------------------
(* The client and the sessions. *)
New == {hist.made + 1} \cap Session
ClientSession ==
  IF policy = "fresh" /\ ~stage.pending THEN NoSession ELSE session

(* _shared_control_prompt and _prompt: the whole Stage prompt, or only the    *)
(* control envelope, which names the current task in mode continue.           *)
PromptSeen(s) == s # NoSession /\ seen = s
ControlMode(s) ==
  IF loop.mode # "initial" THEN loop.mode
  ELSE IF PromptSeen(s) THEN "continue" ELSE "initial"
Delta(s) == ControlMode(s) # "initial" /\ loop.mode # "recover" /\ PromptSeen(s)
(* _remember_prompt and _persist_session, after every answer. *)
Remember(s) ==
  /\ seen' = IF s = NoSession THEN seen ELSE s
  /\ saved' = IF ~Durable \/ (policy = "main" /\ s = NoSession) THEN saved ELSE s

(* reset_session: drop this client's session, here and in state.json. *)
MutantResetSession ==
  /\ session' = NoSession
  /\ UNCHANGED <<saved, seen>>
  /\ hist' = [hist EXCEPT !.dropped = @ \cup ({session} \ {NoSession})]
ResetSession ==
  /\ session' = NoSession
  /\ saved' = NoSession
  /\ seen' = IF session # NoSession /\ seen = session THEN NoSession ELSE seen
  /\ hist' = [hist EXCEPT !.dropped = @ \cup ({session} \ {NoSession})]

--------------------------------------------------------------------------
(* StageExecutor._attempt: hooks.before, then BaseStage.run. *)
StartAttempt ==
  /\ pc = "attempt" /\ loop.attempt < MaxAttempts
  /\ loop' = [loop EXCEPT !.attempt = @ + 1]
  /\ \/ /\ pc' = "voting" /\ result' = NoResult
        /\ stage' = [stage EXCEPT !.checkpoint = Len(stage.votes)]
     \/ /\ pc' = "unhooked" /\ result' = Error(FALSE)   \* hooks.before raised
        /\ UNCHANGED stage
  /\ UNCHANGED <<limit, policy, session, seen, saved, repairs, restarts, repeats, hist>>

Vote(v) == [pass |-> v, session |-> session, attempt |-> loop.attempt]

(* What a call sends without the Stage prompt: the control envelope alone, or  *)
(* what was wrong with the answer before.                                    *)
Short(s) == pc = "parsing" \/ Delta(s)

(* A call in session s sends its prompt, and the answer or the error names    *)
(* session t.                                                                *)
Sent(s, t) ==
  [hist EXCEPT !.made = Larger(@, t),
               !.stray = @ \/ (Short(s) /\ s \notin hist.known)]

(* AIClient.ask answered: the client takes the answer's session if it had    *)
(* none.  An answer always names its session.                                *)
Answered(s, t) ==
  /\ IF s # NoSession THEN t = s ELSE t \in New
  /\ session' = t
  /\ Remember(t)
  /\ hist' = [Sent(s, t) EXCEPT !.known = IF Short(s) THEN @ ELSE @ \cup {t}]

Call ==
  /\ pc = "voting" /\ Len(stage.votes) < Runs
  /\ \E t \in Sessions : Answered(ClientSession, t)
  /\ stage' = [stage EXCEPT !.pending = TRUE]
  /\ repairs' = Repairs
  /\ pc' = "parsing"
  /\ UNCHANGED <<limit, policy, loop, result, restarts, repeats>>

Parse ==
  /\ pc = "parsing"
  /\ \E v \in BOOLEAN :
       stage' = [stage EXCEPT !.votes = Append(@, Vote(v)), !.pending = FALSE]
  /\ pc' = "voting" /\ repairs' = 0
  /\ UNCHANGED <<limit, policy, loop, session, seen, saved, result, restarts, repeats, hist>>

(* structured_call: a bounded number of corrections, asked for in the same     *)
(* session, and StructuredOutputError after them.                            *)
Repair ==
  /\ pc = "parsing" /\ repairs > 0
  /\ \E t \in Sessions : Answered(ClientSession, t)
  /\ repairs' = repairs - 1
  /\ UNCHANGED <<limit, policy, pc, loop, stage, result, restarts, repeats>>
Unparsed ==
  /\ pc = "parsing" /\ repairs = 0
  /\ pc' = "ran" /\ result' = Error(FALSE)
  /\ UNCHANGED <<limit, policy, loop, session, seen, saved, stage, repairs, restarts, repeats, hist>>

(* _raise_backend_error, for a vote's call or a correction: the client takes   *)
(* the error's session if it had none; a session that the agent no longer     *)
(* knows is dropped.                                                         *)
CallFails ==
  /\ \/ pc = "voting" /\ Len(stage.votes) < Runs
     \/ pc = "parsing" /\ repairs > 0
  /\ LET s == ClientSession IN
     \E t \in IF s = NoSession THEN New \cup {NoSession} ELSE {s},
        invalid, transient \in BOOLEAN :
       /\ invalid => ~transient
       /\ session' = IF invalid THEN NoSession ELSE t
       /\ hist' = Sent(s, t)
       /\ result' = Error(transient)
  /\ stage' = [stage EXCEPT !.pending = TRUE]
  /\ pc' = "ran" /\ repairs' = 0
  /\ UNCHANGED <<limit, policy, loop, seen, saved, restarts, repeats>>

(* BaseStage.run returns once it has all its votes. *)
Required == Runs \div 2 + 1
Passes == Cardinality({i \in 1 .. Len(stage.votes) : stage.votes[i].pass})
Collect ==
  /\ pc = "voting" /\ Len(stage.votes) = Runs
  /\ result' = [NoResult EXCEPT !.status = IF Passes >= Required THEN "pass" ELSE "fail"]
  /\ pc' = "ran"
  /\ UNCHANGED <<limit, policy, loop, session, seen, saved, stage, repairs, restarts, repeats, hist>>

--------------------------------------------------------------------------
(* discard_attempt_results *)
MutantDiscard(st) == [st EXCEPT !.pending = FALSE]
Discard(st) == [st EXCEPT !.votes = SubSeq(@, 1, st.checkpoint), !.pending = FALSE]

(* After the Stage ran: files that changed, then hooks.after.  A malformed    *)
(* file and an exception of the hooks turn the result into an error and keep  *)
(* the votes; violations discard the votes of the attempt.                    *)
EndAttempt ==
  /\ pc \in {"ran", "unhooked"}
  /\ \E files \in {"none", "changed", "malformed"}, hook \in {"ok", "raised", "violated"} :
       LET r == CASE files = "none"      -> result
                  [] files = "changed"   -> [result EXCEPT !.changed = TRUE]
                  [] files = "malformed" -> [Error(FALSE) EXCEPT !.changed = TRUE]
       IN /\ hook = "violated" => pc = "ran"
          /\ result' = CASE hook = "ok"       -> r
                         [] hook = "raised"   -> IF r.status = "error" THEN r ELSE Error(FALSE)
                         [] hook = "violated" -> Error(FALSE)
          /\ stage' = IF hook = "violated" THEN Discard(stage) ELSE stage
          /\ hist' = [hist EXCEPT
               !.rejected = {a \in hist.rejected
                                     \cup (IF hook = "violated" THEN {loop.attempt} ELSE {}) :
                               \E i \in DOMAIN stage'.votes : stage'.votes[i].attempt = a},
               !.failed = IF result'.status = "error" /\ session # NoSession
                          THEN [hist.failed EXCEPT ![session] = @ + 1] ELSE hist.failed]
  /\ pc' = "settle"
  /\ UNCHANGED <<limit, policy, loop, session, seen, saved, repairs, restarts, repeats>>

(* A result that is no error ends the loop. *)
Accept ==
  /\ pc = "settle" /\ result.status # "error"
  /\ pc' = "finish"
  /\ UNCHANGED <<limit, policy, loop, session, seen, saved, stage, result, repairs, restarts, repeats, hist>>

MutantBudgetSpent == limit # Unlimited /\ loop.used > limit
BudgetSpent == limit # Unlimited /\ loop.used >= limit
GiveUp ==
  /\ pc = "settle" /\ result.status = "error" /\ BudgetSpent
  /\ pc' = "finish"
  /\ UNCHANGED <<limit, policy, loop, session, seen, saved, stage, result, repairs, restarts, repeats, hist>>

Used == IF limit = Unlimited THEN 0 ELSE loop.used + 1

(* A failed attempt that changed files goes on in a fresh session. *)
RetryChangedFiles ==
  /\ pc = "settle" /\ result.status = "error" /\ ~BudgetSpent /\ result.changed
  /\ ResetSession
  /\ loop' = [loop EXCEPT !.used = Used, !.failures = 0, !.mode = "recover",
                          !.delay = FirstDelay, !.wait = FirstDelay]
  /\ pc' = "attempt"
  /\ UNCHANGED <<limit, policy, stage, result, repairs, restarts, repeats>>

(* The waiting time doubles while the service is unavailable. *)
NextDelay ==
  IF result.transient /\ loop.delay > 0
  THEN Smaller(LastDelay, Larger(FirstDelay, loop.delay * 2)) ELSE FirstDelay
Wait == IF result.transient THEN loop.delay ELSE FirstDelay

(* _next_session_retry: the second failure in a session is the last one. *)
Exhausted == loop.failures + 1 >= PerSession
Retry ==
  /\ pc = "settle" /\ result.status = "error" /\ ~BudgetSpent /\ ~result.changed
  /\ IF Exhausted THEN ResetSession ELSE UNCHANGED <<session, seen, saved, hist>>
  /\ loop' = [loop EXCEPT !.used = Used, !.failures = IF Exhausted THEN 0 ELSE @ + 1,
                          !.mode = IF ~Exhausted /\ session # NoSession
                                   THEN "retry" ELSE "recover",
                          !.delay = NextDelay, !.wait = Wait]
  /\ pc' = "attempt"
  /\ UNCHANGED <<limit, policy, stage, result, repairs, restarts, repeats>>

(* stage.finish, the kind of the result and reduce_result, which may fail. *)
Finish ==
  /\ pc = "finish"
  /\ \E reduced \in BOOLEAN :
       hist' = [hist EXCEPT !.counted = stage.votes,
                            !.outcome = IF reduced THEN result.status ELSE "error"]
  /\ stage' = FreshStage
  /\ pc' = "returned"
  /\ UNCHANGED <<limit, policy, loop, session, seen, saved, result, repairs, restarts, repeats>>

(* ConfigurationError, or an exception that is no RunnerError. *)
Raise ==
  /\ pc \in {"voting", "parsing", "settle", "finish"}
  /\ pc' = "raised"
  /\ UNCHANGED <<limit, policy, loop, session, seen, saved, stage, result, repairs, restarts, repeats, hist>>

(* The worker dies; the next one executes the Stage anew.  Of the sessions   *)
(* only the saved one can still occur.                                       *)
Restart ==
  /\ pc \notin {"returned", "raised"} /\ restarts < MaxRestarts
  /\ restarts' = restarts + 1
  /\ pc' = "attempt" /\ loop' = FreshLoop /\ stage' = FreshStage
  /\ result' = NoResult /\ repairs' = 0
  /\ session' = saved /\ seen' = NoSession
  /\ hist' = [hist EXCEPT !.made = saved, !.rejected = {}, !.known = {},
                          !.dropped = @ \cap {saved}, !.failed = [s \in Session |-> 0]]
  /\ UNCHANGED <<limit, policy, saved, repeats>>

(* The engine executes the Stage again in the same worker: in the next cycle,  *)
(* or, of a Review that was skipped, for the next task.  Its client is as it   *)
(* was left, unless a Stage without sessions of its own gave up all of them    *)
(* (reset_sessions), or a shared client has been used or reset by others.      *)
AsOthersLeftIt ==
  \/ UNCHANGED <<session, seen, saved>>
  \/ session' = NoSession /\ seen' = NoSession /\ saved' = NoSession
  \/ /\ Shared
     /\ session' \in {session, NoSession} \cup New
     /\ seen' \in {seen, session'}
     /\ saved' \in IF Durable THEN {saved, session'} ELSE {saved}
Again ==
  /\ pc = "returned" /\ repeats < MaxRepeats
  /\ repeats' = repeats + 1
  /\ AsOthersLeftIt
  /\ pc' = "attempt" /\ loop' = FreshLoop
  /\ result' = NoResult /\ repairs' = 0
  /\ hist' = [hist EXCEPT
       !.made = Larger(@, session'),
       !.known = IF seen' = seen THEN @ ELSE @ \cup ({seen'} \ {NoSession}),
       !.dropped = @ \cup ({session} \ {session', saved', NoSession}),
       !.failed = [s \in Session |-> 0], !.rejected = {}, !.counted = <<>>,
       !.outcome = "error"]
  /\ UNCHANGED <<limit, policy, stage, restarts>>

Work == \/ StartAttempt \/ Call \/ Parse \/ Repair \/ Unparsed \/ CallFails \/ Collect \/ EndAttempt
        \/ Accept \/ GiveUp \/ RetryChangedFiles \/ Retry \/ Finish
Next == Work \/ Raise \/ Restart \/ Again
Spec == Init /\ [][Next]_vars
FairSpec == Spec /\ WF_vars(Work)

--------------------------------------------------------------------------
TypeOK ==
  /\ limit \in Limits /\ policy \in Policies
  /\ pc \in {"attempt", "voting", "parsing", "ran", "unhooked", "settle", "finish",
             "returned", "raised"}
  /\ loop \in [attempt : 0 .. MaxAttempts, used : Nat, failures : 0 .. PerSession - 1,
               mode : {"initial", "retry", "recover"}, delay : FirstDelay .. LastDelay,
               wait : FirstDelay .. LastDelay]
  /\ {session, seen, saved} \subseteq Sessions
  /\ stage \in [votes : Seq([pass : BOOLEAN, session : Sessions, attempt : Nat]),
                checkpoint : 0 .. Runs, pending : BOOLEAN]
  /\ Len(stage.votes) <= Runs
  /\ result \in [status : {"pass", "fail", "error"}, transient : BOOLEAN, changed : BOOLEAN]
  /\ repairs \in 0 .. Repairs /\ restarts \in 0 .. MaxRestarts
  /\ repeats \in 0 .. MaxRepeats

(* The votes that decide a Stage are Runs votes, from different sessions if the   *)
(* policy is fresh, none of an attempt that the hooks rejected for a violation,    *)
(* however many attempts they are spread over, and the verdict is what more than   *)
(* half of them say (base_stage.py:163-209, stage_executor.py:281).             *)
VotesIndependent ==
  policy = "fresh" =>
    \A i, j \in DOMAIN hist.counted :
      i # j => hist.counted[i].session # hist.counted[j].session
RejectedVotesDiscarded ==
  pc = "returned" =>
    \A i \in DOMAIN hist.counted : hist.counted[i].attempt \notin hist.rejected
VerdictIsMajority ==
  pc = "returned" /\ hist.outcome \in {"pass", "fail"} =>
    /\ Len(hist.counted) = Runs
    /\ (hist.outcome = "pass") =
         (2 * Cardinality({i \in DOMAIN hist.counted : hist.counted[i].pass}) > Runs)
VotesSound == VotesIndependent /\ RejectedVotesDiscarded /\ VerdictIsMajority

(* A session that was given up is never used again, in a later execution or by the *)
(* next worker; one execution fails at most PerSession attempts in a session ("One   *)
(* Same Session stays bounded", stage_executor.py:64; a session that is kept over    *)
(* executions may fail more often in all, for the count begins anew with each, :84); *)
(* and what leaves the Stage prompt out, the control envelope alone or a correction,  *)
(* is only sent to a session that has answered the whole prompt                    *)
(* (docs/design/PROMPT_SESSION.md:36, base_stage.py:279-294, 377, structured.py:112). *)
DroppedStaysDropped == {session, saved} \cap hist.dropped = {}
SessionBounded == \A s \in Session : hist.failed[s] <= PerSession
SessionsSound == TypeOK /\ DroppedStaysDropped /\ SessionBounded /\ ~hist.stray

(* The retry loop implements what the engine relies on: StageExecution. *)
Phase == CASE pc = "returned" -> "returned" [] pc = "raised" -> "raised"
           [] pc = "finish" -> (IF result.status = "error" THEN "failing" ELSE "reducing")
           [] OTHER -> "running"
Execution == INSTANCE StageExecution
  WITH phase <- Phase, outcome <- hist.outcome, spent <- loop.used
Implements == Execution!Spec

=============================================================================
