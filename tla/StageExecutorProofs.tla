-------------------------- MODULE StageExecutorProofs --------------------------
(* Theorems about StageExecutor: whatever the policies, budgets and numbers of *)
(* votes, and wherever the worker dies, the votes that decide a Stage and the   *)
(* sessions its calls use are sound, and the retry loop does what              *)
(* StageExecution promises the engine.                                        *)
EXTENDS StageExecutor, FiniteSetTheorems, TLAPS

Ballot == [pass : BOOLEAN, session : Sessions, attempt : Nat]
History ==
  [made : Sessions, known : SUBSET Session, stray : BOOLEAN, dropped : SUBSET Session,
   failed : [Session -> Nat], rejected : SUBSET Nat, counted : Seq(Ballot),
   outcome : {"pass", "fail", "error"}]
Typed == TypeOK /\ hist \in History

(* The budget is never overdrawn, nothing has been answered before the end, and  *)
(* no vote is left after it.                                                   *)
LoopInv ==
  /\ IF limit = Unlimited THEN loop.used = 0 ELSE loop.used <= limit
  /\ pc # "returned" => hist.outcome = "error" /\ hist.counted = <<>>
  /\ pc = "returned" => stage.votes = <<>>

(* Sessions are numbered as they are made: the next one has failed nothing and  *)
(* was never dropped.  A session is told everything before it is remembered.   *)
Attempting == {"attempt", "voting", "parsing", "ran", "unhooked"}
SessionInv ==
  /\ session <= hist.made /\ saved <= hist.made
  /\ \A s \in hist.dropped : s <= hist.made
  /\ {session, saved} \cap hist.dropped = {}
  /\ \A s \in Session : hist.failed[s] <= PerSession
  /\ \A s \in Session : s > hist.made => hist.failed[s] = 0
  /\ session # NoSession =>
       /\ pc \in Attempting => hist.failed[session] <= loop.failures
       /\ pc = "settle" => hist.failed[session] <= loop.failures + 1
  /\ ~hist.stray
  /\ seen # NoSession => seen \in hist.known
  /\ pc = "parsing" => session \in hist.known

(* A vote names the attempt it was cast in and a session that was made; the     *)
(* votes up to the checkpoint are older than the attempt.                      *)
BallotInv ==
  /\ \A i \in DOMAIN stage.votes :
       /\ stage.votes[i].attempt <= loop.attempt
       /\ stage.votes[i].session \in 1 .. hist.made
  /\ pc \in {"voting", "parsing", "ran"} =>
       /\ stage.checkpoint <= Len(stage.votes)
       /\ \A i \in 1 .. stage.checkpoint : stage.votes[i].attempt < loop.attempt
  /\ pc = "parsing" => Len(stage.votes) < Runs /\ stage.pending
  /\ hist.rejected = {}

(* A session that a call is waiting in has not voted yet. *)
Different(votes) == \A i, j \in DOMAIN votes : i # j => votes[i].session # votes[j].session
FreshInv ==
  policy = "fresh" =>
    /\ Different(stage.votes) /\ Different(hist.counted)
    /\ stage.pending /\ session # NoSession =>
         \A i \in DOMAIN stage.votes : stage.votes[i].session # session

(* A result that is no error is the verdict of all votes. *)
Majority(votes) ==
  2 * Cardinality({i \in DOMAIN votes : votes[i].pass}) > Runs
VerdictInv ==
  /\ pc = "unhooked" => result.status = "error"
  /\ pc \in {"ran", "settle", "finish"} /\ result.status # "error" =>
       Len(stage.votes) = Runs /\ (result.status = "pass") = Majority(stage.votes)
  /\ pc = "returned" /\ hist.outcome # "error" =>
       Len(hist.counted) = Runs /\ (hist.outcome = "pass") = Majority(hist.counted)

StageInv == Typed /\ LoopInv /\ SessionInv /\ BallotInv /\ FreshInv /\ VerdictInv

--------------------------------------------------------------------------
LEMMA Types ==
  ASSUME Typed
  PROVE  /\ {session, seen, saved, hist.made} \subseteq Sessions
         /\ loop.attempt \in Nat /\ loop.used \in Nat /\ loop.failures \in 0 .. 1
         /\ stage.votes \in Seq(Ballot) /\ stage.checkpoint \in Nat
         /\ FirstDelay \in Nat /\ LastDelay \in Nat /\ FirstDelay <= LastDelay
         /\ MaxSessions \in Nat /\ 1 \in Session /\ PerSession = 2
BY ParameterAssumption
   DEF Typed, TypeOK, History, Sessions, Session, NoSession, PerSession, FirstDelay, LastDelay,
       Larger, Ballot

LEMMA TypedInit == Init => Typed
<1> SUFFICES ASSUME Init PROVE Typed
  OBVIOUS
<1>1. FirstDelay \in Nat /\ LastDelay \in Nat /\ FirstDelay <= LastDelay
  BY ParameterAssumption DEF Init, FirstDelay, LastDelay, Larger
<1>2. {session, seen, saved} \subseteq Sessions
  BY ParameterAssumption DEF Init, Sessions, Session, NoSession
<1>3. TypeOK
  BY <1>1, <1>2, ParameterAssumption
     DEF Init, TypeOK, FreshLoop, FreshStage, NoResult, PerSession
<1>4. hist \in History
  BY <1>2, ParameterAssumption DEF Init, History, Session, NoSession, Sessions
<1> QED
  BY <1>3, <1>4 DEF Typed

(* The pieces a step changes, one at a time. *)
LEMMA RememberTyped ==
  ASSUME Typed, NEW s \in Sessions, Remember(s)
  PROVE  {seen', saved'} \subseteq Sessions
BY DEF Remember, Typed, TypeOK

LEMMA ResetTyped ==
  ASSUME Typed, ResetSession
  PROVE  {session', seen', saved'} \subseteq Sessions /\ hist' \in History
BY DEF ResetSession, Typed, TypeOK, History, Sessions, NoSession

LEMMA SentTyped ==
  ASSUME Typed, NEW s \in Sessions, NEW t \in Sessions
  PROVE  Sent(s, t) \in History
<1>1. Larger(hist.made, t) \in Sessions
  BY DEF Larger, Typed, History
<1>2. Short(s) \in BOOLEAN
  BY DEF Short, Delta
<1> QED
  BY <1>1, <1>2 DEF Sent, Typed, History

LEMMA AnsweredTyped ==
  ASSUME Typed, NEW t \in Sessions, Answered(ClientSession, t)
  PROVE  {session', seen', saved'} \subseteq Sessions /\ hist' \in History
<1>1. ClientSession \in Sessions
  BY DEF ClientSession, Typed, TypeOK, Sessions
<1>2. {session', seen', saved'} \subseteq Sessions
  BY RememberTyped DEF Answered
<1>3. Sent(ClientSession, t) \in History
  BY <1>1, SentTyped
<1>4. ClientSession # NoSession => t = ClientSession
  BY DEF Answered
<1>5. t \in Session
  BY <1>1, <1>4 DEF Answered, New, Sessions
<1> QED
  BY <1>2, <1>3, <1>5 DEF Answered, History

(* What the other Stages leave behind. *)
LEMMA AgainTyped ==
  ASSUME Typed, Again
  PROVE  {session', seen', saved'} \subseteq Sessions /\ hist' \in History
<1>1. {session, seen, saved, hist.made} \subseteq Sessions /\ NoSession \in Sessions
  BY Types DEF Sessions
<1>2. New \subseteq Sessions
  BY DEF New, Sessions
<1>3. {session', seen', saved'} \subseteq Sessions
  BY <1>1, <1>2 DEF Again, AsOthersLeftIt
<1>4. Larger(hist.made, session') \in Sessions
  BY <1>1, <1>3 DEF Larger
<1>5. {seen'} \ {NoSession} \subseteq Session /\ {session} \ {session', saved', NoSession} \subseteq Session
  BY <1>1, <1>3 DEF Sessions
<1> DEFINE known == IF seen' = seen THEN hist.known ELSE hist.known \cup ({seen'} \ {NoSession})
           dropped == hist.dropped \cup ({session} \ {session', saved', NoSession})
           made == Larger(hist.made, session')
<1>6. made \in Sessions /\ known \subseteq Session /\ dropped \subseteq Session
  BY <1>4, <1>5 DEF Typed, History
<1>7. hist' = [hist EXCEPT !.made = made, !.known = known, !.dropped = dropped,
                 !.failed = [s \in Session |-> 0], !.rejected = {}, !.counted = <<>>,
                 !.outcome = "error"]
  BY DEF Again
<1> HIDE DEF known, dropped, made
<1>8. <<>> \in Seq(Ballot) /\ [s \in Session |-> 0] \in [Session -> Nat] /\ hist \in History
  BY DEF Typed
<1>9. hist' \in History
  BY <1>6, <1>7, <1>8 DEF History
<1> QED
  BY <1>3, <1>9

Delays == FirstDelay .. LastDelay
LoopType ==
  [attempt : 0 .. MaxAttempts, used : Nat, failures : {0, 1},
   mode : {"initial", "retry", "recover"}, delay : Delays, wait : Delays]
ResultType == [status : {"pass", "fail", "error"}, transient : BOOLEAN, changed : BOOLEAN]
StageType == [votes : Seq(Ballot), checkpoint : 0 .. Runs, pending : BOOLEAN]

LEMMA RecordsTyped == Typed => loop \in LoopType /\ stage \in StageType
<1> SUFFICES ASSUME Typed PROVE loop \in LoopType /\ stage \in StageType
  OBVIOUS
<1>1. 0 .. PerSession - 1 = {0, 1}
  BY DEF PerSession
<1> QED
  BY <1>1 DEF Typed, TypeOK, LoopType, StageType, Delays, Ballot

LEMMA NextAttempt ==
  ASSUME loop \in LoopType, loop.attempt < MaxAttempts
  PROVE  [loop EXCEPT !.attempt = @ + 1] \in LoopType
<1>1. loop.attempt + 1 \in 0 .. MaxAttempts
  BY ParameterAssumption DEF LoopType
<1> QED
  BY <1>1 DEF LoopType

LEMMA LoopTyped ==
  ASSUME Typed, NEW mode \in {"initial", "retry", "recover"}, NEW f \in {0, 1},
         NEW d \in Delays, NEW w \in Delays
  PROVE  [loop EXCEPT !.used = Used, !.failures = f, !.mode = mode, !.delay = d, !.wait = w]
           \in LoopType
<1>1. Used \in Nat
  BY DEF Used, Typed, TypeOK
<1> QED
  BY <1>1, RecordsTyped DEF LoopType

LEMMA DelaysTyped ==
  ASSUME Typed
  PROVE  {FirstDelay, NextDelay, Wait} \subseteq Delays
<1>1. loop.delay \in FirstDelay .. LastDelay
  BY DEF Typed, TypeOK
<1> QED
  BY <1>1, Types DEF Delays, NextDelay, Wait, Smaller, Larger

(* What is typed of the state is typed of the next one if its parts are. *)
LEMMA TypedFromParts ==
  ASSUME UNCHANGED <<limit, policy>>, limit \in Limits, policy \in Policies,
         pc' \in {"attempt", "voting", "parsing", "ran", "unhooked", "settle", "finish",
                   "returned", "raised"},
         loop' \in LoopType, {session', seen', saved'} \subseteq Sessions,
         stage' \in StageType, Len(stage'.votes) <= Runs,
         result' \in ResultType,
         repairs' \in 0 .. Repairs, restarts' \in 0 .. MaxRestarts, repeats' \in 0 .. MaxRepeats,
         hist' \in History
  PROVE  Typed'
<1>1. 0 .. PerSession - 1 = {0, 1}
  BY DEF PerSession
<1>2. FirstDelay' = FirstDelay /\ LastDelay' = LastDelay
  BY DEF FirstDelay, LastDelay
<1>3. TypeOK'
  BY <1>1, <1>2 DEF TypeOK, LoopType, StageType, ResultType, Delays, Ballot
<1> QED
  BY <1>3 DEF Typed, History, Session, Sessions, Ballot

(* EndAttempt for given files and hooks. *)
Checked(files) ==
  CASE files = "none"      -> result
    [] files = "changed"   -> [result EXCEPT !.changed = TRUE]
    [] files = "malformed" -> [Error(FALSE) EXCEPT !.changed = TRUE]
Rejections(hook) ==
  {a \in hist.rejected \cup (IF hook = "violated" THEN {loop.attempt} ELSE {}) :
     \E i \in DOMAIN stage'.votes : stage'.votes[i].attempt = a}
Failures ==
  IF result'.status = "error" /\ session # NoSession
    THEN [hist.failed EXCEPT ![session] = @ + 1] ELSE hist.failed
EndWith(files, hook) ==
  /\ hook = "violated" => pc = "ran"
  /\ result' = CASE hook = "ok"       -> Checked(files)
                 [] hook = "raised"   -> IF Checked(files).status = "error" THEN Checked(files)
                                         ELSE Error(FALSE)
                 [] hook = "violated" -> Error(FALSE)
  /\ stage' = IF hook = "violated" THEN Discard(stage) ELSE stage
  /\ hist' = [hist EXCEPT !.rejected = Rejections(hook), !.failed = Failures]

(* The history after an attempt, field by field. *)
LEMMA EndHistory ==
  ASSUME hist \in History, NEW files, NEW hook, EndWith(files, hook)
  PROVE  /\ hist'.rejected = Rejections(hook) /\ hist'.failed = Failures
         /\ hist' = [hist EXCEPT !.rejected = hist'.rejected, !.failed = hist'.failed]
<1>1. hist' = [hist EXCEPT !.rejected = Rejections(hook), !.failed = Failures]
  BY DEF EndWith
<1> QED
  BY <1>1 DEF History

LEMMA EndAttemptWith ==
  EndAttempt =>
    \E files \in {"none", "changed", "malformed"}, hook \in {"ok", "raised", "violated"} :
      EndWith(files, hook)
BY Zenon DEF EndAttempt, EndWith, Checked, Rejections, Failures

LEMMA TypedStep == Typed /\ BallotInv /\ [Next]_vars => Typed'
<1> SUFFICES ASSUME Typed, BallotInv, [Next]_vars PROVE Typed'
  OBVIOUS
<1>0. /\ loop \in LoopType /\ stage \in StageType /\ hist \in History
      /\ limit \in Limits /\ policy \in Policies /\ {session, seen, saved} \subseteq Sessions
      /\ Len(stage.votes) <= Runs /\ repairs \in 0 .. Repairs /\ restarts \in 0 .. MaxRestarts
      /\ repeats \in 0 .. MaxRepeats /\ result \in ResultType
      /\ pc \in {"attempt", "voting", "parsing", "ran", "unhooked", "settle", "finish",
                 "returned", "raised"}
  BY RecordsTyped DEF Typed, TypeOK, ResultType
<1>1. CASE StartAttempt
  <2>1. loop' \in LoopType
    BY <1>0, <1>1, NextAttempt DEF StartAttempt
  <2>2. CASE result' = NoResult /\ stage' = [stage EXCEPT !.checkpoint = Len(stage.votes)]
    <3>1. Len(stage.votes) \in 0 .. Runs
      BY <1>0, ParameterAssumption DEF StageType
    <3>2. stage' \in StageType /\ stage'.votes = stage.votes
      BY <1>0, <2>2, <3>1 DEF StageType
    <3>3. result' \in ResultType
      BY <2>2 DEF NoResult, ResultType
    <3> QED
      BY <1>0, <1>1, <2>1, <3>2, <3>3, TypedFromParts DEF StartAttempt
  <2>3. CASE result' = Error(FALSE) /\ stage' = stage
    <3>1. result' \in ResultType
      BY <2>3 DEF Error, ResultType
    <3> QED
      BY <1>0, <1>1, <2>1, <2>3, <3>1, TypedFromParts DEF StartAttempt
  <2> QED
    BY <1>1, <2>2, <2>3 DEF StartAttempt
<1>2. CASE Call
  <2>1. PICK t \in Sessions : Answered(ClientSession, t)
    BY <1>2 DEF Call
  <2>3. {session', seen', saved'} \subseteq Sessions /\ hist' \in History
    BY <2>1, AnsweredTyped
  <2>5. stage' \in StageType /\ Len(stage'.votes) = Len(stage.votes)
    BY <1>0, <1>2 DEF Call, StageType
  <2>6. repairs' \in 0 .. Repairs
    BY <1>2, ParameterAssumption DEF Call
  <2> QED
    BY <1>0, <1>2, <2>3, <2>5, <2>6, TypedFromParts DEF Call
<1>3. CASE Parse
  <2>1. PICK v \in BOOLEAN :
          stage' = [stage EXCEPT !.votes = Append(@, Vote(v)), !.pending = FALSE]
    BY <1>3 DEF Parse
  <2>2. Vote(v) \in Ballot
    BY <1>0 DEF Vote, Ballot, LoopType
  <2>3. /\ Append(stage.votes, Vote(v)) \in Seq(Ballot)
        /\ Len(Append(stage.votes, Vote(v))) = Len(stage.votes) + 1
    BY <1>0, <2>2 DEF StageType
  <2>4. stage' \in StageType /\ stage'.votes = Append(stage.votes, Vote(v))
    <3> HIDE DEF Vote
    <3> QED
      BY <1>0, <2>1, <2>3 DEF StageType
  <2>5. Len(stage'.votes) <= Runs
    <3>1. Len(stage.votes) < Runs /\ Len(stage.votes) \in Nat /\ Runs \in Nat
      BY <1>0, <1>3, ParameterAssumption DEF Parse, BallotInv, StageType
    <3> QED
      BY <2>3, <2>4, <3>1
  <2> QED
    BY <1>0, <1>3, <2>4, <2>5, TypedFromParts, ParameterAssumption DEF Parse
<1>4. CASE Repair
  <2>1. PICK t \in Sessions : Answered(ClientSession, t)
    BY <1>4 DEF Repair
  <2>2. {session', seen', saved'} \subseteq Sessions /\ hist' \in History
    BY <2>1, AnsweredTyped
  <2>3. repairs' \in 0 .. Repairs
    BY <1>0, <1>4, ParameterAssumption DEF Repair
  <2> QED
    BY <1>0, <1>4, <2>2, <2>3, TypedFromParts DEF Repair
<1>14. CASE Unparsed
  <2>1. result' \in ResultType
    BY <1>14 DEF Unparsed, Error, ResultType
  <2> QED
    BY <1>0, <1>14, <2>1, TypedFromParts DEF Unparsed
<1>5. CASE CallFails
  <2> DEFINE s == ClientSession
  <2>1. PICK t \in IF s = NoSession THEN New \cup {NoSession} ELSE {s},
             invalid \in BOOLEAN, transient \in BOOLEAN :
               /\ session' = IF invalid THEN NoSession ELSE t
               /\ hist' = Sent(s, t)
               /\ result' = Error(transient)
    BY <1>5 DEF CallFails
  <2>2. s \in Sessions /\ t \in Sessions
    BY <1>0, <2>1 DEF ClientSession, New, Sessions
  <2>3. session' \in Sessions
    BY <2>1, <2>2 DEF Sessions
  <2>4. hist' \in History
    BY <2>1, <2>2, SentTyped
  <2>5. result' \in ResultType
    BY <2>1 DEF Error, ResultType
  <2>6. stage' \in StageType /\ stage'.votes = stage.votes
    BY <1>0, <1>5 DEF CallFails, StageType
  <2> QED
    BY <1>0, <1>5, <2>3, <2>4, <2>5, <2>6, TypedFromParts, ParameterAssumption DEF CallFails
<1>6. CASE Collect
  <2>1. result' \in ResultType
    BY <1>6 DEF Collect, NoResult, ResultType
  <2> QED
    BY <1>0, <1>6, <2>1, TypedFromParts DEF Collect
<1>7. CASE EndAttempt
  <2>1. PICK files \in {"none", "changed", "malformed"}, hook \in {"ok", "raised", "violated"} :
          EndWith(files, hook)
    BY <1>7, EndAttemptWith
  <2>2. result' \in ResultType
    <3>1. Checked(files) \in ResultType
      BY <1>0, <2>1 DEF Checked, Error, ResultType
    <3> QED
      BY <2>1, <3>1 DEF EndWith, Error, ResultType
  <2>3. stage' \in StageType /\ Len(stage'.votes) <= Runs
    <3>1. CASE hook # "violated"
      BY <1>0, <2>1, <3>1 DEF EndWith
    <3>2. CASE hook = "violated"
      <4>1. /\ SubSeq(stage.votes, 1, stage.checkpoint) \in Seq(Ballot)
            /\ Len(SubSeq(stage.votes, 1, stage.checkpoint)) = stage.checkpoint
        BY <1>0, <1>7, <2>1, <3>2, ParameterAssumption
           DEF EndWith, BallotInv, StageType
      <4>2. stage' = Discard(stage)
        BY <2>1, <3>2 DEF EndWith
      <4>3. stage' \in StageType /\ stage'.votes = SubSeq(stage.votes, 1, stage.checkpoint)
        BY <1>0, <4>1, <4>2 DEF Discard, StageType
      <4>4. stage.checkpoint <= Runs
        BY <1>0, ParameterAssumption DEF StageType
      <4> QED
        BY <4>1, <4>3, <4>4
    <3> QED
      BY <3>1, <3>2
  <2>4. hist' \in History
    <3>1. hist'.rejected \in SUBSET Nat
      <4>1. loop.attempt \in Nat
        BY <1>0, Types
      <4> QED
        BY <1>0, <2>1, <4>1, EndHistory DEF History, Rejections
    <3>2. hist'.failed \in [Session -> Nat]
      <4>1. /\ hist.failed \in [Session -> Nat]
            /\ session # NoSession => session \in Session
        BY <1>0 DEF History, Sessions
      <4>2. hist'.failed = IF result'.status = "error" /\ session # NoSession
                           THEN [hist.failed EXCEPT ![session] = @ + 1] ELSE hist.failed
        BY <1>0, <2>1, EndHistory DEF Failures
      <4> QED
        BY <4>1, <4>2
    <3> QED
      BY <1>0, <2>1, <3>1, <3>2, EndHistory DEF History
  <2> QED
    BY <1>0, <1>7, <2>2, <2>3, <2>4, TypedFromParts DEF EndAttempt
<1>8. CASE Accept \/ GiveUp \/ Raise
  BY <1>0, <1>8, TypedFromParts DEF Accept, GiveUp, Raise
<1>9. CASE RetryChangedFiles
  <2>1. loop' \in LoopType
    BY <1>9, LoopTyped, DelaysTyped DEF RetryChangedFiles
  <2>2. {session', seen', saved'} \subseteq Sessions /\ hist' \in History
    BY <1>9, ResetTyped DEF RetryChangedFiles
  <2> QED
    BY <1>0, <1>9, <2>1, <2>2, TypedFromParts DEF RetryChangedFiles
<1>10. CASE Retry
  <2>1. loop' \in LoopType
    <3>1. loop.failures \in {0, 1}
      BY <1>0 DEF LoopType
    <3>2. (IF Exhausted THEN 0 ELSE loop.failures + 1) \in {0, 1}
      BY <3>1 DEF Exhausted, PerSession
    <3>3. (IF ~Exhausted /\ session # NoSession THEN "retry" ELSE "recover")
            \in {"initial", "retry", "recover"}
      OBVIOUS
    <3> HIDE DEF NextDelay, Wait, Exhausted
    <3> QED
      BY <1>10, <3>2, <3>3, LoopTyped, DelaysTyped DEF Retry
  <2>2. {session', seen', saved'} \subseteq Sessions /\ hist' \in History
    BY <1>0, <1>10, ResetTyped DEF Retry
  <2> QED
    BY <1>0, <1>10, <2>1, <2>2, TypedFromParts DEF Retry
<1>11. CASE Finish
  <2>1. PICK reduced \in BOOLEAN :
          hist' = [hist EXCEPT !.counted = stage.votes,
                               !.outcome = IF reduced THEN result.status ELSE "error"]
    BY <1>11 DEF Finish
  <2>2. hist' \in History
    BY <1>0, <2>1 DEF History, StageType, ResultType
  <2>3. stage' \in StageType /\ Len(stage'.votes) <= Runs
    BY <1>11, ParameterAssumption DEF Finish, FreshStage, StageType
  <2> QED
    BY <1>0, <1>11, <2>2, <2>3, TypedFromParts DEF Finish
<1>12. CASE Restart
  <2>1. loop' \in LoopType
    BY <1>12, DelaysTyped, ParameterAssumption DEF Restart, FreshLoop, LoopType
  <2>2. stage' \in StageType /\ Len(stage'.votes) <= Runs
    BY <1>12, ParameterAssumption DEF Restart, FreshStage, StageType
  <2>3. hist' \in History
    BY <1>0, <1>12 DEF Restart, History
  <2>4. result' \in ResultType
    BY <1>12 DEF Restart, NoResult, ResultType
  <2>5. restarts' \in 0 .. MaxRestarts /\ repairs' \in 0 .. Repairs
    BY <1>0, <1>12, ParameterAssumption DEF Restart
  <2>6. {session', seen', saved'} \subseteq Sessions
    BY <1>0, <1>12 DEF Restart, Sessions
  <2> QED
    BY <1>0, <1>12, <2>1, <2>2, <2>3, <2>4, <2>5, <2>6, TypedFromParts DEF Restart
<1>15. CASE Again
  <2>1. loop' \in LoopType
    BY <1>15, DelaysTyped, ParameterAssumption DEF Again, FreshLoop, LoopType
  <2>2. {session', seen', saved'} \subseteq Sessions /\ hist' \in History
    BY <1>15, AgainTyped
  <2>3. result' \in ResultType
    BY <1>15 DEF Again, NoResult, ResultType
  <2>4. repeats' \in 0 .. MaxRepeats /\ repairs' \in 0 .. Repairs
    BY <1>0, <1>15, ParameterAssumption DEF Again
  <2> QED
    BY <1>0, <1>15, <2>1, <2>2, <2>3, <2>4, TypedFromParts DEF Again
<1>13. CASE UNCHANGED vars
  BY <1>0, <1>13, TypedFromParts DEF vars
<1> QED
  BY <1>1, <1>2, <1>3, <1>4, <1>5, <1>6, <1>7, <1>8, <1>9, <1>10, <1>11, <1>12, <1>13, <1>14, <1>15
     DEF Next, Work

--------------------------------------------------------------------------
(* What each kind of step writes into the history. *)
SameVerdict == hist'.counted = hist.counted /\ hist'.outcome = hist.outcome
SameFailures == hist'.dropped = hist.dropped /\ hist'.failed = hist.failed
                  /\ hist'.rejected = hist.rejected

LEMMA SentFields ==
  ASSUME Typed, NEW s, NEW t, hist' = Sent(s, t)
  PROVE  /\ hist'.made = Larger(hist.made, t) /\ hist'.known = hist.known
         /\ hist'.stray = (hist.stray \/ (Short(s) /\ s \notin hist.known))
         /\ SameVerdict /\ SameFailures
BY DEF Sent, Typed, History, SameVerdict, SameFailures

LEMMA AnsweredFields ==
  ASSUME Typed, NEW s, NEW t, Answered(s, t)
  PROVE  /\ hist'.made = Larger(hist.made, t)
         /\ hist'.known = IF Short(s) THEN hist.known ELSE hist.known \cup {t}
         /\ hist'.stray = (hist.stray \/ (Short(s) /\ s \notin hist.known))
         /\ SameVerdict /\ SameFailures
<1> DEFINE h == Sent(s, t)
<1>1. /\ h.made = Larger(hist.made, t) /\ h.known = hist.known
      /\ h.stray = (hist.stray \/ (Short(s) /\ s \notin hist.known))
      /\ h.counted = hist.counted /\ h.outcome = hist.outcome
      /\ h.dropped = hist.dropped /\ h.failed = hist.failed /\ h.rejected = hist.rejected
      /\ DOMAIN h = DOMAIN hist /\ h = [f \in DOMAIN hist |-> h[f]]
  BY DEF Sent, Typed, History
<1>2. hist' = [h EXCEPT !.known = IF Short(s) THEN @ ELSE @ \cup {t}]
  BY DEF Answered
<1> HIDE DEF h
<1> QED
  BY <1>1, <1>2 DEF Typed, History, SameVerdict, SameFailures

LEMMA ResetFields ==
  ASSUME Typed, ResetSession
  PROVE  /\ hist'.made = hist.made /\ hist'.known = hist.known /\ hist'.stray = hist.stray
         /\ hist'.dropped = hist.dropped \cup ({session} \ {NoSession})
         /\ hist'.failed = hist.failed /\ hist'.rejected = hist.rejected /\ SameVerdict
BY DEF ResetSession, Typed, History, SameVerdict

LEMMA EndFields ==
  ASSUME Typed, NEW files, NEW hook, EndWith(files, hook)
  PROVE  /\ hist'.made = hist.made /\ hist'.known = hist.known /\ hist'.stray = hist.stray
         /\ hist'.dropped = hist.dropped /\ SameVerdict
         /\ hist'.rejected = Rejections(hook) /\ hist'.failed = Failures
<1>1. /\ hist'.rejected = Rejections(hook) /\ hist'.failed = Failures
      /\ hist' = [hist EXCEPT !.rejected = hist'.rejected, !.failed = hist'.failed]
  BY EndHistory DEF Typed
<1> QED
  BY <1>1 DEF Typed, History, SameVerdict

LEMMA FinishFields ==
  ASSUME Typed, Finish
  PROVE  /\ hist'.made = hist.made /\ hist'.known = hist.known /\ hist'.stray = hist.stray
         /\ SameFailures /\ hist'.counted = stage.votes
         /\ hist'.outcome = result.status \/ hist'.outcome = "error"
BY DEF Finish, Typed, History, SameFailures

LEMMA RestartFields ==
  ASSUME Typed, Restart
  PROVE  /\ hist'.made = saved /\ hist'.known = {} /\ hist'.stray = hist.stray
         /\ hist'.dropped = hist.dropped \cap {saved} /\ hist'.rejected = {}
         /\ hist'.failed = [s \in Session |-> 0] /\ SameVerdict
BY DEF Restart, Typed, History, SameVerdict

LEMMA AgainFields ==
  ASSUME Typed, Again
  PROVE  /\ hist'.made = Larger(hist.made, session') /\ hist'.stray = hist.stray
         /\ hist'.known = IF seen' = seen THEN hist.known ELSE hist.known \cup ({seen'} \ {NoSession})
         /\ hist'.dropped = hist.dropped \cup ({session} \ {session', saved', NoSession})
         /\ hist'.rejected = {} /\ hist'.failed = [s \in Session |-> 0]
         /\ hist'.counted = <<>> /\ hist'.outcome = "error"
BY DEF Again, Typed, History

--------------------------------------------------------------------------
(* Actions that leave the history alone, and those that leave the loop alone. *)
Quiet == StartAttempt \/ Parse \/ Unparsed \/ Collect \/ Accept \/ GiveUp \/ Raise
Calling == Call \/ Repair \/ CallFails

LEMMA LoopStep == Typed /\ LoopInv /\ [Next]_vars => LoopInv'
<1> SUFFICES ASSUME Typed, LoopInv, [Next]_vars PROVE LoopInv'
  OBVIOUS
<1> DEFINE Within(n) == IF limit = Unlimited THEN n = 0 ELSE n <= limit
<1>0. /\ Within(loop.used) /\ limit' = limit /\ limit \in Nat \cup {Unlimited} /\ loop.used \in Nat
      /\ loop \in LoopType
  <2>1. limit' = limit
    BY DEF Next, Work, vars, StartAttempt, Call, Parse, Repair, Unparsed, CallFails, Collect,
           EndAttempt, Accept, GiveUp, RetryChangedFiles, Retry, Finish, Raise, Restart, Again
  <2> QED
    BY <2>1, Types, RecordsTyped, ParameterAssumption DEF LoopInv, Typed, TypeOK
<1>1. CASE Quiet
  <2>1. hist' = hist /\ loop'.used = loop.used /\ pc' # "returned" /\ pc # "returned"
    BY <1>0, <1>1
       DEF Quiet, StartAttempt, Parse, Unparsed, Collect, Accept, GiveUp, Raise, LoopType
  <2> QED
    BY <1>0, <2>1 DEF LoopInv
<1>2. CASE Calling
  <2>1. SameVerdict /\ loop' = loop /\ pc' # "returned" /\ pc # "returned"
    BY <1>2, SentFields, AnsweredFields DEF Calling, Call, Repair, CallFails
  <2> QED
    BY <1>0, <2>1 DEF LoopInv, SameVerdict
<1>3. CASE EndAttempt
  <2>1. SameVerdict /\ loop' = loop /\ pc' = "settle" /\ pc # "returned"
    BY <1>3, EndAttemptWith, EndFields DEF EndAttempt
  <2> QED
    BY <1>0, <2>1 DEF LoopInv, SameVerdict
<1>4. CASE RetryChangedFiles \/ Retry
  <2>1. SameVerdict /\ pc' = "attempt" /\ pc = "settle" /\ ~BudgetSpent /\ loop'.used = Used
    BY <1>0, <1>4, ResetFields DEF RetryChangedFiles, Retry, SameVerdict, LoopType
  <2>2. Within(Used)
    BY <1>0, <2>1 DEF BudgetSpent, Used
  <2> QED
    BY <1>0, <2>1, <2>2 DEF LoopInv, SameVerdict
<1>5. CASE Finish
  BY <1>0, <1>5 DEF Finish, FreshStage, LoopInv
<1>6. CASE Restart
  <2>1. SameVerdict /\ pc # "returned" /\ pc' = "attempt" /\ loop'.used = 0
    BY <1>6, RestartFields DEF Restart, FreshLoop
  <2> QED
    BY <1>0, <2>1 DEF LoopInv, SameVerdict, Unlimited
<1>8. CASE Again
  <2>1. pc' = "attempt" /\ loop'.used = 0 /\ hist'.outcome = "error" /\ hist'.counted = <<>>
    BY <1>8, AgainFields DEF Again, FreshLoop
  <2> QED
    BY <1>0, <2>1 DEF LoopInv, Unlimited
<1>7. CASE UNCHANGED vars
  BY <1>0, <1>7 DEF vars, LoopInv
<1> QED
  BY <1>1, <1>2, <1>3, <1>4, <1>5, <1>6, <1>7, <1>8 DEF Next, Work, Quiet, Calling

LEMMA VerdictStep == Typed /\ BallotInv /\ VerdictInv /\ [Next]_vars => VerdictInv'
<1> SUFFICES ASSUME Typed, BallotInv, VerdictInv, [Next]_vars PROVE VerdictInv'
  OBVIOUS
<1>1. CASE StartAttempt \/ Calling \/ Parse \/ Unparsed \/ RetryChangedFiles \/ Retry \/ Raise
  <2>1. pc' \notin {"settle", "finish", "returned"}
        /\ (pc' \in {"ran", "unhooked"} => result'.status = "error")
    <3>1. CASE StartAttempt
      BY <3>1 DEF StartAttempt, Error
    <3>2. CASE CallFails
      BY <3>2 DEF CallFails, Error
    <3>3. CASE Unparsed
      BY <3>3 DEF Unparsed, Error
    <3>4. CASE Repair
      BY <3>4 DEF Repair
    <3> QED
      BY <1>1, <3>1, <3>2, <3>3, <3>4 DEF Calling, Call, Parse, RetryChangedFiles, Retry, Raise
  <2> QED
    BY <2>1 DEF VerdictInv
<1>2. CASE Collect
  <2>1. stage' = stage /\ pc' = "ran" /\ Len(stage.votes) = Runs
        /\ result'.status = IF Passes >= Required THEN "pass" ELSE "fail"
    BY <1>2 DEF Collect, NoResult
  <2>2. DOMAIN stage.votes = 1 .. Len(stage.votes)
    BY Types
  <2>3. Passes \in Nat
    <3>1. IsFiniteSet({i \in 1 .. Len(stage.votes) : stage.votes[i].pass})
      <4>1. IsFiniteSet(1 .. Len(stage.votes))
        <5>1. 1 \in Int /\ Len(stage.votes) \in Int
          BY Types
        <5> QED
          BY <5>1, FS_Interval
      <4> QED
        BY <4>1, FS_Subset
    <3> QED
      BY <3>1, FS_CardinalityType DEF Passes
  <2>4. (Passes >= Required) = (2 * Passes > Runs)
    BY <2>3, ParameterAssumption DEF Required
  <2>5. (Passes >= Required) = Majority(stage.votes)
    BY <2>2, <2>4 DEF Majority, Passes
  <2>6. (result'.status = "pass") = Majority(stage'.votes)
    BY <2>1, <2>5
  <2> QED
    BY <2>1, <2>6 DEF VerdictInv
<1>3. CASE EndAttempt
  <2>1. PICK files \in {"none", "changed", "malformed"}, hook \in {"ok", "raised", "violated"} :
          EndWith(files, hook)
    BY <1>3, EndAttemptWith
  <2>2. pc' = "settle" /\ pc \in {"ran", "unhooked"}
    BY <1>3 DEF EndAttempt
  <2>3. ASSUME result'.status # "error"
        PROVE  stage' = stage /\ result'.status = result.status
    BY <2>1, <2>3 DEF EndWith, Checked, Error, Typed, TypeOK
  <2> QED
    BY <2>2, <2>3 DEF VerdictInv
<1>4. CASE Accept \/ GiveUp
  BY <1>4 DEF Accept, GiveUp, VerdictInv
<1>5. CASE Finish
  BY <1>5, FinishFields DEF Finish, VerdictInv
<1>6. CASE Restart \/ Again
  BY <1>6 DEF Restart, Again, VerdictInv
<1>7. CASE UNCHANGED vars
  BY <1>7 DEF vars, VerdictInv
<1> QED
  BY <1>1, <1>2, <1>3, <1>4, <1>5, <1>6, <1>7 DEF Next, Work, Calling

(* A call takes the session of the client, or one that is new. *)
LEMMA CallSession ==
  ASSUME Typed, SessionInv, NEW s \in Sessions, s = ClientSession, NEW t \in Sessions,
         IF s = NoSession THEN t \in New \cup {NoSession} ELSE t = s
  PROVE  /\ Larger(hist.made, t) \in Sessions /\ hist.made <= Larger(hist.made, t)
         /\ t <= Larger(hist.made, t)
         /\ t \notin hist.dropped
         /\ Larger(hist.made, t) = t \/ Larger(hist.made, t) = hist.made
         /\ t = session \/ t = NoSession \/ t = hist.made + 1
<1>1. s = NoSession \/ s = session
  BY DEF ClientSession
<1>2. t = session \/ t = NoSession \/ (t = hist.made + 1 /\ t \in Session)
  BY <1>1 DEF New
<1>3. hist.made \in Nat /\ t \in Nat /\ session \in Nat /\ hist.made \in Sessions
  BY Types DEF Sessions, Session, NoSession
<1>4. t \notin hist.dropped
  <2>1. CASE t = session
    BY <2>1 DEF SessionInv
  <2>2. CASE t = NoSession
    BY <2>2 DEF Typed, History, NoSession, Session
  <2>3. CASE t = hist.made + 1
    BY <1>3, <2>3 DEF SessionInv
  <2> QED
    BY <1>2, <2>1, <2>2, <2>3
<1> QED
  BY <1>2, <1>3, <1>4 DEF Larger

LEMMA SessionStep == Typed /\ SessionInv /\ BallotInv /\ [Next]_vars => SessionInv'
<1> SUFFICES ASSUME Typed, SessionInv, BallotInv, [Next]_vars PROVE SessionInv'
  OBVIOUS
<1>0. /\ hist.made \in Nat /\ session \in Nat /\ saved \in Nat /\ session \in Sessions
      /\ hist.failed \in [Session -> Nat] /\ hist.dropped \subseteq Session
      /\ \A s \in Session : s \in Nat /\ s # NoSession
      /\ loop.failures \in 0 .. 1 /\ loop \in LoopType
      /\ 0 \notin hist.dropped /\ NoSession = 0 /\ PerSession = 2
  <2>1. loop \in LoopType /\ loop.failures \in 0 .. 1
    BY RecordsTyped, Types
  <2>2. hist.failed \in [Session -> Nat] /\ hist.dropped \subseteq Session
    BY DEF Typed, History
  <2>3. \A s \in Session : s \in Nat /\ s # NoSession
    BY Types DEF Session, NoSession
  <2>4. {hist.made, session, saved} \subseteq Sessions
    BY Types
  <2> QED
    BY <2>1, <2>2, <2>3, <2>4 DEF Sessions, NoSession, PerSession
<1>1. CASE StartAttempt \/ Parse \/ Unparsed \/ Collect \/ Accept \/ GiveUp \/ Raise
  <2>1. /\ UNCHANGED <<hist, session, saved, seen>> /\ loop'.failures = loop.failures
        /\ pc' \in Attempting => pc \in Attempting
        /\ pc' \notin {"settle", "parsing"}
    BY <1>0, <1>1 DEF StartAttempt, Parse, Unparsed, Collect, Accept, GiveUp, Raise, Attempting, LoopType
  <2> QED
    BY <2>1 DEF SessionInv
<1>2. CASE Repair
  <2>1. PICK t \in Sessions : Answered(ClientSession, t)
    BY <1>2 DEF Repair
  <2>2. pc = "parsing" /\ pc' = "parsing" /\ loop' = loop
    BY <1>2 DEF Repair
  <2>3. session \in hist.known /\ session \in Session /\ ClientSession = session
    BY <2>2 DEF SessionInv, BallotInv, ClientSession, Typed, History
  <2>4. t = session /\ session' = session /\ seen' = session /\ saved' \in {saved, session}
    BY <1>0, <2>1, <2>3 DEF Answered, Remember
  <2>5. /\ hist'.made = Larger(hist.made, session) /\ hist'.known = hist.known
        /\ ~hist'.stray /\ SameFailures
    <3>1. Answered(session, session) /\ Short(session)
      BY <2>1, <2>2, <2>3, <2>4 DEF Short
    <3>2. /\ hist'.made = Larger(hist.made, session)
          /\ hist'.known = IF Short(session) THEN hist.known ELSE hist.known \cup {session}
          /\ hist'.stray = (hist.stray \/ (Short(session) /\ session \notin hist.known))
          /\ SameFailures
      BY <3>1, AnsweredFields
    <3> QED
      BY <2>3, <3>1, <3>2 DEF SessionInv
  <2>6. hist'.made = hist.made
    BY <1>0, <2>5 DEF SessionInv, Larger
  <2> QED
    BY <2>2, <2>3, <2>4, <2>5, <2>6 DEF SessionInv, SameFailures, Attempting
<1>3. CASE Call
  <2>1. PICK t \in Sessions : Answered(ClientSession, t)
    BY <1>3 DEF Call
  <2> DEFINE s == ClientSession
  <2>2. s \in Sessions /\ (s = NoSession \/ s = session)
    BY <1>0 DEF ClientSession, Sessions
  <2>3. IF s = NoSession THEN t \in New \cup {NoSession} ELSE t = s
    BY <2>1 DEF Answered
  <2>4. t \in Session /\ t # NoSession
    BY <1>0, <2>1, <2>2 DEF Answered, New, Sessions
  <2>5. /\ hist'.made = Larger(hist.made, t)
        /\ hist'.known = IF Short(s) THEN hist.known ELSE hist.known \cup {t}
        /\ hist'.stray = (hist.stray \/ (Short(s) /\ s \notin hist.known))
        /\ SameFailures
    BY <2>1, AnsweredFields
  <2>6. /\ Larger(hist.made, t) \in Nat /\ hist.made <= Larger(hist.made, t)
        /\ t <= Larger(hist.made, t) /\ t \notin hist.dropped
        /\ t = session \/ t = hist.made + 1
    BY <2>2, <2>3, <2>4, CallSession, <1>0 DEF Sessions, Session
  <2>7. Short(s) => s \in hist.known /\ t = s
    BY <1>3, <2>1 DEF Call, Short, Delta, PromptSeen, SessionInv, Answered
  <2>8. /\ session' = t /\ seen' = t /\ saved' \in {saved, t}
        /\ pc' = "parsing" /\ pc = "voting" /\ loop' = loop
    BY <1>3, <2>1, <2>4 DEF Call, Answered, Remember
  <2>9. hist.failed[t] <= loop.failures
    <3>1. CASE t = session
      BY <2>4, <2>8, <3>1 DEF SessionInv, Attempting
    <3>2. CASE t = hist.made + 1
      BY <1>0, <2>4, <3>2 DEF SessionInv
    <3> QED
      BY <2>6, <3>1, <3>2
  <2>10. \A x \in Session : x > hist'.made => hist'.failed[x] = 0
    BY <1>0, <2>5, <2>6 DEF SessionInv, SameFailures
  <2>11. \A x \in hist'.dropped : x <= hist'.made
    BY <1>0, <2>5, <2>6 DEF SessionInv, SameFailures
  <2>12. saved' <= hist'.made /\ session' <= hist'.made
    BY <1>0, <2>5, <2>6, <2>8 DEF SessionInv
  <2>13. {session', saved'} \cap hist'.dropped = {}
    BY <2>5, <2>6, <2>8 DEF SessionInv, SameFailures
  <2>14. ~hist'.stray /\ t \in hist'.known
    BY <2>5, <2>7 DEF SessionInv
  <2> QED
    BY <2>5, <2>8, <2>9, <2>10, <2>11, <2>12, <2>13, <2>14 DEF SessionInv, SameFailures, Attempting
<1>4. CASE CallFails
  <2> DEFINE s == ClientSession
  <2>1. PICK t \in IF s = NoSession THEN New \cup {NoSession} ELSE {s},
             invalid \in BOOLEAN, transient \in BOOLEAN :
               /\ session' = IF invalid THEN NoSession ELSE t
               /\ hist' = Sent(s, t)
               /\ result' = Error(transient)
    BY <1>4 DEF CallFails
  <2>2. s \in Sessions /\ (s = NoSession \/ s = session)
    BY <1>0 DEF ClientSession, Sessions
  <2>3. t \in Sessions /\ IF s = NoSession THEN t \in New \cup {NoSession} ELSE t = s
    BY <2>1, <2>2 DEF New, Sessions
  <2>5. /\ hist'.made = Larger(hist.made, t) /\ hist'.known = hist.known
        /\ hist'.stray = (hist.stray \/ (Short(s) /\ s \notin hist.known))
        /\ SameFailures
    BY <2>1, SentFields
  <2>6. /\ Larger(hist.made, t) \in Nat /\ hist.made <= Larger(hist.made, t)
        /\ t <= Larger(hist.made, t) /\ t \notin hist.dropped
        /\ t = session \/ t = NoSession \/ t = hist.made + 1
    BY <2>2, <2>3, CallSession, <1>0 DEF Sessions, Session
  <2>7. Short(s) => s \in hist.known
    BY DEF Short, Delta, PromptSeen, SessionInv, BallotInv, ClientSession
  <2>8. /\ session' \in {t, NoSession} /\ seen' = seen /\ saved' = saved
        /\ pc' = "ran" /\ pc \in {"voting", "parsing"} /\ loop' = loop
    BY <1>4, <2>1 DEF CallFails
  <2>9. session' # NoSession => hist.failed[session'] <= loop.failures
    <3> SUFFICES ASSUME session' # NoSession PROVE hist.failed[session'] <= loop.failures
      OBVIOUS
    <3>0. session' = t /\ t \in Session
      BY <2>3, <2>8 DEF Sessions
    <3>1. CASE t = session
      BY <2>8, <3>0, <3>1 DEF SessionInv, Attempting
    <3>2. CASE t = hist.made + 1
      BY <1>0, <3>0, <3>2 DEF SessionInv
    <3> QED
      BY <2>6, <3>0, <3>1, <3>2
  <2>10. \A x \in Session : x > hist'.made => hist'.failed[x] = 0
    BY <1>0, <2>5, <2>6 DEF SessionInv, SameFailures
  <2>11. \A x \in hist'.dropped : x <= hist'.made
    BY <1>0, <2>5, <2>6 DEF SessionInv, SameFailures
  <2>12. saved' <= hist'.made /\ session' <= hist'.made
    BY <1>0, <2>5, <2>6, <2>8 DEF SessionInv
  <2>13. {session', saved'} \cap hist'.dropped = {}
    BY <1>0, <2>5, <2>6, <2>8 DEF SessionInv, SameFailures
  <2>14. ~hist'.stray
    BY <2>5, <2>7 DEF SessionInv
  <2> QED
    BY <2>5, <2>8, <2>9, <2>10, <2>11, <2>12, <2>13, <2>14 DEF SessionInv, SameFailures, Attempting
<1>5. CASE EndAttempt
  <2>1. PICK files \in {"none", "changed", "malformed"}, hook \in {"ok", "raised", "violated"} :
          EndWith(files, hook)
    BY <1>5, EndAttemptWith
  <2>2. /\ hist'.made = hist.made /\ hist'.known = hist.known /\ hist'.stray = hist.stray
        /\ hist'.dropped = hist.dropped /\ hist'.failed = Failures
    BY <2>1, EndFields
  <2>3. /\ UNCHANGED <<session, seen, saved, loop>>
        /\ pc' = "settle" /\ pc \in Attempting
    BY <1>5 DEF EndAttempt, Attempting
  <2>4. session # NoSession => session \in Session /\ hist.failed[session] <= loop.failures
    BY <1>0, <2>3 DEF SessionInv, Sessions
  <2>5. \A x \in Session : /\ Failures[x] \in Nat
                           /\ x # session => Failures[x] = hist.failed[x]
                           /\ x = session => Failures[x] <= hist.failed[x] + 1
    BY <1>0, <2>4 DEF Failures
  <2>6. \A x \in Session : Failures[x] <= PerSession
    BY <1>0, <2>4, <2>5 DEF SessionInv
  <2>7. \A x \in Session : x > hist.made => Failures[x] = 0
    BY <1>0, <2>5 DEF SessionInv
  <2>8. session # NoSession => Failures[session] <= loop.failures + 1
    BY <1>0, <2>4, <2>5
  <2> HIDE DEF Failures
  <2> QED
    BY <2>2, <2>3, <2>6, <2>7, <2>8 DEF SessionInv, Attempting
<1>6. CASE RetryChangedFiles \/ (Retry /\ ResetSession)
  <2>1. ResetSession /\ pc' = "attempt"
    BY <1>6 DEF RetryChangedFiles, Retry
  <2>2. /\ hist'.made = hist.made /\ hist'.known = hist.known /\ hist'.stray = hist.stray
        /\ hist'.dropped = hist.dropped \cup ({session} \ {NoSession})
        /\ hist'.failed = hist.failed
    BY <2>1, ResetFields
  <2>3. session' = NoSession /\ saved' = NoSession /\ seen' \in {seen, NoSession}
    BY <2>1 DEF ResetSession
  <2>4. \A x \in hist'.dropped : x <= hist'.made /\ x # NoSession
    BY <1>0, <2>2 DEF SessionInv
  <2> QED
    BY <1>0, <2>1, <2>2, <2>3, <2>4 DEF SessionInv
<1>7. CASE Retry /\ ~Exhausted
  <2>1. /\ UNCHANGED <<session, seen, saved, hist>> /\ loop'.failures = loop.failures + 1
        /\ pc' = "attempt" /\ pc = "settle"
    BY <1>0, <1>7 DEF Retry, LoopType
  <2> QED
    BY <2>1 DEF SessionInv
<1>8. CASE Finish
  <2>1. /\ hist'.made = hist.made /\ hist'.known = hist.known /\ hist'.stray = hist.stray
        /\ SameFailures
    BY <1>8, FinishFields
  <2>2. UNCHANGED <<session, seen, saved>> /\ pc' = "returned"
    BY <1>8 DEF Finish
  <2> QED
    BY <2>1, <2>2 DEF SessionInv, SameFailures, Attempting
<1>9. CASE Restart
  <2>1. /\ hist'.made = saved /\ hist'.known = {} /\ hist'.stray = hist.stray
        /\ hist'.dropped = hist.dropped \cap {saved}
        /\ hist'.failed = [s \in Session |-> 0]
    BY <1>9, RestartFields
  <2>2. /\ session' = saved /\ saved' = saved /\ seen' = NoSession /\ pc' = "attempt"
        /\ loop'.failures = 0
    BY <1>9 DEF Restart, FreshLoop
  <2>3. hist'.dropped = {}
    BY <2>1 DEF SessionInv
  <2>4. session' # NoSession => session' \in Session
    BY <2>2, Types DEF Sessions
  <2>5. \A s \in Session : hist'.failed[s] = 0
    BY <2>1
  <2> QED
    BY <1>0, <2>1, <2>2, <2>3, <2>4, <2>5 DEF SessionInv
<1>12. CASE Again
  <2>1. /\ hist'.made = Larger(hist.made, session') /\ hist'.stray = hist.stray
        /\ hist'.known = IF seen' = seen THEN hist.known ELSE hist.known \cup ({seen'} \ {NoSession})
        /\ hist'.dropped = hist.dropped \cup ({session} \ {session', saved', NoSession})
        /\ \A s \in Session : hist'.failed[s] = 0
    BY <1>12, AgainFields
  <2>2. pc' = "attempt" /\ loop'.failures = 0
    BY <1>12 DEF Again, FreshLoop
  <2>3. session' = session \/ session' = NoSession \/ session' = hist.made + 1
    BY <1>12 DEF Again, AsOthersLeftIt, New
  <2>4. saved' = saved \/ saved' = session' \/ saved' = NoSession
    BY <1>12 DEF Again, AsOthersLeftIt
  <2>5. hist'.made \in Nat /\ hist.made <= hist'.made /\ session' <= hist'.made
    BY <1>0, <2>1, <2>3 DEF Larger
  <2>6. \A s \in hist.dropped : s \in Nat /\ s <= hist.made /\ s # NoSession
    BY <1>0 DEF SessionInv
  <2>7. session' \notin hist.dropped /\ saved' \notin hist.dropped
    <3>1. hist.made + 1 \notin hist.dropped
      BY <1>0, <2>6
    <3> QED
      BY <1>0, <2>3, <2>4, <3>1 DEF SessionInv
  <2>8. {session', saved'} \cap hist'.dropped = {}
    BY <2>1, <2>7
  <2>9. \A s \in hist'.dropped : s <= hist'.made
    BY <1>0, <2>1, <2>5, <2>6 DEF SessionInv
  <2>10. saved' <= hist'.made
    BY <1>0, <2>4, <2>5 DEF SessionInv
  <2>11. session' # NoSession => session' \in Session
    BY <1>12, AgainTyped DEF Sessions
  <2>12. seen' # NoSession => seen' \in hist'.known
    BY <2>1 DEF SessionInv
  <2> QED
    BY <1>0, <2>1, <2>2, <2>5, <2>8, <2>9, <2>10, <2>11, <2>12 DEF SessionInv
<1>10. CASE UNCHANGED vars
  BY <1>10 DEF vars, SessionInv
<1>11. Retry => (Retry /\ ResetSession) \/ (Retry /\ ~Exhausted)
  BY DEF Retry
<1> QED
  BY <1>1, <1>2, <1>3, <1>4, <1>5, <1>6, <1>7, <1>8, <1>9, <1>10, <1>11, <1>12
     DEF Next, Work

(* The votes that the checkpoint keeps. *)
LEMMA DiscardKeeps ==
  ASSUME stage \in StageType, stage.checkpoint <= Len(stage.votes)
  PROVE  /\ Len(Discard(stage).votes) = stage.checkpoint
         /\ Discard(stage).votes \in Seq(Ballot) /\ ~Discard(stage).pending
         /\ \A i \in DOMAIN Discard(stage).votes :
              i \in 1 .. stage.checkpoint /\ i \in DOMAIN stage.votes
                /\ Discard(stage).votes[i] = stage.votes[i]
<1>1. /\ stage.votes \in Seq(Ballot) /\ stage.checkpoint \in Nat
      /\ Len(stage.votes) \in Nat
  BY ParameterAssumption DEF StageType
<1> DEFINE kept == SubSeq(stage.votes, 1, stage.checkpoint)
<1>2. /\ kept \in Seq(Ballot) /\ Len(kept) = stage.checkpoint
      /\ \A i \in 1 .. stage.checkpoint : kept[i] = stage.votes[i]
  BY <1>1
<1>3. Discard(stage).votes = kept /\ ~Discard(stage).pending
  BY DEF Discard, StageType
<1> HIDE DEF kept
<1> QED
  BY <1>1, <1>2, <1>3

LEMMA BallotStep == Typed /\ LoopInv /\ SessionInv /\ BallotInv /\ [Next]_vars => BallotInv'
<1> SUFFICES ASSUME Typed, LoopInv, SessionInv, BallotInv, [Next]_vars PROVE BallotInv'
  OBVIOUS
<1>0. /\ stage \in StageType /\ loop \in LoopType /\ loop.attempt \in Nat
      /\ hist.made \in Nat /\ hist.known \subseteq Session
      /\ stage.votes \in Seq(Ballot) /\ Len(stage.votes) \in Nat /\ stage.checkpoint \in Nat
      /\ \A i \in DOMAIN stage.votes : stage.votes[i].attempt \in Nat
      /\ \A s \in Session : s \in Nat /\ s >= 1
  <2>1. stage \in StageType /\ loop \in LoopType
    BY RecordsTyped
  <2>2. hist.known \subseteq Session
    BY DEF Typed, History
  <2>3. hist.made \in Nat /\ \A s \in Session : s \in Nat /\ s >= 1
    BY Types DEF Sessions, Session, NoSession
  <2>4. loop.attempt \in Nat /\ stage.votes \in Seq(Ballot) /\ stage.checkpoint \in Nat
    BY Types
  <2>5. \A i \in DOMAIN stage.votes : stage.votes[i].attempt \in Nat
    <3>1. \A i \in DOMAIN stage.votes : stage.votes[i] \in Ballot
      BY <2>4
    <3> QED
      BY <3>1 DEF Ballot
  <2> QED
    BY <2>1, <2>2, <2>3, <2>4, <2>5
<1>1. CASE StartAttempt
  <2>1. loop'.attempt = loop.attempt + 1 /\ hist' = hist
    BY <1>0, <1>1 DEF StartAttempt, LoopType
  <2>2. stage'.votes = stage.votes /\ pc' \notin {"parsing", "ran"}
    BY <1>0, <1>1 DEF StartAttempt, StageType
  <2>3. pc' = "voting" => stage'.checkpoint = Len(stage.votes)
    BY <1>0, <1>1 DEF StartAttempt, StageType
  <2>4. \A i \in DOMAIN stage.votes : stage.votes[i].attempt <= loop.attempt
    BY DEF BallotInv
  <2>5. \A i \in DOMAIN stage.votes : stage.votes[i].attempt < loop.attempt + 1
    BY <1>0, <2>4
  <2>6. DOMAIN stage.votes = 1 .. Len(stage.votes)
    BY <1>0
  <2> QED
    BY <1>0, <2>1, <2>2, <2>3, <2>5, <2>6 DEF BallotInv
<1>2. CASE Calling
  <2>1. /\ stage'.votes = stage.votes /\ stage'.checkpoint = stage.checkpoint /\ stage'.pending
        /\ loop' = loop /\ pc \in {"voting", "parsing"} /\ pc' \in {"parsing", "ran"}
        /\ Len(stage.votes) < Runs
    BY <1>0, <1>2 DEF Calling, Call, Repair, CallFails, StageType, BallotInv
  <2>2. hist'.rejected = hist.rejected /\ \E t \in Sessions : hist'.made = Larger(hist.made, t)
    <3>1. CASE Call \/ Repair
      BY <3>1, AnsweredFields DEF Call, Repair, SameFailures
    <3>2. CASE CallFails
      <4>1. PICK t \in IF ClientSession = NoSession THEN New \cup {NoSession} ELSE {ClientSession} :
              hist' = Sent(ClientSession, t)
        BY <3>2 DEF CallFails
      <4>2. t \in Sessions
        BY <4>1, Types DEF New, Sessions, ClientSession
      <4> QED
        BY <4>1, <4>2, SentFields DEF SameFailures
    <3> QED
      BY <1>2, <3>1, <3>2 DEF Calling
  <2>3. hist'.made \in Nat /\ hist.made <= hist'.made
    BY <1>0, <2>2 DEF Larger, Sessions, NoSession
  <2> QED
    BY <1>0, <2>1, <2>2, <2>3 DEF BallotInv
<1>3. CASE Parse
  <2>1. PICK v \in BOOLEAN :
          stage' = [stage EXCEPT !.votes = Append(@, Vote(v)), !.pending = FALSE]
    BY <1>3 DEF Parse
  <2>2. stage'.votes = Append(stage.votes, Vote(v)) /\ stage'.checkpoint = stage.checkpoint
    <3> HIDE DEF Vote
    <3> QED
      BY <1>0, <2>1 DEF StageType
  <2>3. UNCHANGED <<hist, loop>> /\ pc = "parsing" /\ pc' = "voting"
    BY <1>3 DEF Parse
  <2>4. session \in 1 .. hist.made
    BY <1>0, <2>3 DEF SessionInv
  <2>5. Vote(v).attempt = loop.attempt /\ Vote(v).session = session
    BY DEF Vote
  <2>6. /\ Len(stage'.votes) = Len(stage.votes) + 1
        /\ DOMAIN stage'.votes = 1 .. Len(stage.votes) + 1
        /\ DOMAIN stage.votes = 1 .. Len(stage.votes)
        /\ \A i \in DOMAIN stage.votes : stage'.votes[i] = stage.votes[i]
        /\ stage'.votes[Len(stage.votes) + 1] = Vote(v)
    BY <1>0, <2>2
  <2>7. \A i \in DOMAIN stage'.votes : i \in DOMAIN stage.votes \/ i = Len(stage.votes) + 1
    BY <1>0, <2>6
  <2>8. \A i \in DOMAIN stage'.votes :
          stage'.votes[i].attempt <= loop.attempt /\ stage'.votes[i].session \in 1 .. hist.made
    <3> SUFFICES ASSUME NEW i \in DOMAIN stage'.votes
                 PROVE  stage'.votes[i].attempt <= loop.attempt /\ stage'.votes[i].session \in 1 .. hist.made
      OBVIOUS
    <3>1. CASE i \in DOMAIN stage.votes
      BY <2>6, <3>1 DEF BallotInv
    <3>2. CASE i = Len(stage.votes) + 1
      <4> HIDE DEF Vote
      <4> QED
        BY <1>0, <2>4, <2>5, <2>6, <3>2
    <3> QED
      BY <2>7, <3>1, <3>2
  <2>9. /\ stage.checkpoint <= Len(stage.votes)
        /\ \A i \in 1 .. stage.checkpoint : i \in DOMAIN stage.votes /\ stage.votes[i].attempt < loop.attempt
    BY <1>0, <2>3, <2>6 DEF BallotInv
  <2> QED
    BY <1>0, <2>2, <2>3, <2>6, <2>8, <2>9 DEF BallotInv
<1>4. CASE Unparsed
  <2>1. UNCHANGED <<hist, loop, stage>> /\ pc = "parsing" /\ pc' = "ran"
    BY <1>4 DEF Unparsed
  <2> QED
    BY <2>1 DEF BallotInv
<1>5. CASE Collect \/ Accept \/ GiveUp \/ Raise
  <2>1. /\ UNCHANGED <<hist, loop, stage>> /\ pc' \notin {"voting", "parsing"}
        /\ pc' = "ran" => pc = "voting"
    BY <1>5 DEF Collect, Accept, GiveUp, Raise
  <2> QED
    BY <2>1 DEF BallotInv
<1>6. CASE EndAttempt
  <2>1. PICK files \in {"none", "changed", "malformed"}, hook \in {"ok", "raised", "violated"} :
          EndWith(files, hook)
    BY <1>6, EndAttemptWith
  <2>2. hist'.made = hist.made /\ hist'.rejected = Rejections(hook)
    BY <2>1, EndFields
  <2>3. loop' = loop /\ pc' = "settle"
    BY <1>6 DEF EndAttempt
  <2>4. CASE hook # "violated"
    <3>1. stage' = stage
      BY <2>1, <2>4 DEF EndWith
    <3>2. Rejections(hook) = {}
      BY <2>4 DEF Rejections, BallotInv
    <3> QED
      BY <2>2, <2>3, <3>1, <3>2 DEF BallotInv
  <2>5. CASE hook = "violated"
    <3>1. pc = "ran" /\ stage' = Discard(stage)
      BY <2>1, <2>5 DEF EndWith
    <3>2. \A i \in DOMAIN stage'.votes :
            i \in 1 .. stage.checkpoint /\ i \in DOMAIN stage.votes
              /\ stage'.votes[i] = stage.votes[i]
      BY <1>0, <3>1, DiscardKeeps DEF BallotInv
    <3>3. \A i \in DOMAIN stage'.votes : stage'.votes[i].attempt < loop.attempt
      BY <3>1, <3>2 DEF BallotInv
    <3>4. Rejections(hook) = {}
      <4>1. \A i \in DOMAIN stage'.votes : stage'.votes[i].attempt # loop.attempt
        BY <1>0, <3>2, <3>3
      <4> QED
        BY <4>1 DEF Rejections, BallotInv
    <3> QED
      BY <2>2, <2>3, <3>2, <3>4 DEF BallotInv
  <2> QED
    BY <2>4, <2>5
<1>7. CASE RetryChangedFiles \/ Retry
  <2>1. hist'.made = hist.made /\ hist'.rejected = hist.rejected
    BY <1>7, ResetFields DEF RetryChangedFiles, Retry
  <2>2. stage' = stage /\ loop'.attempt = loop.attempt /\ pc' = "attempt"
    BY <1>0, <1>7 DEF RetryChangedFiles, Retry, LoopType
  <2> QED
    BY <2>1, <2>2 DEF BallotInv
<1>8. CASE Finish \/ Restart
  <2>1. stage'.votes = <<>> /\ pc' \in {"returned", "attempt"}
    <3>1. stage' = FreshStage /\ pc' \in {"returned", "attempt"}
      BY <1>8 DEF Finish, Restart
    <3> QED
      BY <3>1 DEF FreshStage
  <2>2. hist'.rejected = {}
    BY <1>8, FinishFields, RestartFields DEF BallotInv, SameFailures
  <2> QED
    BY <2>1, <2>2 DEF BallotInv
<1>10. CASE Again
  <2>1. stage' = stage /\ stage.votes = <<>> /\ pc' = "attempt"
    BY <1>10 DEF Again, LoopInv
  <2>2. hist'.rejected = {}
    BY <1>10, AgainFields
  <2> QED
    BY <2>1, <2>2 DEF BallotInv
<1>9. CASE UNCHANGED vars
  BY <1>9 DEF vars, BallotInv
<1> QED
  BY <1>1, <1>2, <1>3, <1>4, <1>5, <1>6, <1>7, <1>8, <1>9, <1>10 DEF Next, Work, Calling

LEMMA FreshStep ==
  Typed /\ SessionInv /\ BallotInv /\ FreshInv /\ LoopInv /\ [Next]_vars => FreshInv'
<1> SUFFICES ASSUME Typed, SessionInv, BallotInv, FreshInv, LoopInv, [Next]_vars, policy' = "fresh"
             PROVE  FreshInv'
  BY DEF FreshInv
<1>0. /\ stage \in StageType /\ policy = "fresh"
      /\ stage.votes \in Seq(Ballot) /\ Len(stage.votes) \in Nat
      /\ hist.made \in Nat /\ hist.known \subseteq Session /\ \A s \in Session : s # NoSession
      /\ Different(stage.votes) /\ Different(hist.counted)
  <2>1. policy' = policy
    BY DEF Next, Work, vars, StartAttempt, Call, Parse, Repair, Unparsed, CallFails, Collect,
           EndAttempt, Accept, GiveUp, RetryChangedFiles, Retry, Finish, Raise, Restart, Again
  <2>2. stage \in StageType /\ stage.votes \in Seq(Ballot)
    BY RecordsTyped, Types
  <2>3. hist.made \in Nat /\ hist.known \subseteq Session /\ \A s \in Session : s # NoSession
    <3>1. hist \in History /\ MaxSessions \in Nat
      BY Types DEF Typed
    <3>2. hist.made \in Sessions /\ hist.known \subseteq Session
      BY <3>1 DEF History
    <3>3. Session \subseteq Nat \ {0} /\ NoSession = 0
      BY <3>1 DEF Session, NoSession
    <3>4. Sessions \subseteq Nat
      BY <3>3 DEF Sessions
    <3>5. \A s \in Session : s # NoSession
      BY <3>3
    <3> HIDE DEF Session
    <3> QED
      BY <3>2, <3>4, <3>5
  <2> QED
    BY <2>1, <2>2, <2>3 DEF FreshInv
<1>1. CASE StartAttempt \/ Unparsed \/ Collect \/ Accept \/ GiveUp \/ Raise \/ UNCHANGED vars
  <2>1. UNCHANGED <<hist, session>> /\ stage'.votes = stage.votes /\ stage'.pending = stage.pending
    BY <1>0, <1>1 DEF StartAttempt, Unparsed, Collect, Accept, GiveUp, Raise, vars, StageType
  <2> QED
    BY <1>0, <2>1 DEF FreshInv
<1>2. CASE Calling
  <2>1. SameVerdict
    BY <1>2, SentFields, AnsweredFields DEF Calling, Call, Repair, CallFails
  <2>2. stage'.votes = stage.votes
    BY <1>0, <1>2 DEF Calling, Call, Repair, CallFails, StageType
  <2>3. (session' = session /\ stage.pending) \/ session' = NoSession \/ session' = hist.made + 1
    <3>1. (ClientSession = session /\ stage.pending) \/ ClientSession = NoSession
      BY <1>0 DEF ClientSession, StageType
    <3>2. CASE Call \/ Repair
      <4>1. PICK t \in Sessions : Answered(ClientSession, t)
        BY <3>2 DEF Call, Repair
      <4> QED
        BY <3>1, <4>1 DEF Answered, New
    <3>3. CASE CallFails
      <4>1. PICK t \in IF ClientSession = NoSession THEN New \cup {NoSession} ELSE {ClientSession},
                 invalid \in BOOLEAN : session' = IF invalid THEN NoSession ELSE t
        BY <3>3 DEF CallFails
      <4> QED
        BY <3>1, <4>1 DEF New
    <3> QED
      BY <1>2, <3>2, <3>3 DEF Calling
  <2>4. session' # NoSession => \A i \in DOMAIN stage.votes : stage.votes[i].session # session'
    <3>1. \A i \in DOMAIN stage.votes : stage.votes[i].session # hist.made + 1
      BY <1>0 DEF BallotInv
    <3> QED
      BY <1>0, <2>3, <3>1 DEF FreshInv
  <2> QED
    BY <1>0, <2>1, <2>2, <2>4 DEF FreshInv, SameVerdict
<1>3. CASE Parse
  <2>1. PICK v \in BOOLEAN :
          stage' = [stage EXCEPT !.votes = Append(@, Vote(v)), !.pending = FALSE]
    BY <1>3 DEF Parse
  <2>2. stage'.votes = Append(stage.votes, Vote(v)) /\ ~stage'.pending
    <3> HIDE DEF Vote
    <3> QED
      BY <1>0, <2>1 DEF StageType
  <2>3. hist' = hist /\ pc = "parsing"
    BY <1>3 DEF Parse
  <2>4. \A i \in DOMAIN stage.votes : stage.votes[i].session # session
    BY <1>0, <2>3 DEF FreshInv, BallotInv, SessionInv
  <2>5. Vote(v).session = session
    BY DEF Vote
  <2>6. /\ DOMAIN stage'.votes = 1 .. Len(stage.votes) + 1
        /\ DOMAIN stage.votes = 1 .. Len(stage.votes)
        /\ \A i \in DOMAIN stage.votes : stage'.votes[i] = stage.votes[i]
        /\ stage'.votes[Len(stage.votes) + 1] = Vote(v)
    <3> HIDE DEF Vote
    <3> QED
      BY <1>0, <2>2
  <2>7. \A i \in DOMAIN stage'.votes : i \in DOMAIN stage.votes \/ i = Len(stage.votes) + 1
    BY <1>0, <2>6
  <2>8. Different(stage'.votes)
    <3> SUFFICES ASSUME NEW i \in DOMAIN stage'.votes, NEW j \in DOMAIN stage'.votes, i # j
                 PROVE  stage'.votes[i].session # stage'.votes[j].session
      BY DEF Different
    <3> HIDE DEF Vote
    <3>1. CASE i \in DOMAIN stage.votes /\ j \in DOMAIN stage.votes
      BY <1>0, <2>6, <3>1 DEF Different
    <3>2. CASE i = Len(stage.votes) + 1
      BY <2>4, <2>5, <2>6, <2>7, <3>2
    <3>3. CASE j = Len(stage.votes) + 1
      BY <2>4, <2>5, <2>6, <2>7, <3>3
    <3> QED
      BY <2>7, <3>1, <3>2, <3>3
  <2> QED
    BY <1>0, <2>2, <2>3, <2>8 DEF FreshInv
<1>4. CASE EndAttempt
  <2>1. PICK files \in {"none", "changed", "malformed"}, hook \in {"ok", "raised", "violated"} :
          EndWith(files, hook)
    BY <1>4, EndAttemptWith
  <2>2. SameVerdict /\ session' = session
    BY <1>4, <2>1, EndFields DEF EndAttempt
  <2>3. CASE hook # "violated"
    BY <1>0, <2>1, <2>2, <2>3 DEF EndWith, FreshInv, SameVerdict
  <2>4. CASE hook = "violated"
    <3>1. pc = "ran" /\ stage' = Discard(stage)
      BY <2>1, <2>4 DEF EndWith
    <3>2. ~stage'.pending /\ \A i \in DOMAIN stage'.votes :
            i \in DOMAIN stage.votes /\ stage'.votes[i] = stage.votes[i]
      BY <1>0, <3>1, DiscardKeeps DEF BallotInv
    <3>3. Different(stage'.votes)
      BY <1>0, <3>2 DEF Different
    <3> QED
      BY <1>0, <2>2, <3>2, <3>3 DEF FreshInv, SameVerdict
  <2> QED
    BY <2>3, <2>4
<1>5. CASE RetryChangedFiles \/ Retry
  <2>1. SameVerdict /\ stage' = stage /\ session' \in {session, NoSession}
    BY <1>5, ResetFields DEF RetryChangedFiles, Retry, ResetSession, SameVerdict
  <2> QED
    BY <1>0, <2>1 DEF FreshInv, SameVerdict
<1>6. CASE Finish \/ Restart
  <2>1. stage' = FreshStage
    BY <1>6 DEF Finish, Restart
  <2>2. hist'.counted = stage.votes \/ hist'.counted = hist.counted
    BY <1>6, FinishFields, RestartFields DEF SameVerdict
  <2>3. Different(<<>>)
    BY DEF Different
  <2> QED
    BY <1>0, <2>1, <2>2, <2>3 DEF FreshInv, FreshStage
<1>7. CASE Again
  <2>1. stage' = stage /\ stage.votes = <<>> /\ hist'.counted = <<>>
    BY <1>7, AgainFields DEF Again, LoopInv
  <2> QED
    BY <2>1 DEF FreshInv, Different
<1> QED
  BY <1>1, <1>2, <1>3, <1>4, <1>5, <1>6, <1>7 DEF Next, Work, Calling

--------------------------------------------------------------------------
LEMMA StageInit == Init => StageInv
<1> SUFFICES ASSUME Init PROVE StageInv
  OBVIOUS
<1>1. Typed
  BY TypedInit
<1>2. LoopInv /\ BallotInv /\ VerdictInv /\ FreshInv
  BY ParameterAssumption
     DEF Init, LoopInv, BallotInv, VerdictInv, FreshInv, Different, FreshLoop, FreshStage
<1>3. SessionInv
  <2>1. hist.made = session /\ hist.dropped = {} /\ hist.known = {seen} \ {NoSession}
        /\ ~hist.stray /\ \A s \in Session : hist.failed[s] = 0
    BY DEF Init
  <2>2. session \in Nat /\ saved \in {session, NoSession}
    BY DEF Init, NoSession
  <2>3. session # NoSession => session \in Session
    BY <1>1, Types DEF Sessions
  <2> QED
    BY <2>1, <2>2, <2>3 DEF Init, SessionInv, NoSession, PerSession, FreshLoop
<1> QED
  BY <1>1, <1>2, <1>3 DEF StageInv

(* The inductive invariant: votes, sessions, the budget and the verdict of one  *)
(* execution of a Stage fit together, for every policy, budget and number of    *)
(* votes, and wherever the worker dies (stage_executor.py, base_stage.py).     *)
THEOREM StageInvariant == Spec => []StageInv
<1>1. StageInv /\ [Next]_vars => StageInv'
  BY TypedStep, LoopStep, SessionStep, BallotStep, FreshStep, VerdictStep DEF StageInv
<1> QED
  BY StageInit, <1>1, PTL DEF Spec

(* The votes that decide a Stage are sound: as many as required, of different   *)
(* sessions if the policy is fresh, none of a rejected attempt, and the verdict *)
(* is what the majority says (base_stage.py:163-209).                          *)
THEOREM VotesAreSound == Spec => []VotesSound
<1>1. StageInv => VotesSound
  <2> SUFFICES ASSUME StageInv PROVE VotesSound
    OBVIOUS
  <2>1. VotesIndependent
    BY DEF StageInv, FreshInv, Different, VotesIndependent
  <2>2. RejectedVotesDiscarded
    BY DEF StageInv, BallotInv, RejectedVotesDiscarded
  <2>3. VerdictIsMajority
    BY DEF StageInv, VerdictInv, Majority, VerdictIsMajority
  <2> QED
    BY <2>1, <2>2, <2>3 DEF VotesSound
<1> QED
  BY StageInvariant, <1>1, PTL

(* A session that was given up never comes back, in a later execution or the    *)
(* next worker; one execution fails at most twice in one, also in one that it    *)
(* found; and the short prompt and corrections only go to a session that has     *)
(* been told the whole prompt (stage_executor.py:64, 84, base_stage.py:279-294). *)
THEOREM SessionsAreSound == Spec => []SessionsSound
<1>1. StageInv => SessionsSound
  BY DEF StageInv, Typed, SessionInv, SessionsSound, DroppedStaysDropped, SessionBounded
<1> QED
  BY StageInvariant, <1>1, PTL

--------------------------------------------------------------------------
(* The refinement, step by step. *)
LEMMA PhaseInit == Init => Execution!Begun
BY DEF Init, FreshLoop, Phase, Execution!Begun

LEMMA PhaseStep == StageInv /\ [Next]_vars => [Execution!Next]_(Execution!execution)
<1> SUFFICES ASSUME StageInv, [Next]_vars PROVE [Execution!Next]_(Execution!execution)
  OBVIOUS
<1> USE DEF Execution!execution
<1>0. Typed /\ LoopInv /\ limit \in Nat \cup {Unlimited} /\ loop.used \in Nat /\ loop \in LoopType
      /\ result.status \in {"pass", "fail", "error"}
  BY Types, RecordsTyped, ParameterAssumption DEF StageInv, Typed, TypeOK
<1>1. CASE StartAttempt \/ Parse \/ Unparsed \/ Collect
  <2>1. /\ UNCHANGED <<limit, restarts, hist>> /\ loop'.used = loop.used
        /\ Phase = "running" /\ Phase' = "running"
    BY <1>0, <1>1 DEF StartAttempt, Parse, Unparsed, Collect, Phase, LoopType
  <2> QED
    BY <2>1
<1>2. CASE Calling \/ EndAttempt
  <2>1. SameVerdict
    <3>1. CASE Calling
      BY <1>0, <3>1, SentFields, AnsweredFields DEF Calling, Call, Repair, CallFails
    <3>2. CASE EndAttempt
      BY <1>0, <3>2, EndAttemptWith, EndFields
    <3> QED
      BY <1>2, <3>1, <3>2
  <2>2. UNCHANGED <<limit, restarts, loop>> /\ Phase = "running" /\ Phase' = "running"
    BY <1>2 DEF Calling, Call, Repair, CallFails, EndAttempt, Phase
  <2> QED
    BY <2>1, <2>2 DEF SameVerdict
<1>3. CASE Accept \/ GiveUp
  <2>1. UNCHANGED <<limit, restarts, loop, hist>> /\ Phase = "running"
    BY <1>3 DEF Accept, GiveUp, Phase
  <2>2. /\ Phase' \in {"reducing", "failing"}
        /\ Phase' = "failing" => BudgetSpent
    BY <1>3 DEF Accept, GiveUp, Phase
  <2>3. BudgetSpent => limit # Execution!Unlimited /\ loop.used = limit
    BY <1>0 DEF BudgetSpent, LoopInv, Unlimited, Execution!Unlimited
  <2>4. Execution!Answer
    BY <2>1, <2>2, <2>3 DEF Execution!Answer
  <2> QED
    BY <2>4 DEF Execution!Next
<1>4. CASE RetryChangedFiles \/ Retry
  <2>1. /\ SameVerdict /\ UNCHANGED <<limit, restarts>> /\ ~BudgetSpent /\ loop'.used = Used
        /\ Phase = "running" /\ Phase' = "running"
    BY <1>0, <1>4, ResetFields DEF RetryChangedFiles, Retry, Phase, SameVerdict, LoopType
  <2>2. /\ limit # Execution!Unlimited => loop.used < limit
        /\ Used = IF limit = Execution!Unlimited THEN loop.used ELSE loop.used + 1
    BY <1>0, <2>1 DEF BudgetSpent, Used, LoopInv, Unlimited, Execution!Unlimited
  <2>3. Execution!Retry
    BY <2>1, <2>2 DEF Execution!Retry, SameVerdict
  <2> QED
    BY <2>3 DEF Execution!Next
<1>5. CASE Finish
  <2>1. Phase = (IF result.status = "error" THEN "failing" ELSE "reducing") /\ Phase' = "returned"
    BY <1>5 DEF Finish, Phase
  <2>2. hist'.outcome \in {result.status, "error"}
    BY <1>0, <1>5, FinishFields
  <2>3. UNCHANGED <<limit, loop, restarts>>
    BY <1>5 DEF Finish
  <2>4. Execution!Return
    BY <1>0, <2>1, <2>2, <2>3 DEF Execution!Return, Execution!Outcome
  <2> QED
    BY <2>4 DEF Execution!Next
<1>6. CASE Raise
  <2>1. Phase \in {"running", "reducing", "failing"} /\ Phase' = "raised"
    BY <1>6 DEF Raise, Phase
  <2>2. UNCHANGED <<limit, loop, restarts, hist>>
    BY <1>6 DEF Raise
  <2> QED
    BY <2>1, <2>2 DEF Execution!Raise, Execution!Next
<1>7. CASE Restart
  <2>1. Phase \in {"running", "reducing", "failing"} /\ Phase' = "running"
    BY <1>7 DEF Restart, Phase
  <2>2. hist'.outcome = "error"
    BY <1>0, <1>7, RestartFields DEF Restart, LoopInv, SameVerdict
  <2>3. limit' = limit /\ restarts < MaxRestarts /\ restarts' = restarts + 1 /\ loop'.used = 0
    BY <1>7 DEF Restart, FreshLoop
  <2> QED
    BY <2>1, <2>2, <2>3 DEF Execution!Restart, Execution!Next
<1>9. CASE Again
  <2>1. Phase = "returned" /\ Phase' = "running"
    BY <1>9 DEF Again, Phase
  <2>2. hist'.outcome = "error" /\ loop'.used = 0 /\ UNCHANGED <<limit, restarts>>
    BY <1>0, <1>9, AgainFields DEF Again, FreshLoop
  <2> QED
    BY <2>1, <2>2 DEF Execution!Again, Execution!Next
<1>8. CASE UNCHANGED vars
  BY <1>8 DEF vars, Phase
<1> QED
  BY <1>1, <1>2, <1>3, <1>4, <1>5, <1>6, <1>7, <1>8, <1>9 DEF Next, Work, Calling

(* The retry loop does what StageExecution promises the engine, but for the     *)
(* promise that it ends: one answer, a technical error only once the budget is  *)
(* spent or the answer cannot be reduced, a whole budget after a restart.      *)
THEOREM RetryLoopIsSafe == Spec => Execution!Safety
BY PhaseInit, PhaseStep, StageInvariant, PTL DEF Spec, Execution!Safety
=============================================================================
