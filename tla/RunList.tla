-------------------------------- MODULE RunList --------------------------------
(***************************************************************************)
(* What a YAML List promises whoever launched it, however often it was        *)
(* retried, restarted or launched again on the way: an item is begun after     *)
(* all earlier ones completed, a completed item stays completed, success means  *)
(* that all are, and every launch ends.                                      *)
(***************************************************************************)
EXTENDS Integers

CONSTANT Items   \* number of items in the list

VARIABLES
  phase,    \* of each item: waiting, begun, completed
  outcome   \* of the list: unlaunched, open, succeeded, failed

listed == <<phase, outcome>>

Init == phase = [i \in 1 .. Items |-> "waiting"] /\ outcome = "unlaunched"

Open ==
  /\ outcome \in {"unlaunched", "failed"}
  /\ outcome' = "open"
  /\ UNCHANGED phase

Begin(i) ==
  /\ outcome = "open" /\ phase[i] = "waiting"
  /\ \A j \in 1 .. (i - 1) : phase[j] = "completed"
  /\ phase' = [phase EXCEPT ![i] = "begun"]
  /\ UNCHANGED outcome

Complete(i) ==
  /\ outcome = "open" /\ phase[i] = "begun"
  /\ phase' = [phase EXCEPT ![i] = "completed"]
  /\ UNCHANGED outcome

Succeed ==
  /\ outcome = "open" /\ \A i \in 1 .. Items : phase[i] = "completed"
  /\ outcome' = "succeeded"
  /\ UNCHANGED phase

Fail == outcome = "open" /\ outcome' = "failed" /\ UNCHANGED phase

Next == Open \/ Succeed \/ Fail \/ \E i \in 1 .. Items : Begin(i) \/ Complete(i)
Safety == Init /\ [][Next]_listed
Spec == Safety /\ WF_listed(Succeed \/ Fail)
================================================================================
