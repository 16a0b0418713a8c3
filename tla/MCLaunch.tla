------------------------------- MODULE MCLaunch -------------------------------
(* Command lines for the runs of RunLaunch. *)
EXTENDS RunLaunch

CONSTANTS W1, W2, P1, P2

AsFile(m, w, p) == [mode |-> m, workflow |-> w, prompt |-> p, file |-> TRUE]
AsText(m, w, p) == [mode |-> m, workflow |-> w, prompt |-> p, file |-> FALSE]

Texts   == {W1, W2}
Prompts == {P1, P2}

(* New runs of two Workflows, forced or not, and resumes. *)
Anything == {AsFile("new", W1, P1), AsFile("force", W1, P2), AsText("force", W2, P2),
             AsFile("resume", W1, P1)}
(* A run that is started once and resumed. *)
OneRun == {AsFile("new", W1, P1), AsFile("resume", W1, P1)}
===============================================================================
