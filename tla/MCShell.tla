------------------------------ MODULE MCShell ------------------------------
(* The whole shell on a few processes. *)
EXTENDS TerminalJobs

Two == {1, 2}
One == {1}
Script == {"&", "external", "loop", "kill", "wait", "wait -n", "jobs", "disown", "trap"}
JobControlled == Script \cup {"fg", "bg"}
KillOnly == {"&", "kill"}
Terminal == {"external", "kill", "fg", "bg", "trap"}
Foregrounds == {"&", "external", "fg", "jobs", "wait"}
Died == {0, 137}
=============================================================================
