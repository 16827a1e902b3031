------------------------------ MODULE MCTraps ------------------------------
(* Traps of a script and of a session, for two signals. *)
EXTENDS Traps

Two == <<"INT", "TERM">>
Plain == {}
Stealing == {"waitInSubshell"}
=============================================================================
