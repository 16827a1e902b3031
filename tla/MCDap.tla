------------------------------- MODULE MCDap -------------------------------
(* The debug adapter, for conversations of a few requests. *)
EXTENDS DapAdapter, SequencesExt

AllRequests ==
    {"initialize", "launch", "configurationDone", "query", "evaluate", "continue", "pause",
     "terminate", "disconnect", "detach"}

\* Bound: the client opens a conversation in any way, but goes on only with
\* one that was opened properly, and does not open it again.
Opening == <<"initialize", "launch", "configurationDone">>
OpenedProperly(s) ==
    Len(s) > 3 => SubSeq(s, 1, 3) = Opening /\ Range(SubSeq(s, 4, Len(s))) \cap Range(Opening) = {}

Ending == {"value", "exit", "subshellExit"}
=============================================================================
