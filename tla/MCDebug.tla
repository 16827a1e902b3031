------------------------------ MODULE MCDebug ------------------------------
(* The debugger on a program of two lines in two files and one function. *)
EXTENDS DebugSession, TLC

Files == "a1" :> "a.sh" @@ "b1" :> "b.sh"
TwoLines == {"a1", "b1"}
OneLine == {"a1"}

Entry(target, oneShot, ignore, condition) ==
    [target |-> target, enabled |-> TRUE, one_shot |-> oneShot, ignore |-> ignore,
     condition |-> condition]

Both == {Entry("a1", TRUE, 0, TRUE), Entry("f", TRUE, 1, FALSE)}

Unwinds == {"forceReturn", "evalReturn", "evalBreak", "evalExit", "quit", "detach"}
Everything == Unwinds \cup {"stopInCondition", "exitInCondition",
                           "subshellExit", "returnAtFrameReturn", "breakAtFrameEdge"}

\* A view without passed, which no action reads and of the properties only
\* StepsLand does.
ButPassed == <<session, async, table, install, exec, regions, frames, spent>>
=============================================================================
