--------------------------- MODULE StopProtocol ---------------------------
(***************************************************************************)
(* What a frontend may rely on: the debuggee starts, runs free, parks at   *)
(* stops and is over.  DebugSession implements this specification, and     *)
(* DapAdapter drives a debuggee that behaves so.                           *)
(*                                                                         *)
(*   phase    "starting" (the entry stop is to come), "free", "parked",    *)
(*            "over"                                                       *)
(*   live     a session that has not ended is attached                     *)
(*   reason   why the debuggee parked last                                 *)
(*   async    the asynchronous stop flag                                   *)
(***************************************************************************)

VARIABLES phase, live, reason, async

debuggee == <<phase, live, reason, async>>

Reasons == {"breakpoint", "step", "exception", "pause"}

Begin == phase = "starting" /\ live = TRUE /\ reason = "entry" /\ async = FALSE

ServeEntry ==
    /\ phase = "starting" /\ live
    /\ phase' = "parked"
    /\ UNCHANGED <<live, reason, async>>

\* Only a live session parks the debuggee, and only a requested stop is a pause.
Park ==
    /\ phase = "free" /\ live
    /\ phase' = "parked"
    /\ reason' \in Reasons
    /\ IF reason' = "pause" THEN async /\ async' = FALSE ELSE UNCHANGED async
    /\ UNCHANGED live

\* A request before the entry stop, which stands for it, or after the end.
Absorb ==
    /\ phase = "starting" \/ (phase = "free" /\ ~live)
    /\ async
    /\ async' = FALSE
    /\ UNCHANGED <<phase, live, reason>>

Continued ==
    /\ phase = "parked"
    /\ phase' = "free"
    /\ UNCHANGED <<live, reason, async>>

\* The session ends, or is taken off, at a stop.
Ended ==
    /\ phase = "parked"
    /\ phase' = "free"
    /\ live' = FALSE
    /\ UNCHANGED <<reason, async>>

\* An exit that does not unwind yet.
ExitNoted ==
    /\ phase \in {"parked", "free"}
    /\ live' = FALSE
    /\ UNCHANGED <<phase, reason, async>>

Over ==
    /\ phase \in {"starting", "free"}
    /\ phase' = "over"
    /\ live' = FALSE
    /\ UNCHANGED <<reason, async>>

StopRequested ==
    /\ phase # "over"
    /\ async' = TRUE
    /\ UNCHANGED <<phase, live, reason>>

Go ==
    \/ ServeEntry \/ Park \/ Absorb \/ Continued \/ Ended \/ ExitNoted \/ Over \/ StopRequested

Protocol == Begin /\ [][Go]_debuggee
=============================================================================
