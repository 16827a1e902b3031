---------------------------- MODULE DapAdapter ----------------------------
(***************************************************************************)
(* The debug adapter, src/src/debugger/dap.rs: a reader thread that frames *)
(* the client's requests, and the main thread, which holds the             *)
(* conversation, runs the debuggee and serves its stops.  The debuggee     *)
(* keeps the StopProtocol, which DebugSession is proved to implement.      *)
(*                                                                         *)
(*   running, flag, pauseSeq   the ReaderBridge: the flag is shared while  *)
(*                     a session runs; pauseSeq is the pause owed a reply  *)
(*   reader            "framing", "sawRunning" (a pause, running was       *)
(*                     read), "flagged" (the stop flag is set, under the   *)
(*                     lock of session_flag), "gone"                       *)
(*   inbox             the channel of requests                             *)
(*   at                where the main thread is                            *)
(*   now               the request it is serving                           *)
(*   pending           pending_reply: an evaluation owed a reply           *)
(*   detached          the driver was taken off the executor               *)
(*   noDebug, stopOnEntry   the launch configuration                       *)
(*                                                                         *)
(* Of the client: asked (the requests sent), replies (how many responses   *)
(* each request has had) and view, what the events and responses it got    *)
(* say of the debuggee, and whether it was told of the last stop.  A       *)
(* request framed after a resume was answered is marked late.              *)
(*                                                                         *)
(* The requests that only read or edit the session (threads, stackTrace,   *)
(* variables, setBreakpoints, ...) and the malformed ones are "query":     *)
(* each is answered on the spot.  What responses carry is left out.        *)
(***************************************************************************)
EXTENDS Naturals, Sequences, StopProtocol

CONSTANTS
    Requests,    \* the commands the client sends
    Outcomes,    \* what an evaluation does: "value", "exit", "subshellExit",
                 \* "return" (which break and continue leave the stop like)
    Asks(_),     \* bound: the conversations explored
    MaxSeq,      \* bound: requests of a conversation
    MaxInbox     \* bound: requests sent ahead of their replies

VARIABLES running, flag, pauseSeq, reader, inbox, at, now, pending, detached,
          noDebug, stopOnEntry, asked, replies, view, told

ASSUME DapAssumption == MaxSeq \in Nat /\ MaxInbox \in Nat

bridge == <<running, flag, pauseSeq>>
launch == <<noDebug, stopOnEntry>>
client == <<replies, view, told>>
reading == <<reader, asked>>
main == <<at, now, pending, detached>>
dapVars == <<debuggee, bridge, reading, inbox, main, launch, client>>

Nobody == 0
Request(i) == [id |-> i, cmd |-> asked'[i], late |-> view = "running"]
Resumes == {"continue", "next", "stepIn", "stepOut"}

-----------------------------------------------------------------------------
(* The reader thread: spawn_reader. *)

\* A pause while the debuggee runs is not queued; anything else is.
Frame ==
    /\ reader = "framing" /\ at # "over"
    /\ Len(asked) < MaxSeq /\ Len(inbox) < MaxInbox
    /\ \E c \in Requests :
          /\ asked' = Append(asked, c) /\ Asks(asked')
          /\ IF c = "pause" /\ running
             THEN reader' = "sawRunning" /\ UNCHANGED inbox
             ELSE inbox' = Append(inbox, Request(Len(asked'))) /\ UNCHANGED reader
    /\ UNCHANGED <<debuggee, bridge, main, launch, client>>

\* The pause is noted, the flag is not set.
MutRaiseFlag ==
    /\ reader = "sawRunning" /\ flag
    /\ reader' = "flagged"
    /\ UNCHANGED <<debuggee, bridge, asked, inbox, main, launch, client>>

\* The lock of session_flag is taken, until the reply is noted.
RaiseFlag ==
    /\ reader = "sawRunning" /\ flag
    /\ async' = TRUE
    /\ reader' = "flagged"
    /\ UNCHANGED <<phase, live, reason, bridge, asked, inbox, main, launch, client>>

\* The run is over meanwhile: the pause is queued after all.
QueuePause ==
    /\ reader = "sawRunning" /\ ~flag
    /\ reader' = "framing"
    /\ inbox' = Append(inbox, [id |-> Len(asked), cmd |-> "pause", late |-> FALSE])
    /\ UNCHANGED <<debuggee, bridge, asked, main, launch, client>>

NotePause ==
    /\ reader = "flagged"
    /\ pauseSeq' = Len(asked)
    /\ reader' = "framing"
    /\ UNCHANGED <<debuggee, running, flag, asked, inbox, main, launch, client>>

\* EOF, a message that is not a request, or a receiver that is gone.
HangUp ==
    /\ reader = "framing"
    /\ reader' = "gone"
    /\ UNCHANGED <<debuggee, bridge, asked, inbox, main, launch, client>>

-----------------------------------------------------------------------------
(* The conversation of the main thread: converse, drain_until_disconnect   *)
(* and the requests after the end of the debuggee.                         *)

\* next_request.  The sender is dropped when the reader is gone.
Take(r) == inbox # << >> /\ r = Head(inbox) /\ inbox' = Tail(inbox)
NoMore == inbox = << >> /\ reader = "gone"

Reply(i) == replies' = [replies EXCEPT ![i] = @ + 1]

\* Nobody reads on after a refused launch.
MutConversing == at \in {"initialize", "launch", "configuring", "terminated"}


Conversing == at \in {"initialize", "launch", "configuring", "draining", "terminated"}

\* "detach" is the disconnect that leaves the debuggee to itself.
Disconnects == {"disconnect", "detach"}

\* Where a request leads: a launch may be refused, and only initialize is
\* taken first.
After(c) ==
    CASE at = "initialize" -> IF c = "initialize" THEN {"launch"} ELSE {"draining"}
      [] at # "initialize" /\ c \in Disconnects -> {"over"}
      [] at = "launch" /\ c \notin Disconnects ->
             IF c = "launch" THEN {"configuring", "draining"} ELSE {"draining"}
      [] at = "configuring" /\ c = "configurationDone" -> {"starting"}
      [] OTHER -> {at}

Converse ==
    /\ Conversing /\ inbox # << >>
    /\ \E r \in {Head(inbox)} :
          /\ Take(r)
          /\ Reply(r.id)
          /\ at' \in After(r.cmd)
    /\ IF at = "launch" /\ at' = "configuring"
       THEN noDebug' \in BOOLEAN /\ stopOnEntry' \in BOOLEAN
       ELSE UNCHANGED launch
    /\ UNCHANGED <<debuggee, bridge, reading, now, pending, detached, view, told>>

ClientGone ==
    /\ Conversing /\ NoMore
    /\ at' = "over"
    /\ UNCHANGED <<debuggee, bridge, reading, inbox, now, pending, detached, launch, client>>

-----------------------------------------------------------------------------
(* run: the debuggee, with a session or without one. *)

Start ==
    /\ at = "starting"
    /\ at' = "running"
    /\ flag' = ~noDebug
    /\ live' = ~noDebug
    /\ UNCHANGED <<phase, reason, async, running, pauseSeq, reading, inbox, now, pending,
                   detached, launch, client>>

\* The captures of the debuggee's output cannot be bound.
StartFails ==
    /\ at = "starting"
    /\ at' = "over"
    /\ view' = "terminated"
    /\ UNCHANGED <<debuggee, bridge, reading, inbox, now, pending, detached, launch, replies, told>>

\* The debuggee runs: it parks, ends its session or is over.
RunsOn ==
    /\ at = "running"
    /\ \/ (ServeEntry \/ Park) /\ at' = "serving" /\ told' = FALSE
       \/ (Absorb \/ ExitNoted) /\ at' = at /\ UNCHANGED told
       \/ Over /\ at' = "epilogue" /\ UNCHANGED told
    /\ UNCHANGED <<bridge, reading, inbox, now, pending, detached, launch, replies, view>>

\* From here on a pause is queued.
EndRun ==
    /\ at = "epilogue"
    /\ running' = FALSE
    /\ at' = "clearing"
    /\ UNCHANGED <<debuggee, flag, pauseSeq, reading, inbox, now, pending, detached, launch, client>>

\* The flag is cleared whoever holds its lock.
MutClearFlag ==
    /\ at = "clearing"
    /\ flag' = FALSE
    /\ at' = IF detached THEN "over" ELSE "settling"
    /\ UNCHANGED <<debuggee, running, pauseSeq, reading, inbox, now, pending, detached, launch, client>>

\* The lock of session_flag waits for a reader that is about to note its pause.
ClearFlag ==
    /\ at = "clearing" /\ reader # "flagged"
    /\ flag' = FALSE
    /\ at' = IF detached THEN "over" ELSE "settling"
    /\ UNCHANGED <<debuggee, running, pauseSeq, reading, inbox, now, pending, detached, launch, client>>

\* A pause the run outlived is answered as failed; exited, terminated.
Settle ==
    /\ at = "settling"
    /\ IF pauseSeq # Nobody THEN Reply(pauseSeq) ELSE UNCHANGED replies
    /\ pauseSeq' = Nobody
    /\ view' = "terminated"
    /\ at' = "terminated"
    /\ UNCHANGED <<debuggee, running, flag, reading, inbox, now, pending, detached, launch, told>>

-----------------------------------------------------------------------------
(* serve: a stop is presented. *)

\* Re-entry after an evaluation: only the owed reply is new.
ServeAgain ==
    /\ at = "serving" /\ pending # Nobody
    /\ Reply(pending)
    /\ pending' = Nobody
    /\ at' = "loop"
    /\ UNCHANGED <<debuggee, bridge, reading, inbox, now, detached, launch, view, told>>

\* The entry stop is kept to itself.
MutSkipEntry ==
    /\ at = "serving" /\ pending = Nobody
    /\ reason = "entry" /\ ~stopOnEntry
    /\ at' = "loop"
    /\ UNCHANGED <<debuggee, bridge, reading, inbox, now, pending, detached, launch, client>>


SkipEntry ==
    /\ at = "serving" /\ pending = Nobody
    /\ reason = "entry" /\ ~stopOnEntry
    /\ running' = TRUE
    /\ Continued
    /\ at' = "running"
    /\ UNCHANGED <<flag, pauseSeq, reading, inbox, now, pending, detached, launch, client>>

\* The reply owed to a pause is read and kept.
MutAnnounce ==
    /\ at = "serving" /\ pending = Nobody
    /\ reason = "entry" => stopOnEntry
    /\ IF reason = "pause" /\ pauseSeq # Nobody THEN Reply(pauseSeq) ELSE UNCHANGED replies
    /\ view' = "stopped" /\ told' = TRUE
    /\ at' = "loop"
    /\ UNCHANGED <<debuggee, running, flag, pauseSeq, reading, inbox, now, pending, detached, launch>>

\* A stop for a pause answers it; the stopped event follows.
Announce ==
    /\ at = "serving" /\ pending = Nobody
    /\ reason = "entry" => stopOnEntry
    /\ IF reason = "pause" /\ pauseSeq # Nobody
       THEN Reply(pauseSeq) /\ pauseSeq' = Nobody
       ELSE UNCHANGED <<pauseSeq, replies>>
    /\ view' = "stopped" /\ told' = TRUE
    /\ at' = "loop"
    /\ UNCHANGED <<debuggee, running, flag, reading, inbox, now, pending, detached, launch>>

-----------------------------------------------------------------------------
(* request_loop: the requests of a parked stop. *)

Parked(c) == at = "loop" /\ inbox # << >> /\ Take(Head(inbox)) /\ Head(inbox).cmd \in c

\* Answered on the spot, a pause and an evaluation from the snapshot too.
Answer ==
    /\ Parked(Requests \ (Resumes \cup Disconnects \cup {"terminate"}))
    /\ Reply(Head(inbox).id)
    /\ UNCHANGED <<debuggee, bridge, reading, main, launch, view, told>>

Evaluate ==
    /\ Parked({"evaluate"})
    /\ pending' = Head(inbox).id
    /\ at' = "evaluating"
    /\ UNCHANGED <<debuggee, bridge, reading, now, detached, launch, client>>

\* debugger_serve_stop: an evaluation that unwinds leaves the stop.
Evaluated ==
    /\ at = "evaluating"
    /\ \/ "value" \in Outcomes /\ at' = "serving" /\ UNCHANGED debuggee
       \/ "subshellExit" \in Outcomes /\ at' = "serving" /\ ExitNoted
       \/ "exit" \in Outcomes /\ at' = "running" /\ Ended
       \/ "return" \in Outcomes /\ at' = "running" /\ Continued
    /\ UNCHANGED <<bridge, reading, inbox, now, pending, detached, launch, client>>

\* The resume is answered without telling the reader.
MutMarkRunning ==
    /\ Parked(Resumes)
    /\ now' = Head(inbox).id
    /\ at' = "marked"
    /\ UNCHANGED <<debuggee, bridge, reading, pending, detached, launch, client>>

\* The reader is told before the client is.
MarkRunning ==
    /\ Parked(Resumes)
    /\ running' = TRUE
    /\ now' = Head(inbox).id
    /\ at' = "marked"
    /\ UNCHANGED <<debuggee, flag, pauseSeq, reading, pending, detached, launch, client>>

RespondAndResume ==
    /\ at = "marked"
    /\ Reply(now)
    /\ now' = Nobody
    /\ view' = "running"
    /\ Continued
    /\ at' = "running"
    /\ UNCHANGED <<bridge, reading, inbox, pending, detached, launch, told>>

\* The debuggee is let go without being ended.
MutLeave ==
    /\ Parked({"terminate", "disconnect", "detach"})
    /\ Reply(Head(inbox).id)
    /\ detached' = (Head(inbox).cmd = "detach")
    /\ view' = "ending"
    /\ at' = "running"
    /\ UNCHANGED <<debuggee, bridge, reading, now, pending, launch, told>>

\* terminate and disconnect; detach is a disconnect that keeps the debuggee.
Leave ==
    /\ Parked({"terminate", "disconnect", "detach"})
    /\ Reply(Head(inbox).id)
    /\ Ended
    /\ running' = TRUE
    /\ detached' = (Head(inbox).cmd = "detach")
    /\ view' = "ending"
    /\ at' = "running"
    /\ UNCHANGED <<flag, pauseSeq, reading, now, pending, launch, told>>

\* The client vanished: nobody would answer for the debuggee.
MutAbandon ==
    /\ at = "loop" /\ NoMore
    /\ UNCHANGED dapVars

Abandon ==
    /\ at = "loop" /\ NoMore
    /\ Ended
    /\ running' = TRUE
    /\ at' = "running"
    /\ UNCHANGED <<flag, pauseSeq, reading, inbox, now, pending, detached, launch, client>>

-----------------------------------------------------------------------------
DapInit ==
    /\ Begin
    /\ running = FALSE /\ flag = FALSE /\ pauseSeq = Nobody
    /\ reader = "framing" /\ inbox = << >> /\ asked = << >>
    /\ at = "initialize" /\ now = Nobody /\ pending = Nobody /\ detached = FALSE
    /\ noDebug = FALSE /\ stopOnEntry = TRUE
    /\ replies = [i \in 1..MaxSeq |-> 0] /\ view = "none" /\ told = FALSE

Reader == Frame \/ RaiseFlag \/ QueuePause \/ NotePause \/ HangUp

Adapter ==
    \/ Converse \/ ClientGone \/ Start \/ StartFails \/ EndRun \/ ClearFlag \/ Settle
    \/ ServeAgain \/ SkipEntry \/ Announce \/ Answer \/ Evaluate \/ MarkRunning
    \/ RespondAndResume \/ Leave \/ Abandon

DapNext == Reader \/ Adapter \/ RunsOn \/ Evaluated

DapSpec == DapInit /\ [][DapNext]_dapVars

\* The threads are scheduled; a client need not send anything, a debuggee
\* need not stop by itself, but it polls the stop flag between commands.
DapFairness ==
    /\ WF_dapVars(Adapter)
    /\ WF_dapVars(RaiseFlag \/ QueuePause \/ NotePause)
    /\ WF_dapVars(RunsOn /\ reason' = "pause")

FairDapSpec == DapSpec /\ DapFairness

-----------------------------------------------------------------------------
(* What the adapter promises its client. *)

DapTypeOK ==
    /\ {running, flag, detached, noDebug, stopOnEntry, async, live} \subseteq BOOLEAN
    /\ phase \in {"starting", "free", "parked", "over"}
    /\ {pauseSeq, now, pending} \subseteq 0..Len(asked)
    /\ \A k \in DOMAIN inbox : inbox[k].id \in 1..Len(asked)
    /\ \A i \in DOMAIN asked : asked[i] \in Requests
    /\ phase = "parked" <=> at \in {"serving", "loop", "evaluating", "marked"}

Superseded(i) == asked[i] = "pause" /\ \E j \in DOMAIN asked : j > i /\ asked[j] = "pause"

\* The places where a request waits for its reply.
Waiting(i) ==
    {p \in {"now", "pending", "pause", "reader"} :
        CASE p = "now" -> now = i
          [] p = "pending" -> pending = i
          [] p = "pause" -> pauseSeq = i
          [] p = "reader" -> i = Len(asked) /\ reader \in {"sawRunning", "flagged"}}
    \cup {k \in DOMAIN inbox : inbox[k].id = i}

\* Every request is answered at most once, and until then waits in one
\* place; only a pause is forgotten, for a later one.  Requests other than
\* pause are answered in the order they were sent, but for an evaluation that
\* ended the debuggee.
RequestsAccounted ==
    /\ \A i \in DOMAIN asked :
        \/ replies[i] = 1 /\ Waiting(i) = {}
        \/ replies[i] = 0 /\ \E p \in Waiting(i) : Waiting(i) = {p}
        \/ replies[i] = 0 /\ Superseded(i)
    /\ \A j \in DOMAIN asked : \A i \in 1..j :
        replies[j] > 0 /\ "pause" \notin {asked[i], asked[j]} => replies[i] > 0 \/ i = pending

\* The client knows of every stop whose requests are served.
StopsAreAnnounced == at = "loop" => told

\* Once terminated has been sent no pause is left to answer, and none will
\* be noted any more.
PauseIsSettled == at = "terminated" => pauseSeq = Nobody /\ reader # "flagged"

\* A pause sent after a resume was answered is never queued behind the run.
PauseNeverQueues == at = "running" => \A k \in DOMAIN inbox : inbox[k].late => inbox[k].cmd # "pause"

\* A pause of a free run stops it, if it does not end.
PauseStops == reader = "sawRunning" /\ at = "running" /\ live ~> at # "running" \/ ~live

\* If the debuggee does not run for ever, a client that vanishes ends the
\* adapter, and every request in the channel is answered.
Returns == []<>(at \notin {"running", "evaluating"})
VanishedClientEndsIt == Returns => (reader = "gone" ~> at = "over")
RequestsAnswered ==
    Returns => \A i \in 1..MaxSeq :
        (\E k \in DOMAIN inbox : inbox[k].id = i) ~> (replies[i] > 0 \/ pending = i \/ at = "over")
=============================================================================
