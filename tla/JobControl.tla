----------------------------- MODULE JobControl -----------------------------
(***************************************************************************)
(* The executor's job control: the handlers of                             *)
(* src/src/executor/job_builtins.rs (refresh, wait, wait -n, jobs, fg, bg, *)
(* disown), the kill builtin's bookkeeping (limit_builtins.rs), the        *)
(* launches of background commands (compound_exec.rs) and the per-command  *)
(* boundary of ast_exec.rs, over the operating system's processes.         *)
(*                                                                         *)
(* The shell is one thread: it runs one handler at a time, and only a      *)
(* blocking wait lets the processes move in the middle of one.  The        *)
(* processes move between any two steps.                                   *)
(*                                                                         *)
(*   table, sig  the job table and the signals it remembers                *)
(*   os, real    each process and the status it died with                  *)
(*   kids        background_children: children whose handle is held        *)
(*   pend        pending_job_completions: reaped, not yet in the table     *)
(*   notices     pending_signal_notices: deaths by signal not yet printed  *)
(*   fgMoved     foreground_wait_count moved since the last refresh        *)
(*   lastBg      last_background_pid, $!                                   *)
(*   pc          what the shell is doing                                   *)
(*                                                                         *)
(* The remaining variables only record history for the properties: the     *)
(* processes whose death the user was told of, or whose job the user let   *)
(* go of (told), those whose saved status a bare wait or disown dropped    *)
(* (released), those disown gave a status of its own (assumed) and the     *)
(* answer of the last wait (ans).                                          *)
(*                                                                         *)
(* pend and notices are sequences in the code; their elements commute, so  *)
(* they are sets here.  Trapped signals that arrive during a wait only     *)
(* make it return early (Interrupted).                                     *)
(***************************************************************************)
EXTENDS JobSignals

CONSTANTS
    Monitor,      \* set -m: job control is on
    Interactive,  \* the shell was invoked interactively
    Tty,          \* standard input is a terminal
    Commands      \* the commands the user gives

VARIABLES sig, os, real, kids, pend, notices, fgMoved, lastBg, pc,
          told, released, assumed, ans

Killed == 137   \* 128 + SIGKILL

ASSUME JobControlAssumption ==
    /\ Pids \subseteq Nat /\ IsFiniteSet(Pids)
    /\ {0, Killed} \subseteq Statuses
    /\ {Monitor, Interactive, Tty} \subseteq BOOLEAN

shell == <<table, sig, kids, pend, notices, fgMoved, lastBg, pc>>
ghost == <<told, released, assumed, ans>>
vars == <<shell, os, real, ghost>>

\* job_control_channel_active: foreground jobs get the terminal.
Channel == Interactive /\ Monitor /\ Tty

Reading == [at |-> "reader"]
Executing == [at |-> "exec"]
NoAnswer == [kind |-> "none"]

Exists(st) == st \in {"run", "stop", "dying", "zombie"}

\* WIFSIGNALED, for programs that exit with a status below 128 of their own,
\* and the deaths format_signal_notices prints: those of background jobs other
\* than by SIGTERM (143).  SIGINT, SIGPIPE and trapped signals, which it keeps
\* silent in the same way, kill no process of the model.
Signalled(p) == real[p] > 128
Printed(p) == Signalled(p) /\ real[p] # 143

\* What a handler reads and writes, as one value.
Now == [tab |-> table, sig |-> sig, os |-> os, kids |-> kids, pend |-> pend,
        notices |-> notices]

Becomes(W) ==
    /\ table' = W.tab
    /\ sig' = W.sig
    /\ os' = W.os
    /\ kids' = W.kids
    /\ pend' = W.pend
    /\ notices' = W.notices

\* The processes of the jobs the pids of S belong to.
Members(T, S) == UNION {PidsOf(T.jobs[T.p2j[p]]) : p \in S \cap DOMAIN T.p2j}

\* The user learns what became of the dead among S.
Tell(S) == told' = told \cup {p \in S : os'[p] = "reaped" /\ p \notin pend'}

Reaped(O, S) == [p \in DOMAIN O |-> IF p \in S THEN "reaped" ELSE O[p]]

-----------------------------------------------------------------------------
(* The refresh. *)

\* apply_job_completion for the pids of S: the notice needs an entry.
ApplyCompletions(W, S) ==
    [W EXCEPT !.tab = ReapFinished(W.tab, [p \in S |-> real[p]]),
              !.notices = W.notices \cup {p \in S : Signalled(p) /\ p \in DOMAIN W.tab.p2j}]

\* The gate of the operand wait applied everywhere.
MutApplyPending(W, observe, gate) ==
    LET S == {p \in W.pend : observe /\ ~JobRecordedStopped(W.tab, p)}
    IN  ApplyCompletions([W EXCEPT !.pend = W.pend \ S], S)

\* apply_pending_job_completions: a gated wait leaves alone the completions
\* of jobs recorded stopped.
ApplyPending(W, observe, gate) ==
    LET S == {p \in W.pend : observe /\ ~(gate /\ JobRecordedStopped(W.tab, p))}
    IN  ApplyCompletions([W EXCEPT !.pend = W.pend \ S], S)

\* A death that may not be shown yet is dropped.
MutReapChildren(W, force, observe, gate) ==
    LET finished == {p \in W.kids : W.os[p] = "zombie"}
        shown == {p \in finished : observe /\ ~(gate /\ JobRecordedStopped(W.tab, p))}
    IN  ApplyCompletions([W EXCEPT !.kids = W.kids \ finished,
                                   !.os = Reaped(W.os, finished)], shown)

\* The second half of the refresh: try_wait on every child, then apply or
\* stash each completion.  A death by the shell's own recent kill is stashed
\* unless the refresh is forced, and the mark that says so is used up.
ReapChildren(W, force, observe, gate) ==
    LET finished == {p \in W.kids : W.os[p] = "zombie"}
        fresh == {p \in finished : ~force /\ Signalled(p) /\ FreshFatalLive(W.sig, p)}
        shown == {p \in finished \ fresh :
                     observe /\ ~(gate /\ JobRecordedStopped(W.tab, p))}
        W1 == [W EXCEPT !.kids = W.kids \ finished,
                        !.os = Reaped(W.os, finished),
                        !.pend = W.pend \cup (finished \ shown),
                        !.sig.fatal = Drop(W.sig.fatal, fresh)]
    IN  ApplyCompletions(W1, shown)

\* What apply_deferred_state_marks gives, and cleanup_dead_jobs, in W.
WithMarks(W, M) == [W EXCEPT !.tab = M.tab, !.sig = M.sig]
CleanedUp(W) == [W EXCEPT !.tab = CleanupDeadJobs(W.tab)]
CleanedUpIf(new, W) == IF new THEN CleanedUp(W) ELSE W

\* refresh_background_jobs_impl.  newLine is the movement of the reader's
\* line (or a fresh run), fgMoved that of the foreground wait count.
Refresh(W, force, gate, newLine, ripe) ==
    LET observe == force \/ newLine \/ fgMoved
        stateObserve == force \/ fgMoved \/ (Monitor /\ Tty)
        M == ApplyDeferredStateMarks(W.tab, W.sig, stateObserve, gate, ripe)
        W1 == ApplyPending(WithMarks(W, M), observe, gate)
    IN  CleanedUpIf(newLine, ReapChildren(W1, force, observe, gate))

\* emit_signal_notices for the queued deaths of S.
EmitNotices(W, S) ==
    LET shown == {p \in S : Printed(p)}
    IN  IF shown = {} THEN [W EXCEPT !.notices = W.notices \ S]
        ELSE [W EXCEPT !.notices = W.notices \ S,
                       !.tab = CleanupDeadJobs(NotifyByPids(W.tab, shown))]

-----------------------------------------------------------------------------
(* The reader. *)

\* The boundary before a command: "line" is the first command of a new line,
\* "list" a further one of the same line, "nested" one inside a compound
\* command or function.  Only a new line prints the queued notices.
Boundary(kind, ripe) ==
    /\ pc = Reading
    /\ \E W0 \in {IF kind = "nested" THEN Now ELSE [Now EXCEPT !.sig = NoteReaderCommand(sig)]} :
       \E W1 \in {Refresh(W0, FALSE, FALSE, kind = "line", ripe)} :
          LET due == IF kind = "line" THEN W1.notices ELSE {}
          IN  /\ \E W2 \in {EmitNotices(W1, due)} : Becomes(W2)
              /\ Tell(Members(W1.tab, {p \in due : Printed(p)}))
    /\ fgMoved' = FALSE
    /\ pc' = Executing
    /\ ans' = NoAnswer
    /\ UNCHANGED <<real, lastBg, released, assumed>>

NewLine == \E ripe \in 0..Len(sig.marks) : Boundary("line", ripe)
NextInList == \E ripe \in 0..Len(sig.marks) : Boundary("list", ripe)
NextNested == \E ripe \in 0..Len(sig.marks) : Boundary("nested", ripe)

\* A command starts when the reader has handed over to it, and hands back to
\* the reader when it is finished.
Starts(cmd) == pc = Executing /\ cmd \in Commands
Runs(cmd) == Starts(cmd) /\ pc' = Reading

\* Any command this module says nothing about.
OtherCommand ==
    /\ pc = Executing
    /\ pc' = Reading
    /\ UNCHANGED <<table, sig, kids, pend, notices, fgMoved, lastBg, os, real, ghost>>

\* A pid for a new process: they are handed out in order.
Unborn == {p \in Pids : os[p] = "unborn"}
IsNextPid(p) == p \in Unborn /\ \A q \in Unborn : p <= q

\* A background command (compound_exec.rs, the spawned branch).
Launch ==
    /\ Runs("&")
    /\ \E p \in Pids :
          LET T == RegisterPipeline(table, {p}, p, TRUE)
          IN  /\ IsNextPid(p)
              /\ NextJobId(CleanupDeadJobs(table)) <= MaxJobId
              /\ table' = SetJobControl(T, p, Monitor)
              /\ os' = [os EXCEPT ![p] = "run"]
              /\ kids' = kids \cup {p}
              /\ lastBg' = p
    /\ UNCHANGED <<sig, pend, notices, fgMoved, real, ghost>>

\* A foreground command that runs to its end: note_foreground_wait.
Foreground ==
    /\ Runs("external")
    /\ ~Channel
    /\ fgMoved' = TRUE
    /\ UNCHANGED <<table, sig, kids, pend, notices, lastBg, os, real, ghost>>

\* reap_dead_jobs_after_loop_body
LoopBody ==
    /\ Runs("loop")
    /\ ~(Interactive /\ Monitor)
    /\ table' = ReapDeadJobs(table, lastBg)
    /\ told' = told \cup (DOMAIN table.p2j \ DOMAIN table'.p2j)
    /\ UNCHANGED <<sig, kids, pend, notices, fgMoved, lastBg, os, real, released, assumed, ans>>

-----------------------------------------------------------------------------
(* The processes, and the kill builtin. *)

\* A process ends by itself, or by the signal that was sent to it.
Exits(p) ==
    /\ \/ /\ os[p] = "run"
          /\ \E s \in Statuses : real' = [real EXCEPT ![p] = s]
       \/ /\ os[p] = "dying"
          /\ real' = [real EXCEPT ![p] = Killed]
    /\ os' = [os EXCEPT ![p] = "zombie"]
    /\ UNCHANGED <<shell, ghost>>

\* Somebody else continues a stopped process; the shell is not told.
ContinuedElsewhere(p) ==
    /\ os[p] = "stop"
    /\ os' = [os EXCEPT ![p] = "run"]
    /\ UNCHANGED <<real, shell, ghost>>

\* What a signal does to a process that still exists.
Delivered(st, s) ==
    CASE s = "KILL" /\ Exists(st) /\ st # "zombie" -> "dying"
      [] s = "STOP" /\ st = "run" -> "stop"
      [] s = "CONT" /\ st = "stop" -> "run"
      [] OTHER -> st

\* note_kill_delivery: only job control records stops and continues.
NoteKillDelivery(S, p, s) ==
    CASE s = "KILL" -> NoteFatalSignal(S, p)
      [] s = "STOP" /\ Monitor -> DeferStateMark(S, p, "Stopped")
      [] s = "CONT" /\ Monitor -> DeferStateMark(S, p, "Running")
      [] OTHER -> S

\* execute_tracked_background_kill of a pid that resolves to a job or to a
\* saved status: a zombie still takes signals, a reaped process fails.
Kill(p, s) ==
    /\ Runs("kill")
    /\ Exists(os[p])
    /\ p \in DOMAIN table.p2j \cup DOMAIN table.done
    /\ os' = [os EXCEPT ![p] = Delivered(os[p], s)]
    /\ sig' = NoteKillDelivery(sig, p, s)
    /\ UNCHANGED <<table, kids, pend, notices, fgMoved, lastBg, real, ghost>>
=============================================================================
