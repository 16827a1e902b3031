---------------------------- MODULE TerminalJobs ----------------------------
(***************************************************************************)
(* Foreground jobs of an interactive shell on a terminal: a command or     *)
(* pipeline is registered as a job, waited for member by member, and       *)
(* stays in the table when it is stopped (wait_fg_child_job_control of     *)
(* external_inner.rs, the job control wait of pipeline_exec.rs); fg waits  *)
(* for a whole job the same way (wait_for_fg_job_control).                 *)
(*                                                                         *)
(* While such a wait runs, pc holds what its local variables hold: the     *)
(* members, the handles taken out of background_children, those seen       *)
(* stopped and those seen dead.                                            *)
(***************************************************************************)
EXTENDS JobBuiltins

Waiting(kind, job, taken, known) ==
    [at |-> kind, pids |-> PidsOf(job), last |-> job.last, taken |-> taken,
     known |-> known, stopped |-> {}, dead |-> {}]

\* A command or a pipeline of two starts in the foreground.
StartForeground ==
    /\ Starts("external")
    /\ Channel
    /\ \E p \in Pids : \E ps \in {{p}} \cup {{p, q} : q \in {r \in Unborn : r > p}} :
          LET last == CHOOSE r \in ps : \A q \in ps : q <= r
          IN  /\ IsNextPid(p)
              /\ Cardinality(ps) = last - p + 1
              /\ NextJobId(CleanupDeadJobs(table)) <= MaxJobId
              /\ table' = SetJobControl(RegisterPipeline(table, ps, last, FALSE), last, TRUE)
              /\ os' = [q \in Pids |-> IF q \in ps THEN "run" ELSE os[q]]
              /\ pc' = Waiting("new", table'.jobs[table'.p2j[p]], {}, {})
    /\ fgMoved' = TRUE
    /\ UNCHANGED <<sig, kids, pend, notices, lastBg, real, ghost>>

\* fg: members already dead keep their status, the other handles are taken.
FgTerminal ==
    /\ Starts("fg")
    /\ \E W \in {Refresh(Now, TRUE, FALSE, FALSE, 0)} :
       \E j \in DOMAIN W.tab.jobs :
              LET job == W.tab.jobs[j]
                  known == {p \in PidsOf(job) : job.procs[p].state = "Completed"}
                  taken == W.kids \cap (PidsOf(job) \ known)
              IN  /\ job.job_control
                  /\ job.last \in W.kids \cup DOMAIN W.tab.done
                  /\ WaitsOnTerminal(W, j)
                  /\ \E F \in {ToForeground(W, j)} : Becomes([F EXCEPT !.kids = W.kids \ taken])
                  /\ pc' = Waiting("resumed", job, taken, known)
    /\ fgMoved' = FALSE
    /\ UNCHANGED <<lastBg, real, ghost>>

OnTerminal == pc.at \in {"new", "resumed"}
Unseen == pc.pids \ (pc.known \cup pc.stopped \cup pc.dead)

\* The terminal's stop character, or any other stop of a foreground process.
StoppedByTerminal(p) ==
    /\ OnTerminal
    /\ p \in pc.pids /\ os[p] = "run"
    /\ os' = [os EXCEPT ![p] = "stop"]
    /\ UNCHANGED <<real, shell, ghost>>

\* waitpid(p, WNOHANG | WUNTRACED) has something to report.
SeeStopped(p) ==
    /\ OnTerminal
    /\ p \in Unseen /\ os[p] = "stop"
    /\ pc' = [pc EXCEPT !.stopped = pc.stopped \cup {p}]
    /\ UNCHANGED <<table, sig, kids, pend, notices, fgMoved, lastBg, os, real, ghost>>

SeeDead(p) ==
    /\ OnTerminal
    /\ p \in Unseen /\ os[p] = "zombie"
    /\ os' = [os EXCEPT ![p] = "reaped"]
    /\ pc' = [pc EXCEPT !.dead = pc.dead \cup {p}, !.taken = pc.taken \ {p}]
    /\ UNCHANGED <<table, sig, kids, pend, notices, fgMoved, lastBg, real, ghost>>

\* mark_stopped for every pid of S, all of one job; the job is a background
\* job again.
MarkJobStopped(T, j, S) ==
    LET job == T.jobs[j]
        procs == [p \in PidsOf(job) |->
                     IF p \in S THEN [job.procs[p] EXCEPT !.state = "Stopped"] ELSE job.procs[p]]
        entry == RecomputeJob([job EXCEPT !.procs = procs, !.notified = FALSE])
    IN  WithBackground(SetCurrentJob(WithEntry(T, j, entry), j), j, TRUE)

DiedWith(S) == [p \in S |-> real[p]]

\* The handles of a stopped job are dropped.
MutEndForeground ==
    /\ pc.at = "new"
    /\ Unseen = {}
    /\ IF pc.stopped = {}
       THEN /\ table' = RemoveJobByPid(table, pc.last)
            /\ released' = released \cup pc.pids
       ELSE /\ table' = MarkJobStopped(ReapFinished(table, DiedWith(pc.dead)),
                                       table.p2j[pc.last], pc.stopped)
            /\ UNCHANGED released
    /\ told' = told \cup pc.dead
    /\ pc' = Reading
    /\ UNCHANGED <<sig, kids, pend, notices, fgMoved, lastBg, os, real, assumed, ans>>

\* Every member is dead or stopped.  A new job that is dead leaves with its
\* statuses; one that stopped becomes a background job whose stopped members
\* get their handles back.
EndForeground ==
    /\ pc.at = "new"
    /\ Unseen = {}
    /\ IF pc.stopped = {}
       THEN /\ table' = RemoveJobByPid(table, pc.last)
            /\ UNCHANGED kids
            /\ released' = released \cup pc.pids
       ELSE /\ table' = MarkJobStopped(ReapFinished(table, DiedWith(pc.dead)),
                                       table.p2j[pc.last], pc.stopped)
            /\ kids' = kids \cup pc.stopped
            /\ UNCHANGED released
    /\ told' = told \cup pc.dead
    /\ pc' = Reading
    /\ UNCHANGED <<sig, pend, notices, fgMoved, lastBg, os, real, assumed, ans>>

\* Deaths seen before the job stopped again are not recorded.
MutEndResumed ==
    /\ pc.at = "resumed"
    /\ Unseen = {}
    /\ IF pc.stopped = {}
       THEN /\ table' = RemoveJobByPidPreserveStatus(ReapFinished(table, DiedWith(pc.dead)), pc.last)
            /\ UNCHANGED kids
       ELSE /\ table' = MarkJobStopped(table, table.p2j[pc.last], pc.stopped)
            /\ kids' = kids \cup pc.taken
    /\ told' = told \cup IF pc.stopped = {} THEN pc.pids ELSE pc.dead
    /\ pc' = Reading
    /\ UNCHANGED <<sig, pend, notices, fgMoved, lastBg, os, real, released, assumed, ans>>

\* The same for fg: the deaths it saw are recorded, and a job that is dead
\* is removed while its statuses stay.
EndResumed ==
    /\ pc.at = "resumed"
    /\ Unseen = {}
    /\ LET T == ReapFinished(table, DiedWith(pc.dead))
       IN  IF pc.stopped = {}
           THEN /\ table' = RemoveJobByPidPreserveStatus(T, pc.last)
                /\ UNCHANGED kids
           ELSE /\ table' = MarkJobStopped(T, T.p2j[pc.last], pc.stopped)
                /\ kids' = kids \cup pc.taken
    /\ notices' = notices \cup {p \in pc.dead : Signalled(p)}
    /\ told' = told \cup IF pc.stopped = {} THEN pc.pids ELSE pc.dead
    /\ pc' = Reading
    /\ UNCHANGED <<sig, pend, fgMoved, lastBg, os, real, released, assumed, ans>>

\* A member that is not a child any more and has no handle: fg gives up.
FgLosesMember ==
    /\ pc.at = "resumed"
    /\ \E p \in Unseen : os[p] = "reaped"
    /\ kids' = kids \cup pc.taken
    /\ pc' = Reading
    /\ UNCHANGED <<table, sig, pend, notices, fgMoved, lastBg, os, real, ghost>>

\* A trapped signal ends the wait of fg: the handles go back, what was seen
\* so far is dropped.  The loop looks for signals only while a member is
\* unaccounted for.
FgTerminalInterrupted ==
    /\ "trap" \in Commands
    /\ pc.at = "resumed" /\ Unseen # {}
    /\ kids' = kids \cup pc.taken
    /\ pc' = Reading
    /\ UNCHANGED <<table, sig, pend, notices, fgMoved, lastBg, os, real, ghost>>

TerminalNext ==
    \/ ShellNext
    \/ StartForeground \/ FgTerminal
    \/ \E p \in Pids : StoppedByTerminal(p) \/ SeeStopped(p) \/ SeeDead(p)
    \/ EndForeground \/ EndResumed \/ FgLosesMember \/ FgTerminalInterrupted

TerminalSpec == ShellInit /\ [][TerminalNext]_vars

=============================================================================
