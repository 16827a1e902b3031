---------------------------- MODULE JobBuiltins ----------------------------
(***************************************************************************)
(* The job control builtins of src/src/executor/job_builtins.rs: wait in   *)
(* its three forms, jobs, disown, fg and bg.  With the reader, the         *)
(* launches and kill of JobControl they make the whole shell.              *)
(*                                                                         *)
(* A builtin that may block is an action that enters the wait (pc takes a  *)
(* record of what is left to do), steps that need what they wait for, and  *)
(* Interrupted, the trapped signal that ends any wait early.               *)
(***************************************************************************)
EXTENDS JobControl

-----------------------------------------------------------------------------
(* wait_for_background_pid *)

Outcome(kind, W, status) == [kind |-> kind, after |-> W, status |-> status]

\* A status is given out once.
MutTakeSavedStatus(W, p, explicit) ==
    [W EXCEPT !.tab = RemoveJobByPid(W.tab, p), !.kids = W.kids \ {p}]

\* The saved status of a job that is already dead.
TakeSavedStatus(W, p, explicit) ==
    LET T == CleanupDeadJobs(W.tab)
    IN  [W EXCEPT !.tab = IF explicit THEN MarkJobNotifiedByPid(T, p) ELSE T,
                  !.kids = W.kids \ {p}]

\* The status is not saved for the next wait.
MutReapByWait(W, p) ==
    LET T == CleanupDeadJobs(MarkCompleted(W.tab, p, 0))
    IN  [W EXCEPT !.tab = MarkJobNotifiedByPid(T, p),
                  !.os = Reaped(W.os, {p}),
                  !.kids = W.kids \ {p}]

\* The wait itself reaps the child.
ReapByWait(W, p) ==
    LET T == CleanupDeadJobs(MarkCompleted(W.tab, p, real[p]))
    IN  [W EXCEPT !.tab = MarkJobNotifiedByPid(T, p),
                  !.notices = IF Signalled(p) THEN W.notices \cup {p} ELSE W.notices,
                  !.os = Reaped(W.os, {p}),
                  !.kids = W.kids \ {p}]

\* The poll loop goes on without a child.
MutWaitForBackgroundPid(W, p, explicit, force) ==
    IF ~force /\ JobRecordedStopped(W.tab, p) THEN Outcome("stopped", W, NoStatus)
    ELSE IF p \in DOMAIN W.tab.done
         THEN Outcome("status", TakeSavedStatus(W, p, explicit), W.tab.done[p])
    ELSE IF W.os[p] = "zombie" /\ p \in W.kids THEN Outcome("status", ReapByWait(W, p), real[p])
    ELSE Outcome("blocked", W, NoStatus)

\* A job recorded stopped is not waited for, unless the wait is forced (-f).
\* "blocked" is the poll loop that has nothing to report yet.
WaitForBackgroundPid(W, p, explicit, force) ==
    IF ~force /\ JobRecordedStopped(W.tab, p) THEN Outcome("stopped", W, NoStatus)
    ELSE IF p \in DOMAIN W.tab.done
         THEN Outcome("status", TakeSavedStatus(W, p, explicit), W.tab.done[p])
    ELSE IF p \notin W.kids THEN Outcome("notfound", W, NoStatus)
    ELSE IF W.os[p] = "zombie" THEN Outcome("status", ReapByWait(W, p), real[p])
    ELSE Outcome("blocked", W, NoStatus)

-----------------------------------------------------------------------------
(* wait with operands and without *)

\* The refresh every wait starts with: a job recorded stopped keeps that
\* record for this wait, except in an interactive shell.
WaitEntry == Refresh(Now, TRUE, ~Interactive, FALSE, 0)

Born == {p \in Pids : os[p] # "unborn"}
Resolves(T, p) == p \in DOMAIN T.p2j \cup DOMAIN T.done
OperandLists == {<<p>> : p \in Born} \cup {s \in Born \X Born : s[1] # s[2]}
Elements(s) == {s[i] : i \in DOMAIN s}

\* Pids in the order of their jobs, which is the order they were started in.
Ascending(S) ==
    CHOOSE s \in [1..Cardinality(S) -> S] : \A i, j \in DOMAIN s : i < j => s[i] < s[j]

\* execute_wait with operands.  All are resolved before the first is waited
\* for; a single pid is tried even when it does not resolve.
WaitOperands ==
    /\ Starts("wait")
    /\ \E todo \in OperandLists, force \in BOOLEAN :
       \E W \in {WaitEntry} :
          LET unknown == {p \in Elements(todo) : ~Resolves(W.tab, p)}
          IN  /\ Becomes(W)
              /\ pc' = [at |-> "wait", todo |-> todo, bare |-> FALSE, force |-> force,
                        old |-> notices,
                        unknown |-> IF Len(todo) = 1 /\ ~force THEN {} ELSE unknown]
    /\ fgMoved' = FALSE
    /\ UNCHANGED <<lastBg, real, ghost>>

\* execute_wait without operands, when there is a background job.
BackgroundJobs(T) == {j \in DOMAIN T.jobs : T.jobs[j].background}

WaitBare ==
    /\ Starts("wait")
    /\ \E force \in BOOLEAN, W \in {WaitEntry} :
          LET jobs == BackgroundJobs(W.tab)
          IN  /\ jobs # {}
              /\ Becomes(W)
              /\ pc' = [at |-> "wait", bare |-> TRUE, force |-> force, old |-> notices,
                        todo |-> Ascending(UNION {PidsOf(W.tab.jobs[j]) : j \in jobs}),
                        unknown |-> {}]
    /\ fgMoved' = FALSE
    /\ UNCHANGED <<lastBg, real, ghost>>

\* What execute_wait does last: the notices this wait queued are printed
\* through its own descriptors, and their jobs count as notified.
PrintedSince(W, old) == {p \in W.notices \ old : Printed(p)}

DrainNotices(W, old) ==
    [W EXCEPT !.tab = NotifyByPids(W.tab, PrintedSince(W, old)),
              !.notices = W.notices \cap old]

\* execute_wait without operands and without a background job.
WaitForNothing ==
    /\ Starts("wait")
    /\ \E W \in {WaitEntry} :
          /\ BackgroundJobs(W.tab) = {}
          /\ Becomes(DrainNotices([W EXCEPT !.tab = ClearCompletedStatuses(W.tab)], notices))
          /\ released' = released \cup DOMAIN W.tab.done
          /\ Tell(Members(W.tab, PrintedSince(W, notices)))
    /\ pc' = Reading
    /\ fgMoved' = FALSE
    /\ UNCHANGED <<lastBg, real, assumed, ans>>

\* One operand of the wait.
WaitNext ==
    /\ pc.at = "wait" /\ pc.todo # << >>
    /\ \E p \in {Head(pc.todo)} :
       \E R \in {IF p \in pc.unknown THEN Outcome("notfound", Now, NoStatus)
                 ELSE WaitForBackgroundPid(Now, p, ~pc.bare, pc.force)} :
          /\ R.kind # "blocked"
          /\ Becomes(R.after)
          /\ ans' = [kind |-> R.kind, pid |-> p, status |-> R.status, forced |-> pc.force]
          /\ IF R.kind = "status" THEN Tell(Members(table, {p})) ELSE UNCHANGED told
          /\ pc' = [pc EXCEPT !.todo = Tail(pc.todo)]
    /\ UNCHANGED <<fgMoved, lastBg, real, released, assumed>>

\* The end of the wait.  Without operands every dead job is discarded, and
\* all saved statuses with them.
WaitEnd ==
    /\ pc.at = "wait" /\ pc.todo = << >>
    /\ \E T \in {IF pc.bare THEN SettleBareWait(table, lastBg, Interactive) ELSE table} :
          /\ Becomes(DrainNotices([Now EXCEPT !.tab = T], pc.old))
          /\ Tell(Members(T, PrintedSince(Now, pc.old)) \cup (DOMAIN table.p2j \ DOMAIN T.p2j))
          /\ released' = released \cup (DOMAIN table.done \ DOMAIN T.done)
    /\ pc' = Reading
    /\ UNCHANGED <<fgMoved, lastBg, real, assumed, ans>>

-----------------------------------------------------------------------------
(* wait -n *)

\* The operands of wait -n that resolve; none means any job.
WaitAny ==
    /\ Starts("wait -n")
    /\ \E candidates \in {{}} \cup {{p} : p \in Born}, W \in {WaitEntry} :
          /\ \A p \in candidates : Resolves(W.tab, p)
          /\ Becomes(W)
          /\ pc' = [at |-> "any", candidates |-> candidates, old |-> notices]
    /\ fgMoved' = FALSE
    /\ UNCHANGED <<lastBg, real, ghost>>

\* first_completed_wait_candidate: the lowest job, then the saved statuses.
CompletedJobs(T, candidates) ==
    {j \in BackgroundJobs(T) : /\ T.jobs[j].last \in DOMAIN T.done
                               /\ candidates = {} \/ T.jobs[j].last \in candidates}

FirstCompleted(T, candidates) ==
    LET D == CompletedJobs(T, candidates)
    IN  IF D # {} THEN {T.jobs[CHOOSE j \in D : \A i \in D : j <= i].last}
        ELSE candidates \cap DOMAIN T.done

\* Something is left to wait for: a child whose handle is still held.
WaitableChildren(W, candidates) ==
    W.kids \cap IF candidates # {} THEN candidates
                ELSE UNION {PidsOf(W.tab.jobs[j]) : j \in BackgroundJobs(W.tab)}

\* One round of the poll loop: the job it reports is consumed, its saved
\* status stays.
WaitAnyPoll ==
    /\ pc.at = "any"
    /\ \E W \in {Refresh(Now, TRUE, FALSE, FALSE, 0)} :
       LET found == FirstCompleted(W.tab, pc.candidates)
       IN  \/ \E p \in found :
              \E W1 \in {[W EXCEPT !.tab = RemoveJobByPidPreserveStatus(W.tab, p),
                                   !.kids = W.kids \ {p}]} :
                     /\ Becomes(DrainNotices(W1, pc.old))
                     /\ Tell(Members(W.tab, {p}) \cup Members(W.tab, PrintedSince(W, pc.old)))
                     /\ pc' = Reading
                     /\ ans' = [kind |-> "any", pid |-> p, status |-> W.tab.done[p]]
           \/ /\ found = {} /\ WaitableChildren(W, pc.candidates) = {}
              /\ Becomes(DrainNotices(W, pc.old))
              /\ Tell(Members(W.tab, PrintedSince(W, pc.old)))
              /\ pc' = Reading
              /\ ans' = NoAnswer
           \/ /\ found = {} /\ WaitableChildren(W, pc.candidates) # {}
              /\ Becomes(W)
              /\ UNCHANGED <<pc, told, ans>>
    /\ UNCHANGED <<fgMoved, lastBg, real, released, assumed>>

\* The handle is not put back.
MutInterrupted ==
    /\ "trap" \in Commands
    /\ pc.at = "wait" /\ pc.todo # << >>
    /\ Becomes([DrainNotices(Now, pc.old) EXCEPT !.kids = kids \ {Head(pc.todo)}])
    /\ Tell(Members(table, PrintedSince(Now, pc.old)))
    /\ pc' = Reading
    /\ ans' = NoAnswer
    /\ UNCHANGED <<fgMoved, lastBg, real, released, assumed>>

\* A trapped signal ends a wait: the child keeps its handle.
Interrupted ==
    /\ "trap" \in Commands
    /\ pc.at \in {"wait", "any"}
    /\ Becomes(DrainNotices(Now, pc.old))
    /\ Tell(Members(table, PrintedSince(Now, pc.old)))
    /\ pc' = Reading
    /\ ans' = NoAnswer
    /\ UNCHANGED <<fgMoved, lastBg, real, released, assumed>>

-----------------------------------------------------------------------------
(* jobs and disown *)

\* execute_jobs: "all" lists the background jobs, "running" and "stopped"
\* some of them, "job" one job whatever it is.  What is listed counts as
\* notified; the full listings also print the queued notices.
Listed(T, form, j) ==
    CASE form = "all" -> BackgroundJobs(T)
      [] form = "running" -> BackgroundJobs(T) \cap InState(T, "Running")
      [] form = "stopped" -> BackgroundJobs(T) \cap InState(T, "Stopped")
      [] form = "job" -> {j}

\* The processes a listing says something about.
ListedPids(W, form, j) ==
    (UNION {PidsOf(W.tab.jobs[i]) : i \in Listed(W.tab, form, j)})
    \cup (IF form \in {"all", "job"} THEN Members(W.tab, {p \in W.notices : Printed(p)}) ELSE {})

ListJobs(form, j, ripe) ==
    \E W1 \in {ApplyPending(Refresh(Now, FALSE, FALSE, FALSE, ripe), TRUE, FALSE)} :
    \E W2 \in {CleanedUpIf(form # "job", W1)} :
        LET listed == Listed(W2.tab, form, j)
            W3 == [W2 EXCEPT !.tab = NotifyJobs(W2.tab, listed)]
            full == form \in {"all", "job"}
        IN  /\ form = "job" => j \in DOMAIN W2.tab.jobs
            /\ \E W4 \in {IF full THEN CleanedUp(EmitNotices(W3, W3.notices)) ELSE W3} : Becomes(W4)
            /\ Tell(ListedPids(W2, form, j))

Jobs ==
    /\ Runs("jobs")
    /\ \E form \in {"all", "running", "stopped", "job"}, j \in JobIds,
          ripe \in 0..Len(sig.marks) : ListJobs(form, j, ripe)
    /\ fgMoved' = FALSE
    /\ UNCHANGED <<lastBg, real, released, assumed, ans>>

\* disown -a: everything is forgotten.
DisownAll ==
    /\ Runs("disown")
    /\ table' = ClearJobs(table)
    /\ kids' = {}
    /\ released' = released \cup kids \cup pend \cup DOMAIN table.p2j \cup DOMAIN table.done
    /\ told' = told \cup DOMAIN table.p2j
    /\ UNCHANGED <<sig, os, pend, notices, fgMoved, lastBg, real, assumed, ans>>

\* disown -r: the running jobs are forgotten, and both markers.
DisownRunning ==
    /\ Runs("disown")
    /\ LET doomed == InState(table, "Running")
           ps == UNION {PidsOf(table.jobs[j]) : j \in doomed}
       IN  /\ table' = ClearCurrentMarkers(DeleteJobs(WithDone(table, Drop(table.done, ps)), doomed))
           /\ kids' = kids \ ps
           /\ released' = released \cup ps
           /\ told' = told \cup ps
    /\ UNCHANGED <<sig, os, pend, notices, fgMoved, lastBg, real, assumed, ans>>

\* disown of a job: only the handle of its last process is dropped, and a
\* process without a saved status is given status 0.
DisownJob ==
    /\ Runs("disown")
    /\ \E j \in DOMAIN table.jobs :
          LET job == table.jobs[j]
              unknown == PidsOf(job) \ DOMAIN table.done
          IN  /\ table' = WithDone(RemoveJobByPidPreserveStatus(table, job.last),
                                  PutAll(table.done, unknown, 0))
              /\ kids' = kids \ {job.last}
              /\ assumed' = assumed \cup unknown
              /\ told' = told \cup PidsOf(job)
    /\ UNCHANGED <<sig, os, pend, notices, fgMoved, lastBg, real, released, ans>>

-----------------------------------------------------------------------------
(* fg and bg *)

\* A process group that is continued.
Continued(O, S) == [p \in DOMAIN O |-> IF p \in S THEN Delivered(O[p], "CONT") ELSE O[p]]

WithBackground(T, j, on) ==
    IF j \in DOMAIN T.jobs THEN WithEntry(T, j, [T.jobs[j] EXCEPT !.background = on]) ELSE T

\* mark_running for every member of the job that is recorded stopped.
ResumeStopped(T, j) ==
    LET job == T.jobs[j]
        procs == [p \in PidsOf(job) |->
                     IF job.procs[p].state = "Stopped"
                     THEN [job.procs[p] EXCEPT !.state = "Running"] ELSE job.procs[p]]
    IN  WithEntry(T, j, RecomputeJob([job EXCEPT !.procs = procs]))

\* wait_for_fg_job_control hands a single process without a handle, which is
\* dead, to the ordinary wait; without a terminal every job goes there.
WaitsOnTerminal(W, j) ==
    Channel /\ (PidsOf(W.tab.jobs[j]) = {W.tab.jobs[j].last} => W.tab.jobs[j].last \in W.kids)

\* execute_fg_jobs up to the wait, for a job started under job control.
ToForeground(W, j) ==
    [W EXCEPT !.tab = WithBackground(ResumeStopped(SetCurrentJob(W.tab, j), j), j, FALSE),
              !.os = Continued(W.os, PidsOf(W.tab.jobs[j]))]

Fg ==
    /\ Starts("fg")
    /\ Monitor
    /\ \E W \in {Refresh(Now, TRUE, FALSE, FALSE, 0)} :
       \E j \in DOMAIN W.tab.jobs :
              LET p == W.tab.jobs[j].last
              IN  /\ W.tab.jobs[j].job_control
                  /\ p \in W.kids \cup DOMAIN W.tab.done
                  /\ ~WaitsOnTerminal(W, j)
                  /\ Becomes(ToForeground(W, j))
                  /\ pc' = [at |-> "fg", pid |-> p]
    /\ fgMoved' = FALSE
    /\ UNCHANGED <<lastBg, real, ghost>>

\* The wait of fg without a terminal, and what follows it.
FgWait ==
    /\ pc.at = "fg"
    /\ \E p \in {pc.pid}, R \in {WaitForBackgroundPid(Now, pc.pid, FALSE, FALSE)} :
          LET T == R.after.tab
          IN  /\ R.kind # "blocked"
              /\ \E W \in {[R.after EXCEPT !.tab = IF R.kind = "status"
                                                    THEN RemoveJobByPidPreserveStatus(T, p) ELSE T]} :
                     Becomes(W)
              /\ ans' = [kind |-> R.kind, pid |-> p, status |-> R.status, forced |-> FALSE]
              /\ Tell(Members(table, {p}))
    /\ pc' = Reading
    /\ UNCHANGED <<fgMoved, lastBg, real, released, assumed>>

\* A trapped signal ends the wait of fg: the job stays out of the background.
FgInterrupted ==
    /\ "trap" \in Commands
    /\ pc.at = "fg"
    /\ pc' = Reading
    /\ UNCHANGED <<table, sig, kids, pend, notices, fgMoved, lastBg, os, real, ghost>>

\* execute_bg_jobs: anything but a running job is continued.
Bg ==
    /\ Runs("bg")
    /\ Monitor
    /\ \E j \in DOMAIN table.jobs :
          LET job == table.jobs[j]
          IN  /\ job.job_control
              /\ job.state # "Running"
              /\ os' = Continued(os, PidsOf(job))
              /\ table' = ResetCurrent(WithBackground(MarkRunning(table, job.last), j, TRUE))
    /\ UNCHANGED <<sig, kids, pend, notices, fgMoved, lastBg, real, ghost>>

-----------------------------------------------------------------------------
ShellInit ==
    /\ Init
    /\ sig = NoSignals
    /\ os = [p \in Pids |-> "unborn"]
    /\ real = [p \in Pids |-> NoStatus]
    /\ kids = {} /\ pend = {} /\ notices = {}
    /\ fgMoved = FALSE
    /\ lastBg = NoPid
    /\ pc = Reading
    /\ told = {} /\ released = {} /\ assumed = {}
    /\ ans = NoAnswer

ShellNext ==
    \/ NewLine \/ NextInList \/ NextNested
    \/ OtherCommand \/ Launch \/ Foreground \/ LoopBody
    \/ \E p \in Pids : Exits(p) \/ ContinuedElsewhere(p)
    \/ \E p \in Pids, s \in {"STOP", "CONT", "KILL"} : Kill(p, s)
    \/ WaitOperands \/ WaitBare \/ WaitForNothing \/ WaitNext \/ WaitEnd
    \/ WaitAny \/ WaitAnyPoll \/ Interrupted
    \/ Jobs \/ DisownAll \/ DisownRunning \/ DisownJob
    \/ Fg \/ FgWait \/ FgInterrupted \/ Bg

ShellSpec == ShellInit /\ [][ShellNext]_vars

\* The shell runs: it takes the next step of a wait when there is one, and a
\* reader that goes on gets to the end of its line.  Nothing is assumed of
\* the processes or of the user.  These are weak fairness of WaitStep and
\* strong fairness of NewLine, with their ENABLED spelled out.
WaitStep == WaitNext \/ WaitEnd \/ WaitAnyPoll \/ FgWait

WaitStepReady ==
    \/ pc.at = "wait" /\ (pc.todo = << >> \/ Head(pc.todo) \in pc.unknown)
    \/ /\ pc.at = "wait" /\ pc.todo # << >>
       /\ WaitForBackgroundPid(Now, Head(pc.todo), ~pc.bare, pc.force).kind # "blocked"
    \/ pc.at = "any" /\ kids \subseteq {p \in Pids : os[p] = "zombie"}
    \/ pc.at = "fg" /\ WaitForBackgroundPid(Now, pc.pid, FALSE, FALSE).kind # "blocked"

ShellFairness ==
    /\ []<>(pc = Reading) => []<><<NewLine>>_vars
    /\ <>[]WaitStepReady => []<><<WaitStep>>_vars

FairShellSpec == ShellSpec /\ ShellFairness

-----------------------------------------------------------------------------
(* What job control promises. *)

\* The processes a wait in the foreground accounts for (TerminalJobs).
Attended == IF pc.at \in {"new", "resumed"} THEN pc.pids ELSE {}

\* A wait answers with the status the process really died with, however its
\* death was learnt, stashed and published; only disown made one up (0).
WaitTruth ==
    ans.kind \in {"status", "any"} =>
        ans.status = real[ans.pid] \/ (ans.pid \in assumed /\ ans.status = 0)

\* A wait for a child of this shell finds it, unless the user let it go.
WaitKnowsChildren ==
    ans.kind = "notfound" /\ ~ans.forced => ans.pid \in released

\* A death the shell has collected from the system is not lost: it waits to
\* be published, or its status is saved for a later wait.
StatusKept ==
    \A p \in Pids \ Attended :
        os[p] = "reaped" => p \in pend \cup DOMAIN table.done \cup released

\* No job leaves the table before the user was told it is dead, or let it go.
NoSilentLoss ==
    \A p \in Pids \ Attended :
        os[p] = "reaped" /\ p \notin pend => p \in DOMAIN table.p2j \cup told

\* A process the table shows alive is one the shell can still learn the death
\* of: its handle is held or its death waits to be published.
JobsAreWatched ==
    \A p \in DOMAIN table.p2j \ Attended :
        table.jobs[table.p2j[p]].procs[p].state # "Completed" => p \in kids \cup pend

\* A death that was collected and published stays published: the entry says
\* Completed from then on.
PublishedDeathsStay ==
    \A p \in DOMAIN table.p2j \ Attended :
        os[p] = "reaped" /\ p \notin pend =>
            table.jobs[table.p2j[p]].procs[p].state = "Completed"

\* As long as the shell gets back to its reader, the death of a child it has
\* the handle of is collected and published, whatever stashed it on the way.
DeathsArePublished ==
    []<>(pc = Reading) =>
        \A p \in Pids : (os[p] = "zombie" /\ p \in kids) ~> (p \notin kids \cup pend)

\* A wait returns once all the children are dead: none polls for a child that
\* was collected elsewhere or is not there.
WaitsReturn ==
    (pc.at \in {"wait", "any", "fg"} /\ \A p \in kids : os[p] = "zombie") ~> (pc = Reading)
=============================================================================
