------------------------------ MODULE JobTable ------------------------------
(***************************************************************************)
(* The shell's job table: src/src/jobs/table.rs.                           *)
(*                                                                         *)
(* The table is one record, so that the executor's handlers (JobControl),  *)
(* which call several of its methods in a row, are compositions of the     *)
(* operators below.  Each operator is one method of `impl JobTable'.       *)
(*                                                                         *)
(*   jobs   jobs                  job number -> entry                      *)
(*   p2j    pid_to_job            pid -> job number                        *)
(*   done   completed_statuses    pid -> saved exit status (bgpids)        *)
(*   cur    current_job, prev     previous_job; NoJob stands for None      *)
(*                                                                         *)
(* The remaining fields (deferred_state_marks, fresh_fatal_marks and the   *)
(* reader's clock) are in JobSignals: their methods reach the fields here  *)
(* only by calling mark_stopped and mark_running.                          *)
(*                                                                         *)
(* Command text, process groups, the nohup flag, stop signals and coproc   *)
(* descriptors decide nothing here and are left out; `foreground' is       *)
(* always the negation of `background'.                                    *)
(***************************************************************************)
EXTENDS Integers, Sequences, FiniteSets

CONSTANTS
    Pids,        \* process ids the operating system may hand out
    Statuses,    \* exit statuses (128+signal for a process killed by one)
    NoPid,       \* the value of $! before the first background command
    MaxJobId,    \* bound: no job gets a higher number
    ChildMax     \* CHILD_MAX of reap_dead_jobs

NoJob == 0
NoStatus == -1

ASSUME JobTableAssumption ==
    /\ MaxJobId \in Nat
    /\ ChildMax \in Nat
    /\ Statuses \subseteq Nat
    /\ NoPid \notin Pids

JobIds == 1..MaxJobId

\* The maps from some of the elements of S to elements of V.
Maps(S, V) == UNION {[D -> V] : D \in SUBSET S}

States == {"Running", "Stopped", "Completed"}

Process == [state : States, exit : Statuses \cup {NoStatus}]

\* A job entry.  `pids' is the domain of `procs'; only the last pid of the
\* pipeline has a meaning of its own (it is $! and gives the exit status).
JobEntry ==
    [procs : Maps(Pids, Process),
     last : Pids,
     state : States,
     exit : Statuses \cup {NoStatus},
     background : BOOLEAN,
     notified : BOOLEAN,
     job_control : BOOLEAN]

EmptyFn == [x \in {} |-> x]

EmptyTable ==
    [jobs |-> EmptyFn, p2j |-> EmptyFn, done |-> EmptyFn,
     cur |-> NoJob, prev |-> NoJob]

\* The table with other entries and index, other markers, other statuses.
WithJobs(T, jobs, p2j) ==
    [jobs |-> jobs, p2j |-> p2j, done |-> T.done, cur |-> T.cur, prev |-> T.prev]
WithMarkers(T, cur, prev) ==
    [jobs |-> T.jobs, p2j |-> T.p2j, done |-> T.done, cur |-> cur, prev |-> prev]
WithDone(T, done) ==
    [jobs |-> T.jobs, p2j |-> T.p2j, done |-> done, cur |-> T.cur, prev |-> T.prev]

-----------------------------------------------------------------------------
(* Maps: insert, and remove a set of keys. *)

Put(f, k, v) == [x \in (DOMAIN f) \cup {k} |-> IF x = k THEN v ELSE f[x]]
PutAll(f, S, v) == [x \in (DOMAIN f) \cup S |-> IF x \in S THEN v ELSE f[x]]
Override(f, g) == [x \in (DOMAIN f) \cup (DOMAIN g) |-> IF x \in DOMAIN g THEN g[x] ELSE f[x]]
Drop(f, S) == [x \in (DOMAIN f) \ S |-> f[x]]

-----------------------------------------------------------------------------
(* Queries. *)

PidsOf(job) == DOMAIN job.procs

InState(T, st) == {j \in DOMAIN T.jobs : T.jobs[j].state = st}

IsStopped(T, j) == j \in InState(T, "Stopped")

Newest(S) == CHOOSE x \in S : \A y \in S : y <= x

\* most_recent_in_state: the newest job below a number, NoJob if none.
MostRecentInState(T, below, st) ==
    LET S == {j \in InState(T, st) : j < below}
    IN  IF S = {} THEN NoJob ELSE Newest(S)

\* job_recorded_stopped
JobRecordedStopped(T, p) == p \in DOMAIN T.p2j /\ IsStopped(T, T.p2j[p])

-----------------------------------------------------------------------------
(* The current and previous job markers. *)

\* set_current_job: the previous job is the old current one while that is
\* stopped, else the newest stopped job older than a stopped current job,
\* else the newest running job (older than a current job that is not
\* stopped), else the current job itself.
SetCurrentJob(T, id) ==
    LET displaced == IF T.cur # id THEN T.cur ELSE T.prev
        older == MostRecentInState(T, id, "Stopped")
        running == MostRecentInState(T, IF IsStopped(T, id) THEN MaxJobId + 1 ELSE id,
                                     "Running")
        previous ==
            IF displaced # id /\ IsStopped(T, displaced) THEN displaced
            ELSE IF IsStopped(T, id) /\ older # NoJob THEN older
            ELSE IF running # NoJob THEN running
            ELSE id
    IN  WithMarkers(T, id, previous)

\* clear_current_markers
ClearCurrentMarkers(T) == WithMarkers(T, NoJob, NoJob)

\* reset_current: keep a stopped current job, else a stopped previous one,
\* else the newest stopped, else the newest running job.
ResetCurrent(T) ==
    LET stopped == MostRecentInState(T, MaxJobId + 1, "Stopped")
        candidate ==
            IF IsStopped(T, T.cur) THEN T.cur
            ELSE IF IsStopped(T, T.prev) THEN T.prev
            ELSE IF stopped # NoJob THEN stopped
            ELSE MostRecentInState(T, MaxJobId + 1, "Running")
    IN  IF candidate = NoJob THEN ClearCurrentMarkers(T)
                             ELSE SetCurrentJob(T, candidate)

-----------------------------------------------------------------------------
(* Removing entries. *)

\* A removal that forgets to look at the previous marker.
MutDeleteJobs(T, D) ==
    LET gone == UNION {PidsOf(T.jobs[j]) : j \in D}
        T1 == WithJobs(T, Drop(T.jobs, D), Drop(T.p2j, gone))
    IN  IF T.cur \in D THEN ResetCurrent(T1) ELSE T1

\* The common part of the removals: the entries and their pids go, and the
\* markers are reset only when one of the removed jobs held one.
DeleteJobs(T, D) ==
    LET gone == UNION {PidsOf(T.jobs[j]) : j \in D}
        T1 == WithJobs(T, Drop(T.jobs, D), Drop(T.p2j, gone))
    IN  IF T.cur \in D \/ T.prev \in D THEN ResetCurrent(T1) ELSE T1

\* cleanup_dead_jobs: saved statuses stay.
CleanupDeadJobs(T) ==
    DeleteJobs(T, {j \in InState(T, "Completed") : T.jobs[j].notified})

\* remove_job: the saved statuses of its processes go too.
RemoveJob(T, j) ==
    IF j \in DOMAIN T.jobs
    THEN DeleteJobs(WithDone(T, Drop(T.done, PidsOf(T.jobs[j]))), {j})
    ELSE T

\* remove_job_by_pid
RemoveJobByPid(T, p) == IF p \in DOMAIN T.p2j THEN RemoveJob(T, T.p2j[p]) ELSE T

\* remove_job_by_pid_preserve_status
RemoveJobByPidPreserveStatus(T, p) ==
    IF p \in DOMAIN T.p2j /\ T.p2j[p] \in DOMAIN T.jobs
    THEN DeleteJobs(T, {T.p2j[p]})
    ELSE T

\* clear_jobs (clear_for_subshell also drops the procsub placeholders).
ClearJobs(T) == EmptyTable

-----------------------------------------------------------------------------
(* Registration and the process transitions. *)

NewJob(ps, last, bg) ==
    [procs |-> [p \in ps |-> [state |-> "Running", exit |-> NoStatus]],
     last |-> last, state |-> "Running", exit |-> NoStatus,
     background |-> bg, notified |-> FALSE, job_control |-> FALSE]

\* Numbering from the count of jobs, and from zero.
MutNextJobId(T) == Cardinality(DOMAIN T.jobs) + 1
MutNextJobIdZero(T) == IF DOMAIN T.jobs = {} THEN 0 ELSE Newest(DOMAIN T.jobs) + 1

\* The number the next job gets: one above the highest in use.
NextJobId(T) == IF DOMAIN T.jobs = {} THEN 1 ELSE Newest(DOMAIN T.jobs) + 1

\* register_pipeline_stages; register_process is the case of one pid.
RegisterPipeline(T, ps, last, bg) ==
    LET T1 == CleanupDeadJobs(T)
        id == NextJobId(T1)
    IN  SetCurrentJob(WithJobs(T1, Put(T1.jobs, id, NewJob(ps, last, bg)),
                                   PutAll(T1.p2j, ps, id)), id)

\* recompute_job: the job's state and exit status follow its processes'.
StateOf(procs) ==
    IF \E p \in DOMAIN procs : procs[p].state = "Running" THEN "Running"
    ELSE IF \E p \in DOMAIN procs : procs[p].state = "Stopped" THEN "Stopped"
    ELSE "Completed"

\* Keeping the exit status a process reported before it stopped or went on.
MutRecomputeJob(job) == [job EXCEPT !.state = StateOf(job.procs)]

RecomputeJob(job) ==
    [job EXCEPT !.state = StateOf(job.procs), !.exit = job.procs[job.last].exit]

\* The entry of p's job after p moved to a state (with an exit status when
\* it completed) and the notified flag took a value.
WithProcess(job, p, st, ex, noted) ==
    RecomputeJob(
        [job EXCEPT !.procs = [job.procs EXCEPT ![p] = [state |-> st, exit |-> ex]],
                    !.notified = noted])

WithEntry(T, id, job) == WithJobs(T, Put(T.jobs, id, job), T.p2j)

\* mark_completed: the status is saved even for a pid without a job.
MarkCompleted(T, p, s) ==
    LET T1 == WithDone(T, Put(T.done, p, s))
    IN  IF p \notin DOMAIN T.p2j THEN T1
        ELSE WithEntry(T1, T.p2j[p],
                       WithProcess(T.jobs[T.p2j[p]], p, "Completed", s, FALSE))

\* mark_completed for every pid of a map from pids to statuses, in any order:
\* reap_finished, and the loops over reaped children of the executor.
MutWithDeaths(job, died) ==
    RecomputeJob([job EXCEPT !.procs =
        [p \in PidsOf(job) |-> IF p \in DOMAIN died
                               THEN [state |-> "Completed", exit |-> died[p]] ELSE job.procs[p]]])

WithDeaths(job, died) ==
    LET procs == [p \in PidsOf(job) |->
                     IF p \in DOMAIN died THEN [state |-> "Completed", exit |-> died[p]]
                     ELSE job.procs[p]]
    IN  RecomputeJob([job EXCEPT !.procs = procs, !.notified = FALSE])

ReapFinished(T, died) ==
    WithDone(WithJobs(T, [j \in DOMAIN T.jobs |->
                             IF PidsOf(T.jobs[j]) \cap DOMAIN died # {}
                             THEN WithDeaths(T.jobs[j], died) ELSE T.jobs[j]], T.p2j),
             Override(T.done, died))

\* mark_stopped: the stopped job becomes the current job.
MarkStopped(T, p) ==
    IF p \notin DOMAIN T.p2j THEN T
    ELSE LET id == T.p2j[p]
             job == T.jobs[id]
         IN  SetCurrentJob(
                 WithEntry(T, id, WithProcess(job, p, "Stopped", job.procs[p].exit, FALSE)),
                 id)

\* mark_running: neither the markers nor the notified flag change.
MarkRunning(T, p) ==
    IF p \notin DOMAIN T.p2j THEN T
    ELSE LET id == T.p2j[p]
             job == T.jobs[id]
         IN  WithEntry(T, id, WithProcess(job, p, "Running", job.procs[p].exit, job.notified))

\* set_job_control
SetJobControl(T, p, on) ==
    IF p \in DOMAIN T.p2j
    THEN WithEntry(T, T.p2j[p], [T.jobs[T.p2j[p]] EXCEPT !.job_control = on]) ELSE T

-----------------------------------------------------------------------------
(* Notification. *)

NotifyJobs(T, D) ==
    WithJobs(T, [j \in DOMAIN T.jobs |-> IF j \in D THEN [T.jobs[j] EXCEPT !.notified = TRUE]
                                                    ELSE T.jobs[j]], T.p2j)

\* mark_job_notified_by_pid, for one pid and for several.
NotifyByPids(T, S) == NotifyJobs(T, {T.p2j[p] : p \in S \cap DOMAIN T.p2j})
MarkJobNotifiedByPid(T, p) == NotifyByPids(T, {p})

\* clear_completed_statuses
ClearCompletedStatuses(T) == WithDone(T, EmptyFn)

\* settle_bare_wait: the job of $! stays unless every dead job is forced.
SettleBareWait(T, lastAsync, forceAll) ==
    LET D == {j \in InState(T, "Completed") : forceAll \/ T.jobs[j].last # lastAsync}
    IN  ClearCompletedStatuses(CleanupDeadJobs(NotifyJobs(T, D)))

\* The dead processes of the jobs of D.
DeadProcesses(T, D) == Cardinality(UNION {PidsOf(T.jobs[j]) : j \in D})

\* reap_dead_jobs: oldest first, dead jobs are marked while more than
\* CHILD_MAX dead processes would be kept; the job of $! is skipped.
ReapDeadJobs(T, lastAsync) ==
    LET dead == InState(T, "Completed")
        candidates == {j \in dead : T.jobs[j].last # lastAsync}
        keptAt(j) == DeadProcesses(T, dead)
                     - DeadProcesses(T, {i \in candidates : i < j})
    IN  CleanupDeadJobs(NotifyJobs(T, {j \in candidates : keptAt(j) > ChildMax}))

-----------------------------------------------------------------------------
(***************************************************************************)
(* The table on its own: any sequence of method calls with any arguments   *)
(* the executor could pass.  Pids are handed out by the operating system,  *)
(* so a new job's pids are none the table still indexes.                   *)
(***************************************************************************)
VARIABLE table

Init == table = EmptyTable

Register ==
    \E ps \in SUBSET Pids : \E last \in ps, bg \in BOOLEAN :
        LET T1 == CleanupDeadJobs(table)
        IN  /\ ps \cap DOMAIN T1.p2j = {}
            /\ NextJobId(T1) <= MaxJobId
            /\ table' = RegisterPipeline(table, ps, last, bg)

Complete == \E p \in Pids, s \in Statuses : table' = MarkCompleted(table, p, s)
CompleteAll ==
    \E S \in SUBSET Pids, s \in Statuses : table' = ReapFinished(table, [p \in S |-> s])
Stop == \E p \in Pids : table' = MarkStopped(table, p)
Continue == \E p \in Pids : table' = MarkRunning(table, p)
Cleanup == table' = CleanupDeadJobs(table)
Notify == \E p \in Pids : table' = MarkJobNotifiedByPid(table, p)
FlagJobControl == \E p \in Pids, on \in BOOLEAN : table' = SetJobControl(table, p, on)
BareWait ==
    \E p \in Pids \cup {NoPid}, all \in BOOLEAN : table' = SettleBareWait(table, p, all)
Reap == \E p \in Pids \cup {NoPid} : table' = ReapDeadJobs(table, p)
Remove == \E j \in JobIds : table' = RemoveJob(table, j)
RemoveByPid == \E p \in Pids : table' = RemoveJobByPid(table, p)
RemovePreserving == \E p \in Pids : table' = RemoveJobByPidPreserveStatus(table, p)
Clear == table' = ClearJobs(table)
ClearMarkers == table' = ClearCurrentMarkers(table)
Reset == table' = ResetCurrent(table)
Select == \E j \in DOMAIN table.jobs : table' = SetCurrentJob(table, j)

Next ==
    \/ Register \/ Complete \/ CompleteAll \/ Stop \/ Continue \/ Cleanup \/ Notify \/ FlagJobControl
    \/ BareWait \/ Reap \/ Remove \/ RemoveByPid \/ RemovePreserving \/ Clear
    \/ ClearMarkers \/ Reset \/ Select

Spec == Init /\ [][Next]_table

-----------------------------------------------------------------------------
(* What every method preserves. *)

IsMap(f, S, V) == DOMAIN f \subseteq S /\ f \in [DOMAIN f -> V]

\* The fields have their types.
TypeCorrect(T) ==
    /\ T = [jobs |-> T.jobs, p2j |-> T.p2j, done |-> T.done, cur |-> T.cur, prev |-> T.prev]
    /\ IsMap(T.jobs, JobIds, JobEntry)
    /\ IsMap(T.p2j, Pids, JobIds)
    /\ IsMap(T.done, Pids, Statuses)
    /\ {T.cur, T.prev} \subseteq JobIds \cup {NoJob}

\* pid_to_job and the entries describe the same processes: a pid is indexed
\* under a job exactly when that job lists it, so no pid is in two jobs.
IndexAgrees(T) ==
    /\ \A p \in DOMAIN T.p2j :
           T.p2j[p] \in DOMAIN T.jobs /\ p \in PidsOf(T.jobs[T.p2j[p]])
    /\ \A j \in DOMAIN T.jobs : \A p \in PidsOf(T.jobs[j]) :
           p \in DOMAIN T.p2j /\ T.p2j[p] = j

\* The state and the exit status recorded for a job are those of its
\* processes, whatever order their reports came in.
JobsFollowProcesses(T) ==
    \A j \in DOMAIN T.jobs :
        LET job == T.jobs[j]
        IN  /\ job.last \in PidsOf(job)
            /\ job.state = StateOf(job.procs)
            /\ job.exit = job.procs[job.last].exit

\* `+' and `-' are both set or both clear, and name jobs of the table.
MarkersValid(T) ==
    /\ T.cur = NoJob <=> T.prev = NoJob
    /\ T.cur # NoJob => {T.cur, T.prev} \subseteq DOMAIN T.jobs

\* Type correctness of the whole table.
TypeOK == TypeCorrect(table)

\* The pid index of register/remove/cleanup never diverges from the entries.
IndexConsistent == IndexAgrees(table)

\* recompute_job runs on every path that touches a process.
RecomputedAlways == JobsFollowProcesses(table)

\* No removal leaves a marker on a job that is gone, so `%+' and `%-' never
\* resolve to a missing entry.
MarkersPointToJobs == MarkersValid(table)
=============================================================================
