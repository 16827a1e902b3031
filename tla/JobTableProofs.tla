--------------------------- MODULE JobTableProofs ---------------------------
(***************************************************************************)
(* Proofs that every method of the job table preserves its invariant, for  *)
(* any set of pids and statuses and any bound on job numbers.              *)
(*                                                                         *)
(* TableInv is inductive: the type alone is not (a removal finds the pids  *)
(* to unindex through the entry, recompute_job reads the last pid's        *)
(* record), so it carries the agreement of the index with the entries and  *)
(* of the entries with their processes.  Core is TableInv without the      *)
(* markers: set_current_job and reset_current repair the markers of any    *)
(* table that satisfies Core.                                              *)
(***************************************************************************)
EXTENDS JobTable, TLAPS, WellFoundedInduction, NaturalsInduction

Core(T) == TypeCorrect(T) /\ IndexAgrees(T) /\ JobsFollowProcesses(T)

TableInv(T) == Core(T) /\ MarkersValid(T)

-----------------------------------------------------------------------------
(* Numbers: a set of job numbers that is not empty has a newest element. *)

\* Newest(S) is the largest element of S (the `next_back' and `rev().find'
\* of the code's ordered map).
LEMMA NewestIsMax ==
    ASSUME NEW S, S \subseteq JobIds, S # {}
    PROVE  Newest(S) \in S /\ \A y \in S : y <= Newest(S)
<1> DEFINE R == {MaxJobId - x : x \in S}
<1>0. MaxJobId \in Nat /\ S \subseteq 1..MaxJobId
  BY JobTableAssumption DEF JobIds
<1>1. R \subseteq Nat /\ R # {}
  <2>1. ASSUME NEW x \in S PROVE MaxJobId - x \in Nat
    BY <1>0
  <2> QED
    BY <2>1
<1>2. \E m \in R : \A y \in R : ~(<<y, m>> \in OpToRel(<, Nat))
  BY <1>1, NatLessThanWellFounded, WFMin, Zenon
<1>3. PICK m \in R : \A y \in R : ~(<<y, m>> \in OpToRel(<, Nat))
  BY <1>2, Zenon
<1>4. \A y \in R : ~(y < m)
  BY <1>1, <1>3 DEF OpToRel
<1>5. PICK x \in S : m = MaxJobId - x
  BY <1>3
<1>6. ASSUME NEW y \in S PROVE y <= x
  <2>1. MaxJobId - y \in R
    OBVIOUS
  <2>2. x \in Int /\ y \in Int /\ MaxJobId \in Int
    BY <1>0
  <2> HIDE DEF R
  <2>3. ~(MaxJobId - y < MaxJobId - x)
    BY <1>4, <1>5, <2>1
  <2> QED
    BY <2>2, <2>3
<1>7. \E z \in S : \A y \in S : y <= z
  BY <1>6
<1> QED
  BY <1>7 DEF Newest

\* MostRecentInState answers NoJob or a job of the table in that state.
LEMMA MostRecentInTable ==
    ASSUME NEW T, DOMAIN T.jobs \subseteq JobIds, NEW below, NEW st
    PROVE  LET m == MostRecentInState(T, below, st)
           IN  m = NoJob \/ (m \in DOMAIN T.jobs /\ m # NoJob /\ T.jobs[m].state = st)
<1> DEFINE S == {j \in InState(T, st) : j < below}
<1>1. S \subseteq JobIds
  BY DEF InState
<1>2. CASE S = {}
  BY <1>2 DEF MostRecentInState
<1>3. CASE S # {}
  <2>1. Newest(S) \in S
    BY <1>1, <1>3, NewestIsMax
  <2>2. Newest(S) \in DOMAIN T.jobs /\ T.jobs[Newest(S)].state = st
    BY <2>1 DEF InState
  <2>3. Newest(S) # NoJob
    BY <2>1, <1>1 DEF JobIds, NoJob
  <2> QED
    BY <2>2, <2>3, <1>3 DEF MostRecentInState
<1> QED
  BY <1>2, <1>3

-----------------------------------------------------------------------------
(* The markers. *)

\* Markers are no part of Core.
LEMMA CoreWithMarkers ==
    ASSUME NEW T, Core(T), NEW c \in JobIds \cup {NoJob}, NEW d \in JobIds \cup {NoJob}
    PROVE  LET U == WithMarkers(T, c, d)
           IN  Core(U) /\ U.cur = c /\ U.prev = d /\ U.jobs = T.jobs
<1> DEFINE U == WithMarkers(T, c, d)
<1>1. U = [jobs |-> T.jobs, p2j |-> T.p2j, done |-> T.done, cur |-> c, prev |-> d]
  BY DEF WithMarkers
<1>2. TypeCorrect(U)
  BY <1>1 DEF Core, TypeCorrect
<1>3. IndexAgrees(U)
  BY <1>1 DEF Core, IndexAgrees
<1>4. JobsFollowProcesses(U)
  BY <1>1 DEF Core, JobsFollowProcesses
<1> QED
  BY <1>1, <1>2, <1>3, <1>4 DEF Core

\* set_current_job on a job of the table gives valid markers, whatever they
\* were before, and keeps the rest.
LEMMA SetCurrentJobRepairs ==
    ASSUME NEW T, Core(T), NEW id \in DOMAIN T.jobs
    PROVE  TableInv(SetCurrentJob(T, id))
<1> DEFINE U == SetCurrentJob(T, id)
<1>1. DOMAIN T.jobs \subseteq JobIds
  BY DEF Core, TypeCorrect, IsMap
<1>2. \A st, b : LET m == MostRecentInState(T, b, st) IN m = NoJob \/ m \in DOMAIN T.jobs
  BY <1>1, MostRecentInTable
<1>3. \A j : IsStopped(T, j) => j \in DOMAIN T.jobs
  BY DEF IsStopped, InState
<1>4. PICK d \in DOMAIN T.jobs : U = WithMarkers(T, id, d)
  BY <1>2, <1>3 DEF SetCurrentJob
<1>5. Core(U) /\ U.cur = id /\ U.prev = d /\ U.jobs = T.jobs
  BY <1>4, <1>1, CoreWithMarkers
<1>6. id # NoJob /\ d # NoJob
  BY <1>1 DEF JobIds, NoJob
<1> QED
  BY <1>5, <1>6 DEF TableInv, MarkersValid

\* Clearing the markers is always safe.
LEMMA ClearCurrentMarkersOK ==
    ASSUME NEW T, Core(T)
    PROVE  TableInv(ClearCurrentMarkers(T))
<1> DEFINE U == ClearCurrentMarkers(T)
<1>1. Core(U) /\ U.cur = NoJob /\ U.prev = NoJob
  BY CoreWithMarkers DEF ClearCurrentMarkers
<1> QED
  BY <1>1 DEF TableInv, MarkersValid

\* reset_current gives valid markers, whatever they were before.
LEMMA ResetCurrentRepairs ==
    ASSUME NEW T, Core(T)
    PROVE  TableInv(ResetCurrent(T))
<1> DEFINE U == ResetCurrent(T)
<1>1. DOMAIN T.jobs \subseteq JobIds
  BY DEF Core, TypeCorrect, IsMap
<1>2. \A st, b : LET m == MostRecentInState(T, b, st) IN m = NoJob \/ m \in DOMAIN T.jobs
  BY <1>1, MostRecentInTable
<1>3. \A j : IsStopped(T, j) => j \in DOMAIN T.jobs
  BY DEF IsStopped, InState
<1>4. U = ClearCurrentMarkers(T) \/ \E c \in DOMAIN T.jobs : U = SetCurrentJob(T, c)
  BY <1>2, <1>3 DEF ResetCurrent
<1> QED
  BY <1>4, ClearCurrentMarkersOK, SetCurrentJobRepairs

-----------------------------------------------------------------------------
(* Removals. *)

\* Removing entries with their pids, and resetting the markers when one of
\* the removed jobs held one, keeps the invariant.
LEMMA DeleteJobsOK ==
    ASSUME NEW T, TableInv(T), NEW D \in SUBSET DOMAIN T.jobs
    PROVE  TableInv(DeleteJobs(T, D))
<1> DEFINE gone == UNION {PidsOf(T.jobs[j]) : j \in D}
           U == WithJobs(T, Drop(T.jobs, D), Drop(T.p2j, gone))
<1>1. U = [jobs |-> Drop(T.jobs, D), p2j |-> Drop(T.p2j, gone), done |-> T.done,
           cur |-> T.cur, prev |-> T.prev]
  BY DEF WithJobs
<1>2. /\ DOMAIN U.jobs = DOMAIN T.jobs \ D
      /\ \A j \in DOMAIN U.jobs : U.jobs[j] = T.jobs[j]
      /\ DOMAIN U.p2j = DOMAIN T.p2j \ gone
      /\ \A p \in DOMAIN U.p2j : U.p2j[p] = T.p2j[p]
  BY <1>1 DEF Drop
<1>3. TypeCorrect(U)
  <2>1. IsMap(U.jobs, JobIds, JobEntry)
    BY <1>1, <1>2 DEF TableInv, Core, TypeCorrect, IsMap, Drop
  <2>2. IsMap(U.p2j, Pids, JobIds)
    BY <1>1, <1>2 DEF TableInv, Core, TypeCorrect, IsMap, Drop
  <2>3. /\ U.done = T.done /\ U.cur = T.cur /\ U.prev = T.prev
        /\ U = [jobs |-> U.jobs, p2j |-> U.p2j, done |-> U.done, cur |-> U.cur,
                prev |-> U.prev]
    BY DEF WithJobs
  <2> HIDE DEF U
  <2> QED
    BY <2>1, <2>2, <2>3 DEF TableInv, Core, TypeCorrect
<1>4. IndexAgrees(U)
  <2>1. ASSUME NEW p \in DOMAIN U.p2j
        PROVE  U.p2j[p] \in DOMAIN U.jobs /\ p \in PidsOf(U.jobs[U.p2j[p]])
    BY <1>2 DEF TableInv, Core, IndexAgrees
  <2>2. ASSUME NEW j \in DOMAIN U.jobs, NEW p \in PidsOf(U.jobs[j])
        PROVE  p \in DOMAIN U.p2j /\ U.p2j[p] = j
    <3>1. p \in DOMAIN T.p2j /\ T.p2j[p] = j
      BY <1>2, <2>2 DEF TableInv, Core, IndexAgrees
    <3>2. p \notin gone
      BY <3>1, <1>2 DEF TableInv, Core, IndexAgrees
    <3> QED
      BY <3>1, <3>2, <1>2
  <2> QED
    BY <2>1, <2>2 DEF IndexAgrees
<1>5. JobsFollowProcesses(U)
  BY <1>2 DEF TableInv, Core, JobsFollowProcesses
<1>6. Core(U)
  BY <1>3, <1>4, <1>5 DEF Core
<1>7. CASE T.cur \in D \/ T.prev \in D
  BY <1>6, <1>7, ResetCurrentRepairs DEF DeleteJobs
<1>8. CASE ~(T.cur \in D \/ T.prev \in D)
  <2>1. MarkersValid(U)
    BY <1>1, <1>2, <1>8 DEF TableInv, MarkersValid
  <2> QED
    BY <1>6, <1>8, <2>1 DEF DeleteJobs, TableInv
<1> QED
  BY <1>7, <1>8

\* A map of saved statuses may be replaced by another.
LEMMA WithDoneOK ==
    ASSUME NEW T, TableInv(T), NEW d, IsMap(d, Pids, Statuses)
    PROVE  TableInv(WithDone(T, d))
<1> DEFINE U == WithDone(T, d)
<1>1. /\ U.jobs = T.jobs /\ U.p2j = T.p2j /\ U.done = d /\ U.cur = T.cur /\ U.prev = T.prev
      /\ U = [jobs |-> U.jobs, p2j |-> U.p2j, done |-> U.done, cur |-> U.cur, prev |-> U.prev]
  BY DEF WithDone
<1> HIDE DEF U
<1>2. TypeCorrect(U)
  BY <1>1 DEF TableInv, Core, TypeCorrect
<1>3. IndexAgrees(U)
  BY <1>1 DEF TableInv, Core, IndexAgrees
<1>4. JobsFollowProcesses(U)
  BY <1>1 DEF TableInv, Core, JobsFollowProcesses
<1>5. MarkersValid(U)
  BY <1>1 DEF TableInv, MarkersValid
<1> QED
  BY <1>2, <1>3, <1>4, <1>5 DEF TableInv, Core, U

\* cleanup_dead_jobs keeps the invariant.
LEMMA CleanupDeadJobsOK ==
    ASSUME NEW T, TableInv(T)
    PROVE  TableInv(CleanupDeadJobs(T))
BY DeleteJobsOK DEF CleanupDeadJobs, InState

\* remove_job keeps the invariant, and so do its two by-pid forms.
LEMMA RemoveJobOK ==
    ASSUME NEW T, TableInv(T), NEW j
    PROVE  TableInv(RemoveJob(T, j))
<1>1. CASE j \notin DOMAIN T.jobs
  BY <1>1 DEF RemoveJob
<1>2. CASE j \in DOMAIN T.jobs
  <2> DEFINE d == Drop(T.done, PidsOf(T.jobs[j]))
             U == WithDone(T, d)
  <2>1. IsMap(d, Pids, Statuses)
    BY DEF TableInv, Core, TypeCorrect, IsMap, Drop
  <2>2. TableInv(U)
    BY <2>1, WithDoneOK
  <2>3. U.jobs = T.jobs
    BY DEF WithDone
  <2> HIDE DEF U
  <2>4. TableInv(DeleteJobs(U, {j}))
    BY <1>2, <2>2, <2>3, DeleteJobsOK
  <2> QED
    BY <1>2, <2>4 DEF RemoveJob, U
<1> QED
  BY <1>1, <1>2

LEMMA RemoveJobByPidOK ==
    ASSUME NEW T, TableInv(T), NEW p
    PROVE  TableInv(RemoveJobByPid(T, p)) /\ TableInv(RemoveJobByPidPreserveStatus(T, p))
<1>1. TableInv(RemoveJobByPid(T, p))
  BY RemoveJobOK DEF RemoveJobByPid
<1>2. TableInv(RemoveJobByPidPreserveStatus(T, p))
  BY DeleteJobsOK DEF RemoveJobByPidPreserveStatus
<1> QED
  BY <1>1, <1>2

\* The empty table satisfies the invariant.
LEMMA EmptyTableOK == TableInv(EmptyTable)
<1>1. TypeCorrect(EmptyTable)
  BY DEF EmptyTable, TypeCorrect, IsMap, EmptyFn
<1>2. IndexAgrees(EmptyTable) /\ JobsFollowProcesses(EmptyTable) /\ MarkersValid(EmptyTable)
  BY DEF EmptyTable, IndexAgrees, JobsFollowProcesses, MarkersValid, EmptyFn
<1> QED
  BY <1>1, <1>2 DEF TableInv, Core

-----------------------------------------------------------------------------
(* Entries. *)

\* An entry whose recorded state and status follow its processes.
Derived(job) ==
    /\ job \in JobEntry
    /\ job.last \in PidsOf(job)
    /\ job.state = StateOf(job.procs)
    /\ job.exit = job.procs[job.last].exit

\* Exchanging an entry for a derived one over the same processes keeps Core,
\* and the markers.
LEMMA WithEntryOK ==
    ASSUME NEW T, Core(T), NEW id \in DOMAIN T.jobs, NEW job,
           Derived(job), PidsOf(job) = PidsOf(T.jobs[id])
    PROVE  LET U == WithEntry(T, id, job)
           IN  Core(U) /\ DOMAIN U.jobs = DOMAIN T.jobs /\ (MarkersValid(T) => MarkersValid(U))
<1> DEFINE U == WithEntry(T, id, job)
<1>1. /\ U.jobs = Put(T.jobs, id, job) /\ U.p2j = T.p2j /\ U.done = T.done
      /\ U.cur = T.cur /\ U.prev = T.prev
      /\ U = [jobs |-> U.jobs, p2j |-> U.p2j, done |-> U.done, cur |-> U.cur, prev |-> U.prev]
  BY DEF WithEntry, WithJobs
<1> HIDE DEF U
<1>2. /\ DOMAIN U.jobs = DOMAIN T.jobs
      /\ U.jobs[id] = job
      /\ \A j \in DOMAIN T.jobs : j # id => U.jobs[j] = T.jobs[j]
  BY <1>1 DEF Put
<1>3. IsMap(U.jobs, JobIds, JobEntry)
  BY <1>1, <1>2 DEF Put, Core, TypeCorrect, IsMap, Derived
<1>4. TypeCorrect(U)
  BY <1>1, <1>3 DEF Core, TypeCorrect
<1>5. IndexAgrees(U)
  <2>1. \A j \in DOMAIN T.jobs : PidsOf(U.jobs[j]) = PidsOf(T.jobs[j])
    BY <1>2
  <2> QED
    BY <1>1, <1>2, <2>1 DEF Core, IndexAgrees
<1>6. JobsFollowProcesses(U)
  BY <1>2 DEF Core, JobsFollowProcesses, Derived
<1>7. MarkersValid(T) => MarkersValid(U)
  BY <1>1, <1>2 DEF MarkersValid
<1> QED
  BY <1>2, <1>4, <1>5, <1>6, <1>7 DEF Core, U

\* Every entry of a table is derived.
LEMMA EntriesDerived ==
    ASSUME NEW T, Core(T), NEW j \in DOMAIN T.jobs
    PROVE  Derived(T.jobs[j])
<1>1. T.jobs[j] \in JobEntry
  BY DEF Core, TypeCorrect, IsMap
<1> QED
  BY <1>1 DEF Core, JobsFollowProcesses, Derived

LEMMA MapsAreMaps ==
    ASSUME NEW S, NEW V, NEW f
    PROVE  f \in Maps(S, V) <=> IsMap(f, S, V)
BY DEF Maps, IsMap

LEMMA StateOfType == \A procs : StateOf(procs) \in States
BY DEF StateOf, States

\* recompute_job after one process changed gives a derived entry.
LEMMA WithProcessOK ==
    ASSUME NEW job, Derived(job), NEW p \in PidsOf(job), NEW st \in States,
           NEW ex \in Statuses \cup {NoStatus}, NEW noted \in BOOLEAN
    PROVE  /\ Derived(WithProcess(job, p, st, ex, noted))
           /\ PidsOf(WithProcess(job, p, st, ex, noted)) = PidsOf(job)
<1> DEFINE procs == [job.procs EXCEPT ![p] = [state |-> st, exit |-> ex]]
           mid == [job EXCEPT !.procs = procs, !.notified = noted]
           new == WithProcess(job, p, st, ex, noted)
<1>1. IsMap(job.procs, Pids, Process)
  BY MapsAreMaps DEF Derived, JobEntry
<1>2. DOMAIN procs = PidsOf(job) /\ IsMap(procs, Pids, Process)
  BY <1>1 DEF IsMap, PidsOf, Process
<1>3. procs \in Maps(Pids, Process)
  BY <1>2, MapsAreMaps
<1>4. mid \in JobEntry /\ mid.procs = procs /\ mid.last = job.last
  BY <1>3 DEF Derived, JobEntry
<1>5. new = [mid EXCEPT !.state = StateOf(mid.procs), !.exit = mid.procs[mid.last].exit]
  BY DEF WithProcess, RecomputeJob
<1> HIDE DEF mid, procs, new
<1>6. procs[job.last].exit \in Statuses \cup {NoStatus}
  BY <1>2 DEF Derived, IsMap, Process
<1>7. /\ new \in JobEntry /\ new.procs = procs /\ new.last = job.last
      /\ new.state = StateOf(procs) /\ new.exit = procs[job.last].exit
  BY <1>4, <1>5, <1>6, StateOfType DEF JobEntry
<1>8. PidsOf(new) = PidsOf(job)
  BY <1>2, <1>7 DEF PidsOf
<1> QED
  BY <1>7, <1>8 DEF Derived, new

\* A process the index knows belongs to an entry of the table.
LEMMA IndexedProcess ==
    ASSUME NEW T, Core(T), NEW p \in DOMAIN T.p2j
    PROVE  /\ T.p2j[p] \in DOMAIN T.jobs
           /\ Derived(T.jobs[T.p2j[p]])
           /\ p \in PidsOf(T.jobs[T.p2j[p]])
           /\ T.jobs[T.p2j[p]].procs[p].exit \in Statuses \cup {NoStatus}
           /\ T.jobs[T.p2j[p]].notified \in BOOLEAN
<1> DEFINE job == T.jobs[T.p2j[p]]
<1>1. T.p2j[p] \in DOMAIN T.jobs /\ p \in PidsOf(job)
  BY DEF Core, IndexAgrees
<1>2. Derived(job)
  BY <1>1, EntriesDerived
<1>3. job \in JobEntry
  BY <1>2 DEF Derived
<1> HIDE DEF job
<1>4. job.procs \in Maps(Pids, Process) /\ job.notified \in BOOLEAN
  BY <1>3 DEF JobEntry
<1>5. IsMap(job.procs, Pids, Process)
  BY <1>4, MapsAreMaps
<1>6. job.procs[p] \in Process
  BY <1>1, <1>5 DEF PidsOf, IsMap, job
<1>7. job.procs[p].exit \in Statuses \cup {NoStatus}
  BY <1>6 DEF Process
<1> QED
  BY <1>1, <1>2, <1>4, <1>7 DEF job

\* mark_completed keeps the invariant.
LEMMA MarkCompletedOK ==
    ASSUME NEW T, TableInv(T), NEW p \in Pids, NEW s \in Statuses
    PROVE  TableInv(MarkCompleted(T, p, s))
<1> DEFINE d == Put(T.done, p, s)
           U == WithDone(T, d)
<1>1. IsMap(d, Pids, Statuses)
  BY DEF TableInv, Core, TypeCorrect, IsMap, Put
<1>2. TableInv(U) /\ U.jobs = T.jobs /\ U.p2j = T.p2j
  BY <1>1, WithDoneOK DEF WithDone
<1>3. CASE p \notin DOMAIN T.p2j
  BY <1>2, <1>3 DEF MarkCompleted
<1>4. CASE p \in DOMAIN T.p2j
  <2> DEFINE id == T.p2j[p]
             job == WithProcess(T.jobs[id], p, "Completed", s, FALSE)
  <2>1. id \in DOMAIN T.jobs /\ Derived(T.jobs[id]) /\ p \in PidsOf(T.jobs[id])
    BY <1>4, IndexedProcess DEF TableInv
  <2>2. Derived(job) /\ PidsOf(job) = PidsOf(T.jobs[id])
    BY <2>1, WithProcessOK DEF States
  <2> HIDE DEF id, job, U, d
  <2>3. TableInv(WithEntry(U, id, job))
    BY <1>2, <2>1, <2>2, WithEntryOK DEF TableInv
  <2> QED
    BY <1>4, <2>3 DEF MarkCompleted, U, d, id, job
<1> QED
  BY <1>3, <1>4

\* mark_stopped keeps the invariant.
LEMMA MarkStoppedOK ==
    ASSUME NEW T, TableInv(T), NEW p
    PROVE  TableInv(MarkStopped(T, p))
<1>1. CASE p \notin DOMAIN T.p2j
  BY <1>1 DEF MarkStopped
<1>2. CASE p \in DOMAIN T.p2j
  <2> DEFINE id == T.p2j[p]
             job == WithProcess(T.jobs[id], p, "Stopped", T.jobs[id].procs[p].exit, FALSE)
             U == WithEntry(T, id, job)
  <2>1. /\ id \in DOMAIN T.jobs /\ Derived(T.jobs[id]) /\ p \in PidsOf(T.jobs[id])
        /\ T.jobs[id].procs[p].exit \in Statuses \cup {NoStatus}
    BY <1>2, IndexedProcess DEF TableInv
  <2>2. Derived(job) /\ PidsOf(job) = PidsOf(T.jobs[id])
    BY <2>1, WithProcessOK DEF States
  <2> HIDE DEF id, job
  <2>3. Core(U) /\ DOMAIN U.jobs = DOMAIN T.jobs
    BY <2>1, <2>2, WithEntryOK DEF TableInv
  <2> HIDE DEF U
  <2>4. TableInv(SetCurrentJob(U, id))
    BY <2>1, <2>3, SetCurrentJobRepairs
  <2> QED
    BY <1>2, <2>4 DEF MarkStopped, U, id, job
<1> QED
  BY <1>1, <1>2

\* mark_running keeps the invariant.
LEMMA MarkRunningOK ==
    ASSUME NEW T, TableInv(T), NEW p
    PROVE  TableInv(MarkRunning(T, p))
<1>1. CASE p \notin DOMAIN T.p2j
  BY <1>1 DEF MarkRunning
<1>2. CASE p \in DOMAIN T.p2j
  <2> DEFINE id == T.p2j[p]
             job == WithProcess(T.jobs[id], p, "Running", T.jobs[id].procs[p].exit,
                                T.jobs[id].notified)
             U == WithEntry(T, id, job)
  <2>1. /\ id \in DOMAIN T.jobs /\ Derived(T.jobs[id]) /\ p \in PidsOf(T.jobs[id])
        /\ T.jobs[id].procs[p].exit \in Statuses \cup {NoStatus}
        /\ T.jobs[id].notified \in BOOLEAN
    BY <1>2, IndexedProcess DEF TableInv
  <2>2. Derived(job) /\ PidsOf(job) = PidsOf(T.jobs[id])
    BY <2>1, WithProcessOK DEF States
  <2> HIDE DEF id, job
  <2>3. TableInv(U)
    BY <2>1, <2>2, WithEntryOK DEF TableInv
  <2> QED
    BY <1>2, <2>3 DEF MarkRunning, U, id, job
<1> QED
  BY <1>1, <1>2

\* Setting a flag of an entry keeps it derived.
LEMMA FlagsOK ==
    ASSUME NEW job, Derived(job), NEW on \in BOOLEAN
    PROVE  /\ Derived([job EXCEPT !.job_control = on])
           /\ PidsOf([job EXCEPT !.job_control = on]) = PidsOf(job)
           /\ Derived([job EXCEPT !.notified = on])
           /\ PidsOf([job EXCEPT !.notified = on]) = PidsOf(job)
BY DEF Derived, JobEntry, PidsOf

\* set_job_control keeps the invariant.
LEMMA SetJobControlOK ==
    ASSUME NEW T, TableInv(T), NEW p, NEW on \in BOOLEAN
    PROVE  TableInv(SetJobControl(T, p, on))
<1>1. CASE p \notin DOMAIN T.p2j
  BY <1>1 DEF SetJobControl
<1>2. CASE p \in DOMAIN T.p2j
  <2> DEFINE id == T.p2j[p]
             job == [T.jobs[id] EXCEPT !.job_control = on]
  <2>1. id \in DOMAIN T.jobs /\ Derived(T.jobs[id])
    BY <1>2, IndexedProcess DEF TableInv
  <2>2. Derived(job) /\ PidsOf(job) = PidsOf(T.jobs[id])
    BY <2>1, FlagsOK
  <2> HIDE DEF id, job
  <2>3. TableInv(WithEntry(T, id, job))
    BY <2>1, <2>2, WithEntryOK DEF TableInv
  <2> QED
    BY <1>2, <2>3 DEF SetJobControl, id, job
<1> QED
  BY <1>1, <1>2

\* Exchanging every entry for a derived one over the same processes keeps the
\* invariant.
LEMMA WithEntriesOK ==
    ASSUME NEW T, TableInv(T), NEW J, J = [j \in DOMAIN T.jobs |-> J[j]],
           \A j \in DOMAIN T.jobs : Derived(J[j]) /\ PidsOf(J[j]) = PidsOf(T.jobs[j])
    PROVE  TableInv(WithJobs(T, J, T.p2j))
<1> DEFINE U == WithJobs(T, J, T.p2j)
<1>1. /\ U.jobs = J /\ U.p2j = T.p2j /\ U.done = T.done /\ U.cur = T.cur /\ U.prev = T.prev
      /\ U = [jobs |-> U.jobs, p2j |-> U.p2j, done |-> U.done, cur |-> U.cur, prev |-> U.prev]
  BY DEF WithJobs
<1>2. DOMAIN J = DOMAIN T.jobs
  OBVIOUS
<1>3. J \in [DOMAIN J -> JobEntry]
  BY <1>2 DEF Derived
<1> HIDE DEF U
<1>4. IsMap(U.jobs, JobIds, JobEntry)
  BY <1>1, <1>2, <1>3 DEF TableInv, Core, TypeCorrect, IsMap
<1>5. TypeCorrect(U)
  BY <1>1, <1>4 DEF TableInv, Core, TypeCorrect
<1>6. IndexAgrees(U)
  BY <1>1, <1>2 DEF TableInv, Core, IndexAgrees
<1>7. JobsFollowProcesses(U)
  BY <1>1, <1>2 DEF JobsFollowProcesses, Derived
<1>8. MarkersValid(U)
  BY <1>1, <1>2 DEF TableInv, MarkersValid
<1> QED
  BY <1>5, <1>6, <1>7, <1>8 DEF TableInv, Core, U

\* Marking any set of jobs notified keeps the invariant.
LEMMA NotifyJobsOK ==
    ASSUME NEW T, TableInv(T), NEW D
    PROVE  TableInv(NotifyJobs(T, D))
<1> DEFINE J == [j \in DOMAIN T.jobs |-> IF j \in D THEN [T.jobs[j] EXCEPT !.notified = TRUE]
                                                   ELSE T.jobs[j]]
<1>1. J = [j \in DOMAIN T.jobs |-> J[j]]
  OBVIOUS
<1>2. \A j \in DOMAIN T.jobs : Derived(J[j]) /\ PidsOf(J[j]) = PidsOf(T.jobs[j])
  <2> TAKE j \in DOMAIN T.jobs
  <2>1. Derived(T.jobs[j])
    BY EntriesDerived DEF TableInv
  <2> QED
    BY <2>1, FlagsOK
<1> HIDE DEF J
<1>3. TableInv(WithJobs(T, J, T.p2j))
  BY <1>1, <1>2, WithEntriesOK
<1> QED
  BY <1>3 DEF NotifyJobs, J

\* recompute_job after several processes died gives a derived entry.
LEMMA WithDeathsOK ==
    ASSUME NEW job, Derived(job), NEW died, IsMap(died, Pids, Statuses)
    PROVE  /\ Derived(WithDeaths(job, died))
           /\ PidsOf(WithDeaths(job, died)) = PidsOf(job)
<1> DEFINE procs == [p \in PidsOf(job) |->
                        IF p \in DOMAIN died THEN [state |-> "Completed", exit |-> died[p]]
                        ELSE job.procs[p]]
           mid == [job EXCEPT !.procs = procs, !.notified = FALSE]
           new == WithDeaths(job, died)
<1>1. IsMap(job.procs, Pids, Process)
  BY MapsAreMaps DEF Derived, JobEntry
<1>2. DOMAIN procs = PidsOf(job)
  OBVIOUS
<1>3. \A p \in PidsOf(job) : procs[p] \in Process
  BY <1>1 DEF IsMap, PidsOf, Process, States
<1>4. IsMap(procs, Pids, Process)
  BY <1>1, <1>3 DEF IsMap, PidsOf
<1>5. procs \in Maps(Pids, Process)
  BY <1>4, MapsAreMaps
<1>6. mid \in JobEntry /\ mid.procs = procs /\ mid.last = job.last
  BY <1>5 DEF Derived, JobEntry
<1>7. new = [mid EXCEPT !.state = StateOf(mid.procs), !.exit = mid.procs[mid.last].exit]
  BY DEF WithDeaths, RecomputeJob
<1> HIDE DEF mid, procs, new
<1>8. procs[job.last].exit \in Statuses \cup {NoStatus}
  BY <1>3 DEF Derived, Process
<1>9. /\ new \in JobEntry /\ new.procs = procs /\ new.last = job.last
      /\ new.state = StateOf(procs) /\ new.exit = procs[job.last].exit
  BY <1>6, <1>7, <1>8, StateOfType DEF JobEntry
<1>10. PidsOf(new) = PidsOf(job)
  BY <1>2, <1>9 DEF PidsOf
<1> QED
  BY <1>2, <1>9, <1>10 DEF Derived, new

\* Recording any set of deaths at once keeps the invariant.
LEMMA ReapFinishedOK ==
    ASSUME NEW T, TableInv(T), NEW died, IsMap(died, Pids, Statuses)
    PROVE  TableInv(ReapFinished(T, died))
<1> DEFINE J == [j \in DOMAIN T.jobs |-> IF PidsOf(T.jobs[j]) \cap DOMAIN died # {}
                                         THEN WithDeaths(T.jobs[j], died) ELSE T.jobs[j]]
           U == WithJobs(T, J, T.p2j)
           d == Override(T.done, died)
<1>1. J = [j \in DOMAIN T.jobs |-> J[j]]
  OBVIOUS
<1>2. \A j \in DOMAIN T.jobs : Derived(J[j]) /\ PidsOf(J[j]) = PidsOf(T.jobs[j])
  <2> TAKE j \in DOMAIN T.jobs
  <2>1. Derived(T.jobs[j])
    BY EntriesDerived DEF TableInv
  <2> QED
    BY <2>1, WithDeathsOK
<1> HIDE DEF J
<1>3. TableInv(U)
  BY <1>1, <1>2, WithEntriesOK
<1>4. U.done = T.done
  BY DEF WithJobs
<1>5. IsMap(d, Pids, Statuses)
  BY DEF TableInv, Core, TypeCorrect, IsMap, Override
<1> HIDE DEF U, d
<1>6. TableInv(WithDone(U, d))
  BY <1>3, <1>5, WithDoneOK
<1> QED
  BY <1>6 DEF ReapFinished, U, J, d

\* The passes that mark dead jobs notified and collect them keep the
\* invariant.
LEMMA SettleOK ==
    ASSUME NEW T, TableInv(T), NEW p, NEW all
    PROVE  TableInv(SettleBareWait(T, p, all)) /\ TableInv(ReapDeadJobs(T, p))
<1>1. IsMap(EmptyFn, Pids, Statuses)
  BY DEF IsMap, EmptyFn
<1>2. \A D : TableInv(CleanupDeadJobs(NotifyJobs(T, D)))
  BY NotifyJobsOK, CleanupDeadJobsOK
<1>3. TableInv(SettleBareWait(T, p, all))
  BY <1>1, <1>2, WithDoneOK DEF SettleBareWait, ClearCompletedStatuses
<1>4. TableInv(ReapDeadJobs(T, p))
  BY <1>2 DEF ReapDeadJobs
<1> QED
  BY <1>3, <1>4

\* register_pipeline_stages keeps the invariant when the pids are new to
\* the table: the next number is free, so no entry is overwritten.
LEMMA RegisterOK ==
    ASSUME NEW T, TableInv(T), NEW ps \in SUBSET Pids, NEW last \in ps, NEW bg \in BOOLEAN,
           ps \cap DOMAIN CleanupDeadJobs(T).p2j = {},
           NextJobId(CleanupDeadJobs(T)) <= MaxJobId
    PROVE  TableInv(RegisterPipeline(T, ps, last, bg))
<1> DEFINE T1 == CleanupDeadJobs(T)
           id == NextJobId(T1)
           job == NewJob(ps, last, bg)
           U == WithJobs(T1, Put(T1.jobs, id, job), PutAll(T1.p2j, ps, id))
<1>1. TableInv(T1) /\ ps \cap DOMAIN T1.p2j = {} /\ id <= MaxJobId
  BY CleanupDeadJobsOK
<1>2. Derived(job) /\ PidsOf(job) = ps
  <2>1. IsMap(job.procs, Pids, Process) /\ DOMAIN job.procs = ps
    BY DEF NewJob, IsMap, Process, States
  <2>2. job.procs \in Maps(Pids, Process)
    BY <2>1, MapsAreMaps
  <2>3. job \in JobEntry
    BY <2>2 DEF JobEntry, NewJob, States
  <2>4. StateOf(job.procs) = "Running"
    BY <2>1 DEF StateOf, NewJob
  <2> QED
    BY <2>1, <2>3, <2>4 DEF Derived, PidsOf, NewJob
<1> HIDE DEF T1, job
<1>3. id \in JobIds /\ id \notin DOMAIN T1.jobs
  <2>1. DOMAIN T1.jobs \subseteq JobIds
    BY <1>1 DEF TableInv, Core, TypeCorrect, IsMap
  <2>2. CASE DOMAIN T1.jobs = {}
    BY <1>1, <2>2, JobTableAssumption DEF NextJobId, JobIds
  <2>3. CASE DOMAIN T1.jobs # {}
    <3>1. /\ Newest(DOMAIN T1.jobs) \in JobIds
          /\ \A y \in DOMAIN T1.jobs : y <= Newest(DOMAIN T1.jobs)
      BY <2>1, <2>3, NewestIsMax
    <3>2. id = Newest(DOMAIN T1.jobs) + 1
      BY <2>3 DEF NextJobId
    <3> QED
      BY <1>1, <2>1, <3>1, <3>2, JobTableAssumption DEF JobIds
  <2> QED
    BY <2>2, <2>3
<1> HIDE DEF id
<1>4. /\ U.jobs = Put(T1.jobs, id, job) /\ U.p2j = PutAll(T1.p2j, ps, id)
      /\ U.done = T1.done /\ U.cur = T1.cur /\ U.prev = T1.prev
      /\ U = [jobs |-> U.jobs, p2j |-> U.p2j, done |-> U.done, cur |-> U.cur, prev |-> U.prev]
  BY DEF WithJobs
<1> HIDE DEF U
<1>5. /\ DOMAIN U.jobs = DOMAIN T1.jobs \cup {id} /\ U.jobs[id] = job
      /\ \A j \in DOMAIN T1.jobs : U.jobs[j] = T1.jobs[j]
      /\ DOMAIN U.p2j = DOMAIN T1.p2j \cup ps
      /\ \A q \in ps : U.p2j[q] = id
      /\ \A q \in DOMAIN T1.p2j : U.p2j[q] = T1.p2j[q]
  BY <1>1, <1>3, <1>4 DEF Put, PutAll
<1>6. TypeCorrect(U)
  <2>1. IsMap(U.jobs, JobIds, JobEntry)
    BY <1>1, <1>2, <1>3, <1>4, <1>5 DEF TableInv, Core, TypeCorrect, IsMap, Put, Derived
  <2>2. IsMap(U.p2j, Pids, JobIds)
    BY <1>1, <1>3, <1>4, <1>5 DEF TableInv, Core, TypeCorrect, IsMap, PutAll
  <2> QED
    BY <1>1, <1>4, <2>1, <2>2 DEF TableInv, Core, TypeCorrect
<1>7. IndexAgrees(U)
  <2>1. IndexAgrees(T1)
    BY <1>1 DEF TableInv, Core
  <2>2. ASSUME NEW q \in DOMAIN U.p2j
        PROVE  U.p2j[q] \in DOMAIN U.jobs /\ q \in PidsOf(U.jobs[U.p2j[q]])
    <3>1. CASE q \in ps
      BY <1>2, <1>5, <3>1
    <3>2. CASE q \in DOMAIN T1.p2j
      BY <1>5, <2>1, <3>2 DEF IndexAgrees
    <3> QED
      BY <1>5, <3>1, <3>2
  <2>3. ASSUME NEW j \in DOMAIN U.jobs, NEW q \in PidsOf(U.jobs[j])
        PROVE  q \in DOMAIN U.p2j /\ U.p2j[q] = j
    <3>1. CASE j = id
      BY <1>2, <1>5, <2>3, <3>1
    <3>2. CASE j \in DOMAIN T1.jobs
      BY <1>5, <2>1, <2>3, <3>2 DEF IndexAgrees
    <3> QED
      BY <1>5, <3>1, <3>2
  <2> QED
    BY <2>2, <2>3 DEF IndexAgrees
<1>8. JobsFollowProcesses(U)
  BY <1>1, <1>2, <1>5 DEF TableInv, Core, JobsFollowProcesses, Derived
<1>9. TableInv(SetCurrentJob(U, id))
  BY <1>5, <1>6, <1>7, <1>8, SetCurrentJobRepairs DEF Core
<1> QED
  BY <1>9 DEF RegisterPipeline, U, T1, id, job

-----------------------------------------------------------------------------
(* The theorems. *)

\* One step of any method of the table keeps its invariant.
LEMMA StepKeepsInv ==
    ASSUME TableInv(table), [Next]_table
    PROVE  TableInv(table')
<1>1. CASE UNCHANGED table
  BY <1>1
<1>2. CASE Register
  <2>1. PICK ps \in SUBSET Pids, last \in Pids, bg \in BOOLEAN :
            /\ last \in ps
            /\ ps \cap DOMAIN CleanupDeadJobs(table).p2j = {}
            /\ NextJobId(CleanupDeadJobs(table)) <= MaxJobId
            /\ table' = RegisterPipeline(table, ps, last, bg)
    BY <1>2 DEF Register
  <2> QED
    BY <2>1, RegisterOK
<1>3. CASE Complete
  BY <1>3, MarkCompletedOK DEF Complete
<1>16. CASE CompleteAll
  <2>1. PICK S \in SUBSET Pids, s \in Statuses : table' = ReapFinished(table, [p \in S |-> s])
    BY <1>16 DEF CompleteAll
  <2>2. IsMap([p \in S |-> s], Pids, Statuses)
    BY DEF IsMap
  <2> QED
    BY <2>1, <2>2, ReapFinishedOK
<1>4. CASE Stop
  BY <1>4, MarkStoppedOK DEF Stop
<1>5. CASE Continue
  BY <1>5, MarkRunningOK DEF Continue
<1>6. CASE Cleanup
  BY <1>6, CleanupDeadJobsOK DEF Cleanup
<1>7. CASE Notify
  BY <1>7, NotifyJobsOK DEF Notify, MarkJobNotifiedByPid, NotifyByPids
<1>8. CASE FlagJobControl
  BY <1>8, SetJobControlOK DEF FlagJobControl
<1>9. CASE BareWait \/ Reap
  BY <1>9, SettleOK DEF BareWait, Reap
<1>10. CASE Remove
  BY <1>10, RemoveJobOK DEF Remove
<1>11. CASE RemoveByPid \/ RemovePreserving
  BY <1>11, RemoveJobByPidOK DEF RemoveByPid, RemovePreserving
<1>12. CASE Clear
  BY <1>12, EmptyTableOK DEF Clear, ClearJobs
<1>13. CASE ClearMarkers
  BY <1>13, ClearCurrentMarkersOK DEF ClearMarkers, TableInv
<1>14. CASE Reset
  BY <1>14, ResetCurrentRepairs DEF Reset, TableInv
<1>15. CASE Select
  BY <1>15, SetCurrentJobRepairs DEF Select, TableInv
<1> QED
  BY <1>1, <1>2, <1>3, <1>4, <1>5, <1>6, <1>7, <1>8, <1>9, <1>10, <1>11, <1>12, <1>13,
     <1>14, <1>15, <1>16 DEF Next

Inv == TableInv(table)

\* Every sequence of method calls keeps the table's invariant.
THEOREM TableInvariant == Spec => []Inv
<1>1. Init => Inv
  BY EmptyTableOK DEF Init, Inv
<1>2. Inv /\ [Next]_table => Inv'
  BY StepKeepsInv DEF Inv
<1> QED
  BY <1>1, <1>2, PTL DEF Spec

\* The table is type correct, for any pids, statuses and bound.
THEOREM TableTypeCorrect == Spec => []TypeOK
<1>1. Inv => TypeOK
  BY DEF Inv, TableInv, Core, TypeOK
<1> QED
  BY <1>1, TableInvariant, PTL

\* pid_to_job and the entries never diverge (register_pipeline_stages,
\* cleanup_dead_jobs and the removals of table.rs).
THEOREM IndexNeverDiverges == Spec => []IndexConsistent
<1>1. Inv => IndexConsistent
  BY DEF Inv, TableInv, Core, IndexConsistent
<1> QED
  BY <1>1, TableInvariant, PTL

\* The recorded state and status of a job always follow its processes
\* (recompute_job of table.rs).
THEOREM JobsAlwaysRecomputed == Spec => []RecomputedAlways
<1>1. Inv => RecomputedAlways
  BY DEF Inv, TableInv, Core, RecomputedAlways
<1> QED
  BY <1>1, TableInvariant, PTL

\* `%+' and `%-' never name a job that is gone (set_current_job and
\* reset_current of table.rs).
THEOREM MarkersNeverDangle == Spec => []MarkersPointToJobs
<1>1. Inv => MarkersPointToJobs
  BY DEF Inv, TableInv, MarkersPointToJobs
<1> QED
  BY <1>1, TableInvariant, PTL
=============================================================================
