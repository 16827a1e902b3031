-------------------------- MODULE JobEffectsProofs --------------------------
(***************************************************************************)
(* What each method of the job table does to the entry of one process, in  *)
(* a table whose jobs have one process each (the background commands of    *)
(* JobControl): the processes it indexes, the saved statuses, the state    *)
(* and the notified flag recorded for a process.                           *)
(***************************************************************************)
EXTENDS JobTableProofs

OneProcess(T) == \A j \in DOMAIN T.jobs : PidsOf(T.jobs[j]) = {T.jobs[j].last}

Single(T) == TableInv(T) /\ OneProcess(T)

\* What the entry of p's job records.
St(T, p) == T.jobs[T.p2j[p]].procs[p].state
Noted(T, p) == T.jobs[T.p2j[p]].notified

SameEntry(T, U, p) == St(U, p) = St(T, p) /\ Noted(U, p) = Noted(T, p)

\* The index names an entry whose only process is the one asked for, and no
\* two processes share an entry.
LEMMA SingleIndex ==
    ASSUME NEW T, Single(T), NEW p \in DOMAIN T.p2j
    PROVE  /\ p \in Pids
           /\ T.p2j[p] \in DOMAIN T.jobs
           /\ PidsOf(T.jobs[T.p2j[p]]) = {p}
           /\ T.jobs[T.p2j[p]].last = p
           /\ \A q \in DOMAIN T.p2j : T.p2j[q] = T.p2j[p] => q = p
<1>1. T.p2j[p] \in DOMAIN T.jobs /\ p \in PidsOf(T.jobs[T.p2j[p]])
  BY DEF Single, TableInv, Core, IndexAgrees
<1>2. PidsOf(T.jobs[T.p2j[p]]) = {T.jobs[T.p2j[p]].last}
  BY <1>1 DEF Single, OneProcess
<1>3. \A q \in DOMAIN T.p2j : q \in PidsOf(T.jobs[T.p2j[q]])
  BY DEF Single, TableInv, Core, IndexAgrees
<1>4. p \in Pids
  BY DEF Single, TableInv, Core, TypeCorrect, IsMap
<1> HIDE DEF Single
<1> QED
  BY <1>1, <1>2, <1>3, <1>4

\* Every entry is the entry of its last process.
LEMMA SingleEntry ==
    ASSUME NEW T, Single(T), NEW j \in DOMAIN T.jobs
    PROVE  /\ T.jobs[j].last \in DOMAIN T.p2j
           /\ T.p2j[T.jobs[j].last] = j
           /\ PidsOf(T.jobs[j]) = {T.jobs[j].last}
<1>1. PidsOf(T.jobs[j]) = {T.jobs[j].last}
  BY DEF Single, OneProcess
<1>2. \A q \in PidsOf(T.jobs[j]) : q \in DOMAIN T.p2j /\ T.p2j[q] = j
  BY DEF Single, TableInv, Core, IndexAgrees
<1> HIDE DEF Single
<1> QED
  BY <1>1, <1>2

\* The state of a job is that of its process.
LEMMA SingleState ==
    ASSUME NEW T, Single(T), NEW p \in DOMAIN T.p2j
    PROVE  /\ T.jobs[T.p2j[p]].state = St(T, p)
           /\ St(T, p) \in States
           /\ Noted(T, p) \in BOOLEAN
<1> DEFINE job == T.jobs[T.p2j[p]]
<1>1. T.p2j[p] \in DOMAIN T.jobs /\ PidsOf(job) = {p}
  BY SingleIndex
<1>2. Derived(job)
  BY <1>1, EntriesDerived DEF Single, TableInv
<1>3. job.procs \in Maps(Pids, Process) /\ job.notified \in BOOLEAN
  BY <1>2 DEF Derived, JobEntry
<1>4. IsMap(job.procs, Pids, Process)
  BY <1>3, MapsAreMaps
<1>5. job.procs[p].state \in States
  BY <1>1, <1>4 DEF IsMap, PidsOf, Process
<1>6. job.state = StateOf(job.procs) /\ DOMAIN job.procs = {p}
  BY <1>1, <1>2 DEF Derived, PidsOf
<1> HIDE DEF job
<1>7. StateOf(job.procs) = job.procs[p].state
  BY <1>5, <1>6 DEF StateOf, States
<1> QED
  BY <1>3, <1>5, <1>6, <1>7 DEF St, Noted, job

\* job_recorded_stopped of a process is its recorded state.
LEMMA RecordedStopped ==
    ASSUME NEW T, Single(T), NEW p
    PROVE  JobRecordedStopped(T, p) <=> p \in DOMAIN T.p2j /\ St(T, p) = "Stopped"
<1>1. CASE p \in DOMAIN T.p2j
  <2>1. T.p2j[p] \in DOMAIN T.jobs /\ T.jobs[T.p2j[p]].state = St(T, p)
    BY <1>1, SingleIndex, SingleState
  <2> QED
    BY <1>1, <2>1 DEF JobRecordedStopped, IsStopped, InState
<1>2. CASE p \notin DOMAIN T.p2j
  BY <1>2 DEF JobRecordedStopped
<1> QED
  BY <1>1, <1>2

\* Moving the markers changes no entry.
LEMMA MarkersOnly ==
    ASSUME NEW T, NEW id
    PROVE  /\ SetCurrentJob(T, id).jobs = T.jobs
           /\ SetCurrentJob(T, id).p2j = T.p2j
           /\ SetCurrentJob(T, id).done = T.done
           /\ ClearCurrentMarkers(T).jobs = T.jobs
           /\ ClearCurrentMarkers(T).p2j = T.p2j
           /\ ClearCurrentMarkers(T).done = T.done
           /\ ResetCurrent(T).jobs = T.jobs
           /\ ResetCurrent(T).p2j = T.p2j
           /\ ResetCurrent(T).done = T.done
<1>1. \A c, d : LET U == WithMarkers(T, c, d)
                IN  U.jobs = T.jobs /\ U.p2j = T.p2j /\ U.done = T.done
  BY DEF WithMarkers
<1>2. \A i : \E c, d : SetCurrentJob(T, i) = WithMarkers(T, c, d)
  BY Zenon DEF SetCurrentJob
<1>3. \E c, d : ClearCurrentMarkers(T) = WithMarkers(T, c, d)
  BY DEF ClearCurrentMarkers
<1>4. ResetCurrent(T) = ClearCurrentMarkers(T) \/ \E i : ResetCurrent(T) = SetCurrentJob(T, i)
  BY Zenon DEF ResetCurrent
<1>5. \E c, d : ResetCurrent(T) = WithMarkers(T, c, d)
  BY <1>2, <1>3, <1>4, Zenon
<1> QED
  BY <1>1, <1>2, <1>3, <1>5

\* The removals: the entries of D go, the others and the statuses stay.
LEMMA DeleteEffect ==
    ASSUME NEW T, Single(T), NEW D \in SUBSET DOMAIN T.jobs
    PROVE  LET U == DeleteJobs(T, D)
           IN  /\ Single(U) /\ U.done = T.done
               /\ DOMAIN U.p2j = {p \in DOMAIN T.p2j : T.p2j[p] \notin D}
               /\ \A p \in DOMAIN U.p2j : SameEntry(T, U, p)
<1> DEFINE gone == UNION {PidsOf(T.jobs[j]) : j \in D}
           V == WithJobs(T, Drop(T.jobs, D), Drop(T.p2j, gone))
           U == DeleteJobs(T, D)
<1>1. V.jobs = Drop(T.jobs, D) /\ V.p2j = Drop(T.p2j, gone) /\ V.done = T.done
  BY DEF WithJobs
<1>2. U.jobs = V.jobs /\ U.p2j = V.p2j /\ U.done = V.done
  <2>1. U = ResetCurrent(V) \/ U = V
    BY DEF DeleteJobs
  <2> HIDE DEF U, V
  <2> QED
    BY <2>1, MarkersOnly
<1>3. TableInv(U)
  BY DeleteJobsOK DEF Single
<1> HIDE DEF U, V
<1>4. ASSUME NEW p \in DOMAIN T.p2j PROVE p \in gone <=> T.p2j[p] \in D
  <2>1. CASE T.p2j[p] \in D
    <3>1. p \in PidsOf(T.jobs[T.p2j[p]])
      BY SingleIndex
    <3> QED
      BY <2>1, <3>1
  <2>2. CASE p \in gone
    <3>1. PICK j \in D : p \in PidsOf(T.jobs[j])
      BY <2>2
    <3>2. T.p2j[p] = j
      BY <3>1 DEF Single, TableInv, Core, IndexAgrees
    <3> QED
      BY <3>1, <3>2
  <2> QED
    BY <2>1, <2>2
<1> HIDE DEF gone
<1>5. /\ DOMAIN U.p2j = {p \in DOMAIN T.p2j : T.p2j[p] \notin D}
      /\ \A p \in DOMAIN U.p2j : U.p2j[p] = T.p2j[p]
      /\ DOMAIN U.jobs = DOMAIN T.jobs \ D
      /\ \A j \in DOMAIN U.jobs : U.jobs[j] = T.jobs[j]
  BY <1>1, <1>2, <1>4 DEF Drop
<1>6. OneProcess(U)
  BY <1>5 DEF Single, OneProcess
<1>7. ASSUME NEW p \in DOMAIN U.p2j PROVE SameEntry(T, U, p)
  <2>1. U.p2j[p] = T.p2j[p] /\ T.p2j[p] \notin D /\ p \in DOMAIN T.p2j
    BY <1>5
  <2>2. T.p2j[p] \in DOMAIN U.jobs
    BY <1>5, <2>1, SingleIndex
  <2>3. U.jobs[U.p2j[p]] = T.jobs[T.p2j[p]]
    BY <1>5, <2>1, <2>2
  <2> QED
    BY <2>3 DEF SameEntry, St, Noted
<1> QED
  BY <1>1, <1>2, <1>3, <1>5, <1>6, <1>7 DEF Single, U

\* cleanup_dead_jobs removes the dead whose death was notified.
LEMMA CleanupEffect ==
    ASSUME NEW T, Single(T)
    PROVE  LET U == CleanupDeadJobs(T)
           IN  /\ Single(U) /\ U.done = T.done
               /\ DOMAIN U.p2j = {p \in DOMAIN T.p2j : ~(St(T, p) = "Completed" /\ Noted(T, p))}
               /\ \A p \in DOMAIN U.p2j : SameEntry(T, U, p)
<1> DEFINE D == {j \in InState(T, "Completed") : T.jobs[j].notified}
           U == CleanupDeadJobs(T)
<1>1. D \in SUBSET DOMAIN T.jobs
  BY DEF InState
<1>2. U = DeleteJobs(T, D)
  BY DEF CleanupDeadJobs
<1>3. ASSUME NEW p \in DOMAIN T.p2j
      PROVE  T.p2j[p] \in D <=> St(T, p) = "Completed" /\ Noted(T, p)
  <2>1. T.p2j[p] \in DOMAIN T.jobs /\ T.jobs[T.p2j[p]].state = St(T, p)
    BY SingleIndex, SingleState
  <2> QED
    BY <2>1 DEF InState, Noted
<1> HIDE DEF D, U
<1>4. /\ Single(U) /\ U.done = T.done
      /\ DOMAIN U.p2j = {p \in DOMAIN T.p2j : T.p2j[p] \notin D}
      /\ \A p \in DOMAIN U.p2j : SameEntry(T, U, p)
  BY <1>1, <1>2, DeleteEffect
<1> QED
  BY <1>3, <1>4 DEF U

\* remove_job_by_pid_preserve_status removes the entry of that process.
LEMMA RemoveEffect ==
    ASSUME NEW T, Single(T), NEW p
    PROVE  LET U == RemoveJobByPidPreserveStatus(T, p)
           IN  /\ Single(U) /\ U.done = T.done
               /\ DOMAIN U.p2j = DOMAIN T.p2j \ {p}
               /\ \A q \in DOMAIN U.p2j : SameEntry(T, U, q)
<1> DEFINE U == RemoveJobByPidPreserveStatus(T, p)
<1>1. CASE p \notin DOMAIN T.p2j
  <2>1. U = T
    BY <1>1 DEF RemoveJobByPidPreserveStatus
  <2> QED
    BY <1>1, <2>1 DEF SameEntry
<1>2. CASE p \in DOMAIN T.p2j
  <2>1. T.p2j[p] \in DOMAIN T.jobs /\ \A q \in DOMAIN T.p2j : T.p2j[q] = T.p2j[p] => q = p
    BY <1>2, SingleIndex
  <2>2. U = DeleteJobs(T, {T.p2j[p]})
    BY <1>2, <2>1 DEF RemoveJobByPidPreserveStatus
  <2>3. {T.p2j[p]} \in SUBSET DOMAIN T.jobs
    BY <2>1
  <2> HIDE DEF U
  <2>4. /\ Single(U) /\ U.done = T.done
        /\ DOMAIN U.p2j = {q \in DOMAIN T.p2j : T.p2j[q] \notin {T.p2j[p]}}
        /\ \A q \in DOMAIN U.p2j : SameEntry(T, U, q)
    BY <2>2, <2>3, DeleteEffect
  <2>5. {q \in DOMAIN T.p2j : T.p2j[q] \notin {T.p2j[p]}} = DOMAIN T.p2j \ {p}
    BY <2>1
  <2> QED
    BY <2>4, <2>5 DEF U
<1> QED
  BY <1>1, <1>2

-----------------------------------------------------------------------------
(* Exchanging entries. *)

\* Entries exchanged for derived ones over the same processes.
LEMMA EntriesEffect ==
    ASSUME NEW T, Single(T), NEW J, J = [j \in DOMAIN T.jobs |-> J[j]],
           \A j \in DOMAIN T.jobs : Derived(J[j]) /\ PidsOf(J[j]) = PidsOf(T.jobs[j])
    PROVE  LET U == WithJobs(T, J, T.p2j)
           IN  /\ Single(U) /\ U.done = T.done /\ U.p2j = T.p2j /\ U.jobs = J
               /\ \A p \in DOMAIN T.p2j : /\ St(U, p) = J[T.p2j[p]].procs[p].state
                                          /\ Noted(U, p) = J[T.p2j[p]].notified
<1> DEFINE U == WithJobs(T, J, T.p2j)
<1>1. U.jobs = J /\ U.p2j = T.p2j /\ U.done = T.done
  BY DEF WithJobs
<1>2. TableInv(U)
  BY WithEntriesOK DEF Single
<1> HIDE DEF U
<1>3. DOMAIN J = DOMAIN T.jobs
  OBVIOUS
<1>4. ASSUME NEW j \in DOMAIN U.jobs PROVE PidsOf(U.jobs[j]) = {U.jobs[j].last}
  <2>1. j \in DOMAIN T.jobs /\ U.jobs[j] = J[j]
    BY <1>1, <1>3
  <2>2. PidsOf(J[j]) = {T.jobs[j].last}
    BY <2>1 DEF Single, OneProcess
  <2>3. J[j].last \in PidsOf(J[j])
    BY <2>1 DEF Derived
  <2> QED
    BY <2>1, <2>2, <2>3
<1> QED
  BY <1>1, <1>2, <1>4 DEF Single, OneProcess, St, Noted, U

\* Exchanging the entry of one process.
LEMMA EntryEffect ==
    ASSUME NEW T, Single(T), NEW p \in DOMAIN T.p2j, NEW job,
           Derived(job), PidsOf(job) = {p}
    PROVE  LET U == WithEntry(T, T.p2j[p], job)
           IN  /\ Single(U) /\ U.done = T.done /\ U.p2j = T.p2j
               /\ St(U, p) = job.procs[p].state /\ Noted(U, p) = job.notified
               /\ \A q \in DOMAIN T.p2j : q # p => SameEntry(T, U, q)
<1> DEFINE J == Put(T.jobs, T.p2j[p], job)
           U == WithJobs(T, J, T.p2j)
<1>1. /\ T.p2j[p] \in DOMAIN T.jobs /\ PidsOf(T.jobs[T.p2j[p]]) = {p}
      /\ \A q \in DOMAIN T.p2j : T.p2j[q] = T.p2j[p] => q = p
  BY SingleIndex
<1>2. /\ J = [j \in DOMAIN T.jobs |-> J[j]]
      /\ J[T.p2j[p]] = job
      /\ \A j \in DOMAIN T.jobs : j # T.p2j[p] => J[j] = T.jobs[j]
  BY <1>1 DEF Put
<1> HIDE DEF J
<1>3. \A j \in DOMAIN T.jobs : Derived(J[j]) /\ PidsOf(J[j]) = PidsOf(T.jobs[j])
  <2>1. \A j \in DOMAIN T.jobs : Derived(T.jobs[j])
    BY EntriesDerived DEF Single, TableInv
  <2> QED
    BY <1>1, <1>2, <2>1
<1>4. /\ Single(U) /\ U.done = T.done /\ U.p2j = T.p2j
      /\ \A q \in DOMAIN T.p2j : /\ St(U, q) = J[T.p2j[q]].procs[q].state
                                 /\ Noted(U, q) = J[T.p2j[q]].notified
  BY <1>2, <1>3, EntriesEffect
<1>5. ASSUME NEW q \in DOMAIN T.p2j, q # p PROVE SameEntry(T, U, q)
  <2>1. T.p2j[q] # T.p2j[p] /\ T.p2j[q] \in DOMAIN T.jobs
    BY <1>1, <1>5, SingleIndex
  <2>2. J[T.p2j[q]] = T.jobs[T.p2j[q]]
    BY <1>2, <2>1
  <2> QED
    BY <1>4, <2>2 DEF SameEntry, St, Noted
<1> QED
  BY <1>2, <1>4, <1>5 DEF WithEntry, J

\* mark_job_notified for the jobs of D.
LEMMA NotifyEffect ==
    ASSUME NEW T, Single(T), NEW D
    PROVE  LET U == NotifyJobs(T, D)
           IN  /\ Single(U) /\ U.done = T.done /\ U.p2j = T.p2j
               /\ \A p \in DOMAIN T.p2j : /\ St(U, p) = St(T, p)
                                          /\ Noted(U, p) <=> Noted(T, p) \/ T.p2j[p] \in D
<1> DEFINE J == [j \in DOMAIN T.jobs |-> IF j \in D THEN [T.jobs[j] EXCEPT !.notified = TRUE]
                                                   ELSE T.jobs[j]]
           U == WithJobs(T, J, T.p2j)
<1>1. J = [j \in DOMAIN T.jobs |-> J[j]]
  OBVIOUS
<1>2. ASSUME NEW j \in DOMAIN T.jobs
      PROVE  /\ Derived(J[j]) /\ PidsOf(J[j]) = PidsOf(T.jobs[j])
             /\ J[j].procs = T.jobs[j].procs
             /\ J[j].notified <=> T.jobs[j].notified \/ j \in D
  <2>1. Derived(T.jobs[j])
    BY EntriesDerived DEF Single, TableInv
  <2>2. T.jobs[j] \in JobEntry
    BY <2>1 DEF Derived
  <2>3. CASE j \in D
    <3>1. J[j] = [T.jobs[j] EXCEPT !.notified = TRUE]
      BY <2>3
    <3>2. J[j].procs = T.jobs[j].procs /\ J[j].notified = TRUE
      BY <2>2, <3>1 DEF JobEntry
    <3>3. Derived(J[j]) /\ PidsOf(J[j]) = PidsOf(T.jobs[j])
      BY <2>1, <3>1, FlagsOK
    <3> QED
      BY <2>3, <3>2, <3>3
  <2>4. CASE j \notin D
    <3>1. J[j] = T.jobs[j]
      BY <2>4
    <3> QED
      BY <2>1, <2>4, <3>1
  <2> QED
    BY <2>3, <2>4
<1> HIDE DEF J
<1>3. /\ Single(U) /\ U.done = T.done /\ U.p2j = T.p2j
      /\ \A q \in DOMAIN T.p2j : /\ St(U, q) = J[T.p2j[q]].procs[q].state
                                 /\ Noted(U, q) = J[T.p2j[q]].notified
  <2>1. \A j \in DOMAIN T.jobs : Derived(J[j]) /\ PidsOf(J[j]) = PidsOf(T.jobs[j])
    BY <1>2, Zenon
  <2> QED
    BY <1>1, <2>1, EntriesEffect
<1>4. ASSUME NEW p \in DOMAIN T.p2j
      PROVE  /\ St(U, p) = St(T, p)
             /\ Noted(U, p) <=> Noted(T, p) \/ T.p2j[p] \in D
  <2>1. T.p2j[p] \in DOMAIN T.jobs
    BY SingleIndex
  <2> QED
    BY <1>2, <1>3, <2>1 DEF St, Noted
<1> QED
  BY <1>3, <1>4 DEF NotifyJobs, J

\* mark_job_notified_by_pid for the pids of S.
LEMMA NotifyByPidsEffect ==
    ASSUME NEW T, Single(T), NEW S
    PROVE  LET U == NotifyByPids(T, S)
           IN  /\ Single(U) /\ U.done = T.done /\ U.p2j = T.p2j
               /\ \A p \in DOMAIN T.p2j : /\ St(U, p) = St(T, p)
                                          /\ Noted(U, p) <=> Noted(T, p) \/ p \in S
<1> DEFINE D == {T.p2j[q] : q \in S \cap DOMAIN T.p2j}
           U == NotifyByPids(T, S)
<1>1. ASSUME NEW p \in DOMAIN T.p2j PROVE T.p2j[p] \in D <=> p \in S
  BY SingleIndex
<1>2. U = NotifyJobs(T, D)
  BY DEF NotifyByPids
<1> HIDE DEF D, U
<1>3. /\ Single(U) /\ U.done = T.done /\ U.p2j = T.p2j
      /\ \A p \in DOMAIN T.p2j : /\ St(U, p) = St(T, p)
                                 /\ Noted(U, p) <=> Noted(T, p) \/ T.p2j[p] \in D
  BY <1>2, NotifyEffect
<1> QED
  BY <1>1, <1>3 DEF U

-----------------------------------------------------------------------------
(* Process transitions. *)

\* What recompute_job leaves of the entry of a process that moved.
LEMMA WithProcessFields ==
    ASSUME NEW job, Derived(job), NEW p \in PidsOf(job), NEW st \in States,
           NEW ex \in Statuses \cup {NoStatus}, NEW noted \in BOOLEAN
    PROVE  /\ WithProcess(job, p, st, ex, noted).procs[p].state = st
           /\ WithProcess(job, p, st, ex, noted).notified = noted
<1> DEFINE procs == [job.procs EXCEPT ![p] = [state |-> st, exit |-> ex]]
           mid == [job EXCEPT !.procs = procs, !.notified = noted]
           new == WithProcess(job, p, st, ex, noted)
<1>1. job \in JobEntry
  BY DEF Derived
<1>2. procs[p] = [state |-> st, exit |-> ex]
  BY DEF PidsOf
<1>3. new = [mid EXCEPT !.state = StateOf(mid.procs), !.exit = mid.procs[mid.last].exit]
  BY DEF WithProcess, RecomputeJob
<1> HIDE DEF procs, new
<1>4. new.procs = procs /\ new.notified = noted
  BY <1>1, <1>3 DEF JobEntry
<1> QED
  BY <1>2, <1>4 DEF procs, new

\* The entry of a process that moved to another state.
LEMMA MoveEffect ==
    ASSUME NEW T, Single(T), NEW p \in DOMAIN T.p2j, NEW st \in States,
           NEW ex \in Statuses \cup {NoStatus}, NEW noted \in BOOLEAN
    PROVE  LET U == WithEntry(T, T.p2j[p], WithProcess(T.jobs[T.p2j[p]], p, st, ex, noted))
           IN  /\ Single(U) /\ U.done = T.done /\ U.p2j = T.p2j
               /\ St(U, p) = st /\ Noted(U, p) = noted
               /\ \A q \in DOMAIN T.p2j : q # p => SameEntry(T, U, q)
<1> DEFINE old == T.jobs[T.p2j[p]]
           job == WithProcess(old, p, st, ex, noted)
<1>1. T.p2j[p] \in DOMAIN T.jobs /\ PidsOf(old) = {p}
  BY SingleIndex
<1>2. Derived(old)
  BY <1>1, EntriesDerived DEF Single, TableInv
<1>3. Derived(job) /\ PidsOf(job) = {p}
  BY <1>1, <1>2, WithProcessOK
<1>4. job.procs[p].state = st /\ job.notified = noted
  <2>1. p \in PidsOf(old)
    BY <1>1
  <2> HIDE DEF old
  <2> QED
    BY <1>2, <2>1, WithProcessFields
<1> HIDE DEF job
<1> QED
  BY <1>3, <1>4, EntryEffect DEF job

\* mark_stopped and mark_running: the state of one process at most, and no
\* flag is raised.
LEMMA MarkEffect ==
    ASSUME NEW T, Single(T), NEW p, NEW U,
           U = MarkStopped(T, p) \/ U = MarkRunning(T, p)
    PROVE  /\ Single(U) /\ U.done = T.done /\ U.p2j = T.p2j
           /\ \A q \in DOMAIN T.p2j : q # p => SameEntry(T, U, q)
           /\ p \in DOMAIN T.p2j => /\ St(U, p) \in {"Running", "Stopped"}
                                    /\ Noted(U, p) => Noted(T, p)
<1>1. CASE p \notin DOMAIN T.p2j
  <2>1. U = T
    BY <1>1 DEF MarkStopped, MarkRunning
  <2> QED
    BY <1>1, <2>1 DEF SameEntry
<1>2. CASE p \in DOMAIN T.p2j
  <2> DEFINE id == T.p2j[p]
             ex == T.jobs[id].procs[p].exit
             S == WithEntry(T, id, WithProcess(T.jobs[id], p, "Stopped", ex, FALSE))
             R == WithEntry(T, id, WithProcess(T.jobs[id], p, "Running", ex, T.jobs[id].notified))
  <2>1. ex \in Statuses \cup {NoStatus} /\ T.jobs[id].notified \in BOOLEAN
    BY <1>2, IndexedProcess DEF Single, TableInv
  <2>2. /\ Single(S) /\ S.done = T.done /\ S.p2j = T.p2j
        /\ St(S, p) = "Stopped" /\ Noted(S, p) = FALSE
        /\ \A q \in DOMAIN T.p2j : q # p => SameEntry(T, S, q)
    <3> HIDE DEF ex
    <3> QED
      BY <1>2, <2>1, MoveEffect DEF States
  <2>3. /\ Single(R) /\ R.done = T.done /\ R.p2j = T.p2j
        /\ St(R, p) = "Running" /\ Noted(R, p) = T.jobs[id].notified
        /\ \A q \in DOMAIN T.p2j : q # p => SameEntry(T, R, q)
    <3> HIDE DEF ex
    <3> QED
      BY <1>2, <2>1, MoveEffect DEF States
  <2>4. CASE U = MarkRunning(T, p)
    <3>1. U = R
      BY <1>2, <2>4 DEF MarkRunning
    <3> HIDE DEF R
    <3> QED
      BY <1>2, <2>3, <3>1 DEF Noted
  <2>5. CASE U = MarkStopped(T, p)
    <3>1. U = SetCurrentJob(S, id)
      BY <1>2, <2>5 DEF MarkStopped
    <3>2. TableInv(U)
      BY <2>5, MarkStoppedOK DEF Single
    <3> HIDE DEF S
    <3>3. U.jobs = S.jobs /\ U.p2j = S.p2j /\ U.done = S.done
      BY <3>1, MarkersOnly
    <3>4. OneProcess(U)
      BY <2>2, <3>3 DEF Single, OneProcess
    <3>5. \A q : St(U, q) = St(S, q) /\ Noted(U, q) = Noted(S, q)
      BY <3>3 DEF St, Noted
    <3> QED
      BY <1>2, <2>2, <3>2, <3>3, <3>4, <3>5 DEF Single, SameEntry
  <2> QED
    BY <2>4, <2>5
<1> QED
  BY <1>1, <1>2

\* Saved statuses may be exchanged.
LEMMA DoneEffect ==
    ASSUME NEW T, Single(T), NEW d, IsMap(d, Pids, Statuses)
    PROVE  LET U == WithDone(T, d)
           IN  /\ Single(U) /\ U.done = d /\ U.p2j = T.p2j
               /\ \A q : SameEntry(T, U, q)
<1> DEFINE U == WithDone(T, d)
<1>1. U.jobs = T.jobs /\ U.p2j = T.p2j /\ U.done = d
  BY DEF WithDone
<1>2. TableInv(U)
  BY WithDoneOK DEF Single
<1> HIDE DEF U
<1>3. OneProcess(U)
  BY <1>1 DEF Single, OneProcess
<1> QED
  BY <1>1, <1>2, <1>3 DEF Single, SameEntry, St, Noted, U

\* mark_completed for one process.
LEMMA CompleteEffect ==
    ASSUME NEW T, Single(T), NEW p \in Pids, NEW s \in Statuses
    PROVE  LET U == MarkCompleted(T, p, s)
           IN  /\ Single(U) /\ U.done = Put(T.done, p, s) /\ U.p2j = T.p2j
               /\ \A q \in DOMAIN T.p2j : q # p => SameEntry(T, U, q)
               /\ p \in DOMAIN T.p2j => St(U, p) = "Completed" /\ ~Noted(U, p)
<1> DEFINE d == Put(T.done, p, s)
           V == WithDone(T, d)
           U == MarkCompleted(T, p, s)
<1>1. IsMap(d, Pids, Statuses)
  BY DEF Single, TableInv, Core, TypeCorrect, IsMap, Put
<1>2. /\ Single(V) /\ V.done = d /\ V.p2j = T.p2j /\ V.jobs = T.jobs
      /\ \A q : SameEntry(T, V, q)
  BY <1>1, DoneEffect DEF WithDone
<1>3. CASE p \notin DOMAIN T.p2j
  <2>1. U = V
    BY <1>3 DEF MarkCompleted
  <2> HIDE DEF V, d
  <2> QED
    BY <1>2, <1>3, <2>1 DEF d
<1>4. CASE p \in DOMAIN T.p2j
  <2>1. U = WithEntry(V, V.p2j[p], WithProcess(V.jobs[V.p2j[p]], p, "Completed", s, FALSE))
    <3> HIDE DEF d
    <3> QED
      BY <1>2, <1>4 DEF MarkCompleted, V, d
  <2> HIDE DEF V, d, U
  <2>2. /\ Single(U) /\ U.done = V.done /\ U.p2j = V.p2j
        /\ St(U, p) = "Completed" /\ Noted(U, p) = FALSE
        /\ \A q \in DOMAIN V.p2j : q # p => SameEntry(V, U, q)
    <3>1. p \in DOMAIN V.p2j /\ "Completed" \in States /\ s \in Statuses \cup {NoStatus}
      BY <1>2, <1>4 DEF States
    <3>2. FALSE \in BOOLEAN /\ Single(V)
      BY <1>2
    <3>3. LET X == WithEntry(V, V.p2j[p], WithProcess(V.jobs[V.p2j[p]], p, "Completed", s, FALSE))
          IN  /\ Single(X) /\ X.done = V.done /\ X.p2j = V.p2j
              /\ St(X, p) = "Completed" /\ Noted(X, p) = FALSE
              /\ \A q \in DOMAIN V.p2j : q # p => SameEntry(V, X, q)
      BY <3>1, <3>2, MoveEffect, Zenon
    <3> QED
      BY <2>1, <3>3, Zenon
  <2> QED
    BY <1>2, <2>2 DEF SameEntry, d, U
<1> QED
  BY <1>3, <1>4

\* What recompute_job leaves of an entry some of whose processes died.
LEMMA WithDeathsFields ==
    ASSUME NEW job, Derived(job), NEW died, NEW p \in PidsOf(job), p \in DOMAIN died
    PROVE  WithDeaths(job, died).procs[p].state = "Completed" /\ ~WithDeaths(job, died).notified
<1> DEFINE procs == [q \in PidsOf(job) |->
                        IF q \in DOMAIN died THEN [state |-> "Completed", exit |-> died[q]]
                        ELSE job.procs[q]]
           mid == [job EXCEPT !.procs = procs, !.notified = FALSE]
           new == WithDeaths(job, died)
<1>1. job \in JobEntry
  BY DEF Derived
<1>2. procs[p].state = "Completed"
  OBVIOUS
<1>3. new = [mid EXCEPT !.state = StateOf(mid.procs), !.exit = mid.procs[mid.last].exit]
  BY DEF WithDeaths, RecomputeJob
<1> HIDE DEF procs, new
<1>4. new.procs = procs /\ new.notified = FALSE
  BY <1>1, <1>3 DEF JobEntry
<1> QED
  BY <1>2, <1>4 DEF new

\* mark_completed for the processes of a map.
LEMMA ReapEffect ==
    ASSUME NEW T, Single(T), NEW died, IsMap(died, Pids, Statuses)
    PROVE  LET U == ReapFinished(T, died)
           IN  /\ Single(U) /\ U.done = Override(T.done, died) /\ U.p2j = T.p2j
               /\ \A p \in DOMAIN T.p2j :
                      IF p \in DOMAIN died THEN St(U, p) = "Completed" /\ ~Noted(U, p)
                      ELSE SameEntry(T, U, p)
<1> DEFINE J == [j \in DOMAIN T.jobs |-> IF PidsOf(T.jobs[j]) \cap DOMAIN died # {}
                                         THEN WithDeaths(T.jobs[j], died) ELSE T.jobs[j]]
           V == WithJobs(T, J, T.p2j)
           d == Override(T.done, died)
           U == WithDone(V, d)
<1>1. J = [j \in DOMAIN T.jobs |-> J[j]]
  OBVIOUS
<1>2. \A j \in DOMAIN T.jobs : Derived(J[j]) /\ PidsOf(J[j]) = PidsOf(T.jobs[j])
  <2> TAKE j \in DOMAIN T.jobs
  <2>1. Derived(T.jobs[j])
    BY EntriesDerived DEF Single, TableInv
  <2> QED
    BY <2>1, WithDeathsOK
<1>3. ASSUME NEW p \in DOMAIN T.p2j
      PROVE  IF p \in DOMAIN died
             THEN J[T.p2j[p]].procs[p].state = "Completed" /\ ~J[T.p2j[p]].notified
             ELSE J[T.p2j[p]] = T.jobs[T.p2j[p]]
  <2>1. T.p2j[p] \in DOMAIN T.jobs /\ PidsOf(T.jobs[T.p2j[p]]) = {p}
    BY SingleIndex
  <2>2. CASE p \in DOMAIN died
    <3>1. J[T.p2j[p]] = WithDeaths(T.jobs[T.p2j[p]], died)
      BY <2>1, <2>2
    <3>2. Derived(T.jobs[T.p2j[p]]) /\ p \in PidsOf(T.jobs[T.p2j[p]])
      BY <2>1, EntriesDerived DEF Single, TableInv
    <3> HIDE DEF J
    <3> QED
      BY <2>2, <3>1, <3>2, WithDeathsFields
  <2>3. CASE p \notin DOMAIN died
    BY <2>1, <2>3
  <2> QED
    BY <2>2, <2>3
<1> HIDE DEF J
<1>4. /\ Single(V) /\ V.done = T.done /\ V.p2j = T.p2j
      /\ \A p \in DOMAIN T.p2j : /\ St(V, p) = J[T.p2j[p]].procs[p].state
                                 /\ Noted(V, p) = J[T.p2j[p]].notified
  BY <1>1, <1>2, EntriesEffect
<1>5. IsMap(d, Pids, Statuses)
  BY DEF Single, TableInv, Core, TypeCorrect, IsMap, Override
<1> HIDE DEF V, d
<1>6. Single(U) /\ U.done = d /\ U.p2j = V.p2j /\ \A q : SameEntry(V, U, q)
  BY <1>4, <1>5, DoneEffect
<1>7. U = ReapFinished(T, died)
  BY DEF ReapFinished, V, J, d
<1> HIDE DEF U
<1>8. ASSUME NEW p \in DOMAIN T.p2j
      PROVE  IF p \in DOMAIN died THEN St(U, p) = "Completed" /\ ~Noted(U, p)
             ELSE SameEntry(T, U, p)
  BY <1>3, <1>4, <1>6 DEF SameEntry, St, Noted
<1> QED
  BY <1>4, <1>6, <1>7, <1>8 DEF d

\* set_job_control leaves what is recorded of the processes alone.
LEMMA JobControlEffect ==
    ASSUME NEW T, Single(T), NEW p, NEW on \in BOOLEAN
    PROVE  LET U == SetJobControl(T, p, on)
           IN  /\ Single(U) /\ U.done = T.done /\ U.p2j = T.p2j
               /\ \A q \in DOMAIN T.p2j : SameEntry(T, U, q)
<1>1. CASE p \notin DOMAIN T.p2j
  <2>1. SetJobControl(T, p, on) = T
    BY <1>1 DEF SetJobControl
  <2> QED
    BY <2>1 DEF SameEntry
<1>2. CASE p \in DOMAIN T.p2j
  <2> DEFINE old == T.jobs[T.p2j[p]]
             job == [old EXCEPT !.job_control = on]
             U == WithEntry(T, T.p2j[p], job)
  <2>1. T.p2j[p] \in DOMAIN T.jobs /\ PidsOf(old) = {p}
    BY <1>2, SingleIndex
  <2>2. Derived(old)
    BY <2>1, EntriesDerived DEF Single, TableInv
  <2>3. Derived(job) /\ PidsOf(job) = {p}
    BY <2>1, <2>2, FlagsOK
  <2>4. job.procs = old.procs /\ job.notified = old.notified
    BY <2>2 DEF Derived, JobEntry
  <2> HIDE DEF job
  <2>5. /\ Single(U) /\ U.done = T.done /\ U.p2j = T.p2j
        /\ St(U, p) = job.procs[p].state /\ Noted(U, p) = job.notified
        /\ \A q \in DOMAIN T.p2j : q # p => SameEntry(T, U, q)
    BY <1>2, <2>3, EntryEffect
  <2>6. SameEntry(T, U, p)
    BY <2>4, <2>5 DEF SameEntry, St, Noted
  <2>7. U = SetJobControl(T, p, on)
    BY <1>2 DEF SetJobControl, job
  <2> HIDE DEF U
  <2> QED
    BY <2>5, <2>6, <2>7
<1> QED
  BY <1>1, <1>2

\* register_process of a new process, after the cleanup it starts with.
LEMMA RegisterEffect ==
    ASSUME NEW T, Single(T), NEW p \in Pids, NEW bg \in BOOLEAN, p \notin DOMAIN T.p2j,
           NextJobId(CleanupDeadJobs(T)) <= MaxJobId
    PROVE  LET C == CleanupDeadJobs(T)
               U == RegisterPipeline(T, {p}, p, bg)
           IN  /\ Single(U) /\ U.done = T.done
               /\ DOMAIN U.p2j = DOMAIN C.p2j \cup {p}
               /\ St(U, p) = "Running" /\ ~Noted(U, p)
               /\ \A q \in DOMAIN C.p2j : SameEntry(C, U, q)
<1> DEFINE C == CleanupDeadJobs(T)
           id == NextJobId(C)
           job == NewJob({p}, p, bg)
           V == WithJobs(C, Put(C.jobs, id, job), PutAll(C.p2j, {p}, id))
           U == SetCurrentJob(V, id)
<1>1. Single(C) /\ C.done = T.done /\ p \notin DOMAIN C.p2j
  BY CleanupEffect
<1>2. TableInv(RegisterPipeline(T, {p}, p, bg))
  <2>1. {p} \in SUBSET Pids /\ p \in {p} /\ {p} \cap DOMAIN CleanupDeadJobs(T).p2j = {}
    BY <1>1
  <2> QED
    BY <2>1, RegisterOK DEF Single
<1>3. U = RegisterPipeline(T, {p}, p, bg)
  BY DEF RegisterPipeline
<1>4. /\ job.procs = [q \in {p} |-> [state |-> "Running", exit |-> NoStatus]]
      /\ job.last = p /\ job.notified = FALSE
  BY DEF NewJob
<1>5. DOMAIN job.procs = {p} /\ job.procs[p].state = "Running"
  BY <1>4
<1> HIDE DEF C, job, id
<1>6. /\ V.jobs = Put(C.jobs, id, job) /\ V.p2j = PutAll(C.p2j, {p}, id) /\ V.done = C.done
  BY DEF WithJobs
<1> HIDE DEF V
<1>7. U.jobs = V.jobs /\ U.p2j = V.p2j /\ U.done = V.done
  BY MarkersOnly
<1> HIDE DEF U
<1>8. /\ DOMAIN U.jobs = DOMAIN C.jobs \cup {id} /\ U.jobs[id] = job
      /\ \A j \in DOMAIN C.jobs : j # id => U.jobs[j] = C.jobs[j]
      /\ DOMAIN U.p2j = DOMAIN C.p2j \cup {p} /\ U.p2j[p] = id
      /\ \A q \in DOMAIN C.p2j : U.p2j[q] = C.p2j[q]
  BY <1>1, <1>6, <1>7 DEF Put, PutAll
<1>9. ASSUME NEW q \in DOMAIN C.p2j PROVE C.p2j[q] # id /\ C.p2j[q] \in DOMAIN C.jobs
  <2>1. C.p2j[q] \in DOMAIN C.jobs
    BY <1>1, SingleIndex
  <2>2. q # p /\ q \in DOMAIN U.p2j
    BY <1>1, <1>8
  <2>3. q \in PidsOf(U.jobs[U.p2j[q]])
    BY <1>2, <1>3, <2>2 DEF TableInv, Core, IndexAgrees
  <2>4. U.p2j[q] = C.p2j[q]
    BY <1>8
  <2>5. q \notin DOMAIN job.procs
    BY <1>5, <2>2
  <2> QED
    BY <1>8, <2>1, <2>3, <2>4, <2>5 DEF PidsOf
<1>10. OneProcess(U)
  <2>1. PidsOf(U.jobs[id]) = {U.jobs[id].last}
    BY <1>4, <1>5, <1>8 DEF PidsOf
  <2>2. ASSUME NEW j \in DOMAIN U.jobs, j # id PROVE PidsOf(U.jobs[j]) = {U.jobs[j].last}
    BY <1>1, <1>8, <2>2 DEF Single, OneProcess
  <2> QED
    BY <2>1, <2>2 DEF OneProcess
<1>11. \A q \in DOMAIN C.p2j : SameEntry(C, U, q)
  BY <1>8, <1>9 DEF SameEntry, St, Noted
<1>12. St(U, p) = "Running" /\ ~Noted(U, p)
  BY <1>4, <1>5, <1>8 DEF St, Noted
<1> QED
  BY <1>1, <1>2, <1>3, <1>6, <1>7, <1>8, <1>10, <1>11, <1>12 DEF Single, C

\* Moving the markers: set_current_job, reset_current, clear_current_markers.
LEMMA MarkersEffect ==
    ASSUME NEW T, Single(T), NEW U,
           \/ \E id \in DOMAIN T.jobs : U = SetCurrentJob(T, id)
           \/ U = ResetCurrent(T)
           \/ U = ClearCurrentMarkers(T)
    PROVE  /\ Single(U) /\ U.done = T.done /\ U.p2j = T.p2j /\ U.jobs = T.jobs
           /\ \A q : SameEntry(T, U, q)
<1>1. TableInv(U)
  BY SetCurrentJobRepairs, ResetCurrentRepairs, ClearCurrentMarkersOK DEF Single, TableInv
<1>2. U.done = T.done /\ U.p2j = T.p2j /\ U.jobs = T.jobs
  BY MarkersOnly
<1>3. OneProcess(U)
  BY <1>2 DEF Single, OneProcess
<1> QED
  BY <1>1, <1>2, <1>3 DEF Single, SameEntry, St, Noted
=============================================================================
