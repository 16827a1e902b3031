----------------------------- MODULE MCJobTable -----------------------------
(* The job table under every sequence of method calls, on a small instance. *)
EXTENDS JobTable, TLC

\* No method reads `background', `job_control' or the saved statuses to change
\* anything else, so jobs that differ from the others in the flags, and more
\* than one saved status, are not explored further.
Bound ==
    /\ Cardinality(DOMAIN table.done) <= 1
    /\ \A j \in DOMAIN table.jobs : table.jobs[j].background /\ ~table.jobs[j].job_control

Symmetric == Permutations(Pids)
=============================================================================
