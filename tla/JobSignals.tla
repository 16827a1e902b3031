----------------------------- MODULE JobSignals -----------------------------
(***************************************************************************)
(* The part of src/src/jobs/table.rs that remembers the signals the        *)
(* shell's own `kill' sent and whose effect it has not learnt: there is no *)
(* poller for stops and continues, so the kill path records a mark and a   *)
(* later refresh publishes it.                                             *)
(*                                                                         *)
(*   marks  deferred_state_marks, in the order they were sent; `aged' is   *)
(*          seq < reader_command_seq                                       *)
(*   fatal  fresh_fatal_marks: pid -> reader commands started since then   *)
(*                                                                         *)
(* Time is the number of marks at least 5 ms old: marks are in the order   *)
(* they were sent, so those are the first `ripe' of the sequence.          *)
(***************************************************************************)
EXTENDS JobTable, Vectors

Mark == [pid : Pids, to : {"Running", "Stopped"}, aged : BOOLEAN]

NoSignals == [marks |-> << >>, fatal |-> EmptyFn]

\* fresh_fatal_live: NoteReaderCommand keeps only the marks in the window.
FreshFatalLive(S, p) == p \in DOMAIN S.fatal

\* note_reader_command: a new top-level command starts.  A fatal mark guards
\* the command that sent the signal and the one after it.
NoteReaderCommand(S) ==
    [marks |-> [i \in DOMAIN S.marks |-> [S.marks[i] EXCEPT !.aged = TRUE]],
     fatal |-> [p \in {q \in DOMAIN S.fatal : S.fatal[q] = 0} |-> 1]]

\* defer_state_mark: a newer signal to a pid supersedes an older one.
DeferStateMark(S, p, to) ==
    LET others == RetainAt(S.marks, {i \in DOMAIN S.marks : S.marks[i].pid # p})
    IN  [S EXCEPT !.marks = Append(others, [pid |-> p, to |-> to, aged |-> FALSE])]

\* note_fatal_signal: an older mark of the pid stays as it is.
NoteFatalSignal(S, p) ==
    IF p \in DOMAIN S.fatal THEN S ELSE [S EXCEPT !.fatal = Put(S.fatal, p, 0)]

\* take_fresh_fatal consumes the mark it finds.
TakeFreshFatal(S, p) == [S EXCEPT !.fatal = Drop(S.fatal, {p})]

\* The operand wait holds back the continue of a job that is recorded
\* stopped and has also been sent a fatal signal.
Held(T, S, m, hold) ==
    hold /\ m.to = "Running" /\ JobRecordedStopped(T, m.pid) /\ FreshFatalLive(S, m.pid)

\* A mark publishes at an observation event, or once it is a reader command
\* and 5 ms old.
Publishes(T, S, i, observe, hold, ripe) ==
    /\ ~Held(T, S, S.marks[i], hold)
    /\ observe \/ (S.marks[i].aged /\ i <= ripe)

Publish(T, m) == IF m.to = "Stopped" THEN MarkStopped(T, m.pid) ELSE MarkRunning(T, m.pid)

\* The table after the marks at the positions of ready, in their order.
PublishAll(T, marks, ready) ==
    LET after[k \in 0..Len(marks)] ==
            IF k = 0 THEN T
            ELSE IF k \in ready THEN Publish(after[k - 1], marks[k]) ELSE after[k - 1]
    IN  after[Len(marks)]

\* apply_deferred_state_marks: which marks are ready is decided before the
\* first is published.  Gives the table and the remaining signals.
ApplyDeferredStateMarks(T, S, observe, hold, ripe) ==
    LET ready == {i \in DOMAIN S.marks : Publishes(T, S, i, observe, hold, ripe)}
    IN  [tab |-> PublishAll(T, S.marks, ready),
         sig |-> [S EXCEPT !.marks = RetainAt(S.marks, DOMAIN S.marks \ ready)]]
=============================================================================
