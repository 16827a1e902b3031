# rubash: models, checks and proofs

rubash is a Bash-compatible shell in Rust. This directory holds TLA+ models of
the parts of it whose correctness depends on the order in which things happen,
the TLC runs that check them on small instances, and TLAPS proofs of every
safety property the runs check. Paths below are relative to the repository,
which is the directory `src/` next to this one (so `src/src/jobs/table.rs` is
the crate's `src/jobs/table.rs`).

`PROJECT.json` lists the components, the runs, the mutants (plausible bugs that
each property is known to catch), the lines every definition stands for, the
hazards and the findings.

## The system

| Part | State | Operations and interactions | What is hard about it |
|---|---|---|---|
| job table (`src/src/jobs/table.rs`) | entries, pid index, saved statuses, `+`/`-` markers, deferred marks | registration, completion, stop, continue, removal; called by everything below | reuse of job numbers; derived state; removal between two selections |
| job control (`src/src/executor/job_builtins.rs`, `ast_exec.rs`, `limit_builtins.rs`, `compound_exec.rs`) | child handles, stashed completions, queued notices, the foreground wait count | a refresh before every command, launches, `kill` bookkeeping | who reaps a child, who may show its death, what a trapped signal leaves behind |
| job builtins (`job_builtins.rs`) | what a blocked wait has left to do | `wait`, `wait -n`, `jobs`, `disown`, `fg`, `bg` | several ways to learn one status |
| foreground jobs (`pipeline_exec.rs`, `external_inner.rs`, `job_control_wait.rs`) | members seen stopped and dead, handles taken | pipelines on a terminal, stop, `fg` | one member dies while another stops |
| debugger (`src/src/debugger/`, consult in `executor/trap_exec.rs`) | session, breakpoints, step arming, pause flag | stops at seams, frontends resume it | code that runs in the middle of a decision to stop |
| debug adapter (`src/src/debugger/dap.rs`) | the bridge between its threads, the channel of requests, replies owed | a reader thread frames requests and pauses the debuggee, the main thread converses, runs it and serves its stops | a request racing with a stop or the end |
| descriptors (`executor/fd_table.rs`, `command_input_scope.rs`, `shell_options.rs`) | endpoints, the capture each alias of stdout stands for, undo lists, capture buffers | allocation, duplication, undo after a redirected command, copies for child shells | child shells and captures in one process; undo after a failure |
| variables and scopes (`shell/`, `executor/declare_local.rs`, `temporary_assignments.rs`) | typed cells and their mirrored strings | assignment, `local`, temporary environments, subshells | two stores that must stay equal |
| traps (`executor/trap_exec.rs`, `builtins/trap.rs`, `builtins/kill.rs`) | the trap table, kernel dispositions, the queues of the mailbox and their flag | delivery, dispatch at boundaries, draining by `sleep` and `wait` | several readers of one mailbox; subshells that share the process and its dispositions |
| commands, functions, pipelines (`executor/`) | frames, loop levels, exit statuses | the executor | control flow out of nested contexts |
| substitutions (`executor/command_substitution*.rs`) | captured output, child shells | spawning | shared process state |
| lexer, parser (`lexer/`, `parser/`) | none kept | text to tree | sequential |
| expansion, globbing, arithmetic (`expand/`, `executor/arithmetic/`) | none kept | words to words | fixed-width integers |
| other builtins, history, completion (`builtins/`, `history*.rs`) | lists and tables of their own | sequential | size limits |
| embedding API (`api/`) | a session around an executor | evaluation, views | re-entry |
| drivers (`script_driver.rs`, `main.rs`), platform emulation (`proc_vfs.rs`, `winuxcmd_fifo.rs`) | reader state | reading, I/O | outside the models |

The shell executes commands on one thread. Before each command it runs a
boundary: it publishes deferred signal marks, collects finished children,
applies or stashes their completions, and on a new input line prints notices
and deletes dead jobs. The processes run concurrently with all of this.

## Modules

| Module | Models | Correspondence |
|---|---|---|
| `JobTable` | `JobTable` of `table.rs` | one operator per method, one action per operation; `table` is the record of `jobs`, `pid_to_job`, `completed_statuses`, `current_job`, `previous_job` |
| `JobTableProofs` | theorems about `JobTable` | |
| `Vectors`, `VectorsProofs` | `Vec::retain` as a recursive function, and what it returns | the filters of the marks and of the signal queues |
| `JobSignals` | `deferred_state_marks`, `fresh_fatal_marks` | `sig.marks`, `sig.fatal` |
| `JobControl` | refresh, boundary, launches, `kill`, the processes | `kids` is `background_children`, `pend` is `pending_job_completions`, `notices` is `pending_signal_notices` |
| `JobBuiltins` | the builtins, the specification `ShellSpec` and its properties | `pc` says which wait is in progress and what it has left to do |
| `JobEffectsProofs`, `ShellProofs` | what a table operation does to one process; theorems about `ShellSpec` | |
| `TerminalJobs` | foreground jobs and `fg` on a terminal, `TerminalSpec` | `pc` holds the local variables of the wait |
| `DebugSession` | the debugger's session, breakpoints and armings, and the executor's side of them | `st`, `arming`, `stop`, `exc`, `filters`, `async` are the fields of `DebugSession`; `bps` the table; `pc` says where the executor is (at a seam, in a condition, at a stop, taking a frame down, unwinding); `shells` holds what the `( )` regions and the substitutions that run in the same executor put back as they end |
| `DebugSessionProofs` | theorems about `DebugSession` | |
| `StopProtocol` | what a frontend may rely on | the phases of a debuggee; `DebugSession` implements it, `DapAdapter` extends it |
| `DapAdapter` | `dap.rs`: reader thread, bridge, conversation, stops served | `running`, `flag`, `pauseSeq` are the `ReaderBridge`; `at` is where the main thread is; `asked`, `replies`, `view`, `told` record what the client saw |
| `DapProofs` | theorems about `DapAdapter` | |
| `Redirections` | the vocabulary of the next two | |
| `Descriptors` | the kernel's view: what `dup2`, `fork` and the undo of redirections do | an abstract specification |
| `FdTable` | the table, its undo lists, child shells and captures | `table` is `FdTable` (`record` is `stdout_alias_generation`), `active` and `parked` the capture buffers, `frames` the locals of the running commands |
| `FdTableProofs` | theorems about `FdTable` | |
| `Traps` | trap table, dispositions, mailbox and its readers | `slots` is what the signal_hook handler recorded, `selfq` is `SELF_SIGNALS`, `anyPending` is `PENDING_ANY`, `ancestor` is `ANCESTOR_SIGNALS`, `queue` the local of the dispatch |
| `TrapsProofs` | theorems about `Traps` | |
| `MCJobTable`, `MCShell`, `MCDebug`, `MCDap`, `MCFd`, `MCTraps` | constants for TLC | |

Of the job modules each extends the one before it: a handler is an operator on a record
`W` of everything it reads and writes (table, signals, processes, handles,
stash, notices), so that a handler composed of calls is a composition of
operators, and the action assigns the result with `Becomes`.

Modelling decisions:

* A process is `unborn`, `run`, `stop`, `dying` (a fatal signal was sent),
  `zombie` or `reaped`; `real` is the status it died with. It moves between any
  two steps of the shell, and during blocking waits.
* A wait that blocks is entered by one action (`WaitBare`, `WaitOperands`,
  `WaitAny`, `Fg`, `FgTerminal`, `StartForeground`), moves by steps that need
  what they wait for, and is ended by a trapped signal in `Interrupted`,
  `FgInterrupted` and `FgTerminalInterrupted`.
* Time appears once, in the 5 ms a deferred mark must be old: `ripe` is the
  number of marks that are, chosen freely.
* `pend` and `notices` are sets: the elements are per process and their order
  does not change the result.
* History variables (`told`, `released`, `assumed`, `ans`) only record what the
  user was told, what he let go of and what the last wait answered.
* In `DebugSession` a condition, a DEBUG action and the serving of a stop are
  not atomic: exceptions stop inside the first two (`ExceptionSite`), and the
  user's commands are actions of their own at a stop. An error that leaves a
  stop is an outcome of `Unwind`: a condition swallows it, `FrameReturned`
  catches a return, `LeaveSubshell` (the end of a region) a return and an exit,
  and `Finish` what is left. A typed `break` or `continue` leaves the stop
  (`EvaluateBreak`) for a loop of the function or, at its edge, of its caller.
* An exit in a region ends the session as it is raised (`Exits`) and the region
  as it unwinds; the program then goes on. Regions inside what is evaluated at a
  stop, a DEBUG action or a condition are one step (`SubshellExits`).
* `frames`, `passed`, `spent` and `held` are history: the frames really on the
  call stack, where commands ran since the last resume, the one-shot entries
  that stopped, and whether something inside the program caught the exit of a
  session that had ended.

* In `DapAdapter` the reader thread and the main thread interleave at every
  access to what they share; holding the lock of `session_flag` is a value of
  `reader`. The debuggee is anything that keeps `StopProtocol`.
* In `FdTable` a redirected command binds its list one redirection at a time
  and may fail after each; child shells and substitutions nest in it freely.
* In `Traps` a signal arrives between any two steps. The signals of one number
  coalesce, as in the kernel. A foreground child and `sleep` are both
  "blocked"; only `sleep` looks at the mailbox (`Observe`, `Interrupt`). `owed`
  is history: the signals caught for an action that has not begun.

## Runs

Bounds: two processes (one in `monitor`) and two job numbers. Two are enough
for every pair of roles the code distinguishes: the waited for and the other
one, a pipeline of two members, current and previous job. Statuses are 0 and
137, the second being a death by signal. `Commands` limits what the user does
in a run.

| Run | Question |
|---|---|
| `job_table` | do the table invariants hold for every sequence of operations (on 3 pids, 3 jobs)? |
| `script` | without job control: every builtin, `kill`, traps, two processes |
| `monitor` | the same with `set -m`, `fg`, `bg`, one process; safety and liveness |
| `terminal` | table invariants for the updates `fg` and the pipeline wait make in place, with traps |
| `foreground` | foreground jobs stopped and resumed |
| `debug_steps` | all armings, two files, calls two deep, a region, every unwind; no breakpoints |
| `debug_conditions` | conditions that stop, fail or exit, with the table edited meanwhile, and every exit and unwind; the refinement of `StopProtocol` |
| `dap` | conversations of six requests with the adapter, safety and liveness |
| `fds` | three redirections on four descriptors, three levels of commands and child shells; the refinement of `Descriptors` |
| `traps` | two signals, a script and a session, with and without an EXIT trap; safety and liveness |
| `find_stale_mark`, `find_stolen_signal` | see the findings |

Properties of the shell (`JobBuiltins`):

* `WaitTruth`: `wait` answers the status the process died with.
* `WaitKnowsChildren`: `wait` never answers that a child is unknown, unless
  the user let go of it.
* `StatusKept`: a status collected from the system waits in the stash or is
  saved, whatever happened in between.
* `NoSilentLoss`: a job leaves the table only after the user was told of its
  death, or dropped it.
* `JobsAreWatched`: a process shown alive still has a handle or a stashed death.
* `DeathsArePublished`, `WaitsReturn` (liveness): a collectable death reaches
  the table, a wait whose children are all dead returns.

Properties of the debugger (`DebugSession`):

* `StoppedIsServed`: the session is stopped exactly while its stop loop is
  served, whichever error leaves it.
* `ExceptionInfoIsCurrent`: the exception reported is that of the present stop.
* `OneShotStopsOnce`: a one-shot entry that stopped is gone, with its number.
* `StepsLand`: no command has run that the arming should have stopped before.
* `DepthIsFrames`: the depth the armings use is the number of frames.
* `TerminatedMeansGone`: after the session has ended no command runs and no stop
  is served, unless a region, a condition or what runs at a stop caught the exit.

* `KeepsProtocol`: the session implements `StopProtocol` (`Frontend` maps `pc`
  and `entryPending` to the phase, and an attached session that has not ended to
  `live`).

Properties of the adapter (`DapAdapter`):

* `RequestsAccounted`: every request is answered at most once, waits in exactly
  one place until then, and requests other than `pause` are answered in order.
* `StopsAreAnnounced`: the client knows of every stop whose requests are served.
* `PauseIsSettled`, `PauseNeverQueues`: no pause is left over at the end, and
  none sent after a resume was answered is queued behind the run.
* `PauseStops`, `VanishedClientEndsIt`, `RequestsAnswered` (liveness): a pause
  stops a run that does not end; if the debuggee does not run for ever, a
  client that vanishes ends the adapter and queued requests are answered.

Properties of the descriptors (`FdTable`):

* `AliasesAreLive`: a descriptor that holds a stdout, in the table or in an undo
  list, names a capture that is still running.
* `ImplementsKernel`: the table implements `Descriptors`.

Properties of the traps (`Traps`):

* `CaughtAreKept`: a signal caught for an action stays in one of the queues
  until the action begins, whoever drains the mailbox.
* `KernelFollowsTable`: where a command of the shell runs, the kernel has the
  dispositions of the trap table.
* `OnlyUntrappedKill`: the shell dies only of signals it has no trap for,
  whatever its subshells did with theirs.
* `SignalsAreServed` (liveness): in a script an action that is owed is begun, if
  actions and subshells end.

`TypeOK`, `SessionTypeOK`, `DapTypeOK`, `FdTypeOK` and `TrapsTypeOK` are the type
invariants.

The debugger runs split the state between them. `debug_steps` has calls two
deep, a region and two files, so that a step crosses a frame, a file or the end
of a region in either direction, and no breakpoints; `debug_conditions` has two
breakpoint numbers and one function, so that two entries compete for a seam, and
no regions around the program; it looks at states without `passed` (`ButPassed`),
which no action reads and only `StepsLand` needs. `StepsAlwaysLand` and the other theorems cover
both together. `Does` names what the program and the user do in a run besides.
`returnAtFrameReturn` and `breakAtFrameEdge` break `DepthIsFrames` and
`StepsLand`, and what needs conditions or exits in regions of an evaluation
(`stopInCondition`, `exitInCondition`, `subshellExit`) needs no second run: these
five are only in `debug_conditions`. A program under a debugger may stay stopped
for ever, so no fairness is assumed there.

In `dap` the client may open the conversation in any way, and goes on for three
more requests with one that was opened properly (`OpenedProperly`): enough for
an evaluation, a resume and a pause in every order, with two requests sent
ahead of their replies. In `fds`, fd 1 and fd 2 and two dynamic descriptors
below the limit let an allocation find the first, the second or none; `Juggling`
holds the six redirections with which scripts save, move, swap and restore
stdout. In `traps`, INT and TERM differ in every verdict of the code except
HUP's, and two deliveries may wait in each queue.

Fairness. `ShellFairness` says that a step of a wait that stays possible is
taken (the loops of the code poll every 5 ms) and that a reader which gets its
turn for ever also reads new lines. It is written out with the enabling
conditions instead of `WF_vars`, which TLC would have to evaluate with
`ENABLED` over the large actions. Nothing is assumed of processes, the user or
signals. `DapFairness` is weak fairness of the two threads (the operating
system schedules both, and the locks are held over a few instructions) and of
the poll of the stop flag, which the executor makes before every command;
nothing is assumed of the client, and the debuggee may run for ever.
`TrapsFairness` is weak fairness of the shell's own thread and of the end of a
blocking command; signals need not arrive. That actions and subshells end is a
premise of `SignalsAreServed`, as a program may loop in one.

Every property of a passing run is broken by a mutant in `PROJECT.json`.

## Findings

Two runs end in a violation of what a comment of the code says:

* `find_stale_mark`: a deferred stop or continue is published after the death
  of its process and marks a dead job Stopped or Running for good, because
  `mark_stopped` and `mark_running` do not look at the state they overwrite.
  Only this run checks `PublishedDeathsStay`; without stale marks it is proved (Proofs).
* `find_stolen_signal`: `wait` in a `( )` subshell drains the mailbox of the
  process, judges a signal that was sent to the shell by the reset traps of the
  subshell and drops it, so the shell's trap never runs
  (`job_builtins.rs` 2769, against the rule stated at `trap_exec.rs` 2164). The
  guard of an interactive `sleep` (`external_inner.rs` 4580) does the same.

Known deviations that have no run of their own; a passing run that meets one
does not check the property it breaks, or leaves the case out of its
`Commands`, `Does`, `Outcomes` or `Allowed`.

Jobs:

* `wait -f` of a job recorded stopped whose death the same command has just
  stashed answers 127 (`job_builtins.rs` 2393).

* `bg` of a dead job that is still listed makes it Running (`job_builtins.rs`
  3843), another way to violate `PublishedDeathsStay`.
* `wait $p; wait -n` on one line reports the same job twice, as
  `first_completed_wait_candidate` does not look at the notified flag.
* A trapped signal during `fg` of a pipeline drops the status of a member that
  was already reaped (`job_builtins.rs` 2616): `StatusKept` and
  `JobsAreWatched` fail in `terminal`, which has traps, and hold in
  `foreground`, which has none.

Debugger:

* The false condition of a breakpoint hides a step, and the other breakpoints,
  of the same line (`trap_exec.rs` 9027).
* A frame stays counted for ever in two ways. A return forced or typed at the
  stop of a `finish` leaves `execute_function` before the count goes down
  (`function_calls.rs` 1090; `returnAtFrameReturn` in `Does`). A `break` or
  `continue` typed there or at the stop of a function's entry does so too, after
  the count went up at 664 (786), and a loop of the caller catches it
  (`breakAtFrameEdge`). With either in `Does`, `DepthIsFrames` fails, and later
  `next` and `finish` compare with a depth that is one too high. Only the end of
  a region around the call puts the count right.
* The session ends when an exit is raised, and the exit may then be caught. An
  `exit` in a `( )` subshell, which runs in place, ends the session of a program
  that goes on (`command_dispatch_primary.rs` 429). So do `quit` and `kill` at a
  stop in such a subshell (`trap_exec.rs` 8797-8809, caught at
  `compound_exec.rs` 4325-4332), and at an exception stop inside a condition,
  where they are taken for a failed condition (`trap_exec.rs` 9271). An `exit` in
  a subshell that is evaluated at a stop leaves the debuggee parked under an ended
  session. `held` marks these: `TerminatedMeansGone` without `~held` fails in
  `debug_steps`. The program goes on undebugged; that the ended session never
  parks it again is part of `KeepsProtocol`.
* A breakpoint deleted at a stop inside its own condition still stops
  (`trap_exec.rs` 9102, against the comment at 9091).
* Adapter: an evaluation that unwinds (a typed `return`) never re-enters its
  stop and leaves its reply owed; the next, new stop is then served as the
  re-entry (`dap.rs` 1616) and the client is not told of it. `StopsAreAnnounced`
  fails with `"return"` in `Outcomes`.
* Adapter: `running` stays true while the debuggee is parked at a stop the
  client has not resumed, so a pause sent then raises the flag and stops the
  next run; a second pause overwrites the slot of the first; a pause that is
  owed a reply when the client detaches is not answered.

Descriptors (names of `Allowed`):

* `redup`: a duplicate of a descriptor that already stands for an earlier
  stdout, made inside a later capture, stands for the later one (`fd_table.rs`
  778 records the generation of the moment).
* `reuse`: a `{var}` redirection avoids a descriptor that the same command has
  just closed, where the kernel would give it out again.

Traps:

* A signal that arrives while the dispositions of a subshell's own `trap` are
  still in the process, which the next boundary of the shell puts right, is
  judged by them: it can kill a shell that has a trap for it (`Arrive`).
* A subshell started by an action leaves its dispositions until the action ends,
  as the poll returns before the reconcile (`trap_exec.rs` 2175; `kill.rs` says
  they never lag by more than one command): `subshellInAction` in `Does`.
* A `wait` in a subshell judges the signals of the shell by the subshell's table
  (`find_stolen_signal`); so a session even dies of a SIGHUP it has a trap for:
  `waitInSubshell` in `Does`.
* An action that ends by `return` drops what was drained with its signal
  (`trap_exec.rs` 2462): `return` in `Does`.
* A SIGINT without a trap, or another untrapped signal of a session, drops the
  trapped signals that were drained with it (`Dropped`; `trap_exec.rs` 2583,
  against the comment at 2500 that they are queued again). `CaughtAreKept` does
  not count these as owed any more.
* A signal left in its slot when its trap, the last one, is taken away survives
  there, and is given to the action of a later trap.

## Proofs

`JobTableProofs` proves, for any set of pids, any statuses, any number of jobs
and any CHILD_MAX, that the reachable tables satisfy

    TableInv(T) == TypeCorrect(T) /\ IndexAgrees(T) /\ JobsFollowProcesses(T) /\ MarkersValid(T)

The conjunction is inductive where its parts are not: a removal keeps the
markers valid only because the index names every entry's pids, and
recomputation needs the types. There is one lemma per table operation
(`...OK`), the step lemma splits on the actions of `Next` and cites them, and
the theorems of the single properties (`TableTypeCorrect`, `IndexNeverDiverges`,
`JobsAlwaysRecomputed`, `MarkersNeverDangle`) follow from `TableInvariant`.
The assumptions are those of `JobTableAssumption`.

`ShellProofs` proves, for any processes and statuses, any value of `Commands`
and every kind of shell, that `ShellSpec` keeps

    ShellInv == Sound(Now, ...) /\ PcOK(pc, ...) /\ AnsOK(ans, ...)

A handler is a chain of operators on the record `W`, so the invariant is a
predicate `Sound` of that record and each link of a chain is one lemma
(`RefreshSound`, `CleanupSound`, `EmitNoticesSound`, ...). In the middle of a
chain a death may have been collected and not yet stashed or published: the last
argument of `Sound` is the set of these, empty between two steps. What makes
it inductive, beside the four table invariants:

* every process that was started is held, stashed, saved or let go
  (`Accounted`), and a handle is held only of a process that is not collected
  and has an entry (`KidsLive`): `StatusesAreKept`, `WaitFindsChildren`;
* a saved status is the one the process died with, or the 0 disown made up of
  a process that has no entry any more (`StatusTrue`, `AssumedGone`), so that no
  later death overwrites it: `WaitAnswersTruly`;
* an entry says Completed only of a published death, and a notified entry whose
  process is dead was told of (`DeadEntries`, `NotedTold`), which is what the
  deletion of dead jobs relies on: `LossesAreTold`.

`ShellKeepsTable` states the four table invariants for the whole shell.
`AliveIsWatched` and `DeathsStayPublished` assume `NoStaleMarks`: no job control,
or neither `kill` nor `bg`. The finding `find_stale_mark` shows what happens
otherwise. `JobEffectsProofs` restates the table operations as what they do to
the entry of one process; its lemmas are for jobs of one process, which is what
`ShellSpec` launches. Jobs of several processes appear in `TerminalSpec` only.

The provers have no induction over data. Where a proof needs one (the marks
published in order, the filters of `Vectors`, the sorted operands of a bare
`wait`), it takes a least counterexample instead: `LeastNat` of
`VectorsProofs`, from the well-foundedness of the naturals.

`DebugSessionProofs` proves the properties of the session for every program
and every set of breakpoints. For every value of `Does`:

* `ExceptionInformation`: a step either parks the session, and then sets the
  exception with the stop, or leaves both alone and does not enter the stopped
  state (`StepParksOrRuns`).
* `OneShotBreakpoints`: from `NumbersInv`, which adds that every number in use
  or spent is below `nextId`; without it an insertion could bring a spent
  number back.
* `StopsAreServed`: from `ServeInv`, which adds that a session that has not
  ended keeps its gate armed, so the entry stop cannot be passed by, and that a
  served stop never goes on inside the stop loop. One lemma per kind of step
  (parking, running, staying at a stop, ending, resuming), cited action by
  action.
* `SessionKeepsProtocol`: every step of the detailed session, with its
  conditions, nested stops, forced returns and exits, is a step of `StopProtocol`
  or leaves its view alone; from `ServeInv` and the fact that the entry stop is
  pending only before the first stop.
* `SessionTyped`: two parts need an argument. The depth stays a natural number
  because a frame that returns is on the stack and every frame on the stack is
  counted, in the program and in each region that is open (`FrameInv`,
  `RegionsInv`). An ignore count does because the entries that spend a credit
  are asked before the first one without (`FirstUncreditedHits`).
* `EndedMeansGone`: from `ServeInv`, as each way out of a stop under an ended
  session unwinds, and each step that catches an exit sets `held`.

Two hold without a deviation, which their hypotheses name:

* `DepthCountsFrames`, if the user neither returns from the stop of a `finish` nor
  breaks from a stop at the edge of a function (`FramesArePopped`): depth and
  stack agree until an exit unwinds, and a region that ends puts back a depth
  that agreed as it began.
* `StepsAlwaysLand`, without conditions and with `FramesArePopped`: a command
  runs past the consult only if the rule let it, and the depth the rule
  compares is the number of frames.

`DapProofs` proves the safety properties of the adapter for any requests and
conversations of any length. The invariant is

    DapInv == Types /\ Control /\ Accounts

`Control` says where the two threads can be together and what the lock of
`session_flag` protects: once the flag is taken away nobody notes a pause.
`Accounts` says where each request is: the one being served, the pause that is
owed an answer, the evaluation whose stop is to be re-entered and the channel
hold different requests, in the order they were sent, and the replies count all
others. `StopsAreTold` assumes that no evaluation unwinds (`NoReturn`), which is
the deviation of `dap.rs` 1616.

`FdTableProofs` proves, for any descriptors, files, programs, limits and depths
of nesting, and assuming only that the program triggers neither deviation
(`NoDeviations`), that `FdTable` implements `Descriptors` (`TableImplementsKernel`),
with `AliasesStayLive` and `FdTypes`. The invariant is

    FdInv == Typed /\ DepthsChain /\ ChildrenWhole /\ CopiesGrow /\ AliasesAreLive

`DepthsChain` ties the capture depth a frame remembers to the frames above it,
`ChildrenWhole` says a child shell saved the whole table, and `CopiesGrow` that
what a command saved was saved no deeper than it runs. They are needed because a
record is an index into the captures of the moment it was made: resolved again
when a frame puts it back, it means the same only if the captures in between are
gone and those below are still there.

`TrapsProofs` proves, for any signals and queues of any length:

* `TrapsTyped`, for every program.
* `DispositionsFollowTraps`, if actions start no subshell (`ActionsStayInside`).
  The inductive invariant adds that the dispositions are the table's all through
  an action, where no boundary reconciles them, and that a subshell runs outside
  actions and dispatches.
* `CaughtSignalsAreKept`, if besides actions run out (`ActionsRunOut`) and
  subshells do not `wait` (`SubshellsDoNotWait`, the finding
  `find_stolen_signal`). The invariant `Kept` adds that `PENDING_ANY` is raised
  whenever `SELF_SIGNALS` holds something, that what a drain took is dispatched
  before the next drain, and that signals are owed only to actions of the shell's
  own table; with these a drain finds what is owed and whoever puts signals back
  keeps it findable.
* `TrappedSignalsNeverKill`, under `ActionsStayInside` and `SubshellsDoNotWait`,
  if no signal arrives while the dispositions of a subshell are in the process
  (`SubshellsAreCalm`). Actions may end by `return` here.

Each hypothesis excludes a deviation listed above, and TLC finds the property
violated without it. Only model-checked: all liveness (`DeathsArePublished`,
`WaitsReturn`, `PauseStops`, `VanishedClientEndsIt`, `RequestsAnswered`,
`SignalsAreServed`), as fairness is out of the prover's reach, and the properties
of `TerminalSpec`, whose jobs have several processes.

## Not modelled

In the debugger: watches, hit counts, command lists, the resolution of
breakpoints and the views of a stop, none of which changes a decision to stop;
substitutions that run in an executor of their own, which has no session; the
EXIT action, which after a `quit` runs under an ended session; functions and
nested regions inside a DEBUG action, a condition or an evaluation; what the
adapter's responses carry.

Within job control: coprocesses, process substitutions, the SIGCHLD trap,
command substitutions' own job tables, `exit` with stopped jobs, `nohup` flags,
jobspec strings, `wait -p`, the reuse of pids by the system. A status above 128 is
taken for a death by signal; deaths by SIGINT, by SIGPIPE and by signals the shell
traps, which print nothing (`job_builtins.rs` 1738-1765), do not occur.

Of the descriptors: the read side, process substitutions and coprocess ends.
Of the traps: a `( )` subshell refused before its body (a restricted redirection,
an assignment that fails), which returns without putting the traps back
(`compound_exec.rs` 4153, 4166), CHLD, QUIT, the stop class and the fatal signals, the actions of
EXIT, DEBUG, ERR and RETURN, the SIGINT hold of foreground children, a death
noted by a `sleep` that forgets its signal, in-process child shells and the file
mailbox of Windows.

The rest of the crate, most of its lines, is sequential text processing: lexer,
parser, expansion, arithmetic and the builtins turn words into words, keep no
state between calls that others interleave with, and are compared with the
reference shell by the conformance tests. A model of them would be a
transliteration. `PROJECT.json` gives the reason part by part.

## Plan

Done: the job table and the shell over it; the debugger session, the protocol
it keeps and the adapter over that protocol; the descriptor table against the
kernel's; traps and pending signals; the proofs above. Left, in this order:

1. The table invariants of `TerminalSpec`, then `StatusKept` for it, which needs
   the lemmas of `JobEffectsProofs` for jobs of several processes.
2. The in-process child shell that parks the queue of signals.
3. Variable stores, scopes and the save and restore of a subshell's state.
4. Jobspec resolution, history limits and `getopts` against reference
   definitions.
