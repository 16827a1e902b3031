------------------------------- MODULE Traps -------------------------------
(***************************************************************************)
(* Signals the shell catches: the mailbox of src/src/builtins/kill.rs, the *)
(* trap table of builtins/trap.rs and the dispatch of trap_exec.rs.        *)
(*                                                                         *)
(*   table, top        the trap of each signal in the shell that runs:     *)
(*                     "none", "ignore", "action", or "reset" in a         *)
(*                     subshell that inherited an action; top is that of   *)
(*                     the shell itself while a subshell runs              *)
(*   inside            a ( ) subshell, which shares the process, runs      *)
(*   disp              the disposition the kernel has for each signal      *)
(*   slots             the signals the handler caught since the last drain *)
(*   selfq, anyPending SELF_SIGNALS and PENDING_ANY                        *)
(*   ancestor          ANCESTOR_SIGNALS: sent to the shell by a subshell   *)
(*   queue             what a drain took and has not dispatched yet        *)
(*   at                "boundary", "polled" (dispositions are reconciled), *)
(*                     "dispatch", "command", "blocked" (a foreground      *)
(*                     child, or sleep), "waiting" (the wait builtin),     *)
(*                     "over"                                              *)
(*   acting            the signal whose action runs                        *)
(*   exitTrap, interactive   settings of the program that is run           *)
(*                                                                         *)
(* owed and death are history: the signals caught for an action that has   *)
(* not begun, and how the shell died.  Kernel deliveries of one signal     *)
(* coalesce in its slot.  All signals are terminating ones; the ignored    *)
(* (CHLD, QUIT, WINCH) and the stopping ones are left out.                 *)
(***************************************************************************)
EXTENDS Vectors, Functions

CONSTANTS
    Numbered,   \* the signals, as a sequence in the order of their numbers
    Modes,      \* the values of interactive that are explored
    Does,       \* what the program does besides: see the guards
    MaxQueue    \* bound: signals waiting in a queue of the process

Signals == Range(Numbered)
Nothing == "nothing"

VARIABLES table, top, inside, disp, slots, selfq, anyPending, ancestor, queue,
          at, acting, exitTrap, interactive, owed, death

ASSUME TrapsAssumption ==
    MaxQueue \in Nat /\ Numbered \in Seq(Signals) /\ Modes \subseteq BOOLEAN /\ Nothing \notin Signals

kernel == <<disp, slots>>
mailbox == <<selfq, anyPending, ancestor>>
traps == <<table, top, inside>>
settings == <<exitTrap, interactive>>
history == <<owed, death>>
trapVars == <<traps, kernel, mailbox, queue, at, acting, settings, history>>

NoTraps == [s \in Signals |-> "none"]

\* The traps of the shell the signals are sent to.
Owned == IF inside THEN top ELSE table
Owner(s) == Owned[s]

-----------------------------------------------------------------------------
(* Dispositions: reconcile_kernel_trap_dispositions. *)

Wish(t, s) ==
    CASE t[s] = "action" -> "handler"
      [] t[s] = "ignore" -> "ignore"
      [] t[s] = "reset" -> "default"
      [] OTHER -> IF exitTrap \/ (interactive /\ s \in {"INT", "HUP"}) THEN "handler"
                  ELSE IF interactive /\ s = "TERM" THEN "ignore" ELSE "default"

Reconciled(t) == [s \in Signals |-> Wish(t, s)]

\* One flag for both sources.
MutHandlerAny == anyPending /\ \E s \in Signals : disp[s] = "handler"

HandlerAny == \E s \in Signals : disp[s] = "handler"

Over(s) == [by |-> s, trap |-> Owner(s)]

\* A signal reaches the process: what the kernel does with it.
Kernel(s) ==
    CASE disp[s] = "handler" ->
           /\ slots' = slots \cup {s}
           /\ owed' = IF Owner(s) = "action" THEN owed \cup {s} ELSE owed
           /\ UNCHANGED death
      [] disp[s] = "ignore" -> UNCHANGED <<slots, owed, death>>
      [] disp[s] = "default" -> death' = Over(s) /\ UNCHANGED <<slots, owed>>

\* From another process.  A subshell that has set traps has left dispositions
\* of its own in the process, which the next boundary of the shell puts right:
\* signals in between are a deviation (README).
Arrive(s) ==
    /\ at # "over" /\ Len(selfq) < MaxQueue
    /\ disp # Reconciled(Owned) => "signalsInSubshell" \in Does
    /\ Kernel(s)
    /\ at' = IF disp[s] = "default" THEN "over" ELSE at
    /\ UNCHANGED <<traps, disp, mailbox, queue, acting, settings>>

-----------------------------------------------------------------------------
(* The mailbox. *)

\* take_all_signals: each source is looked at when it may hold something.
Taken ==
    (IF anyPending THEN selfq ELSE << >>)
        \o (IF HandlerAny THEN Retain(Numbered, slots) ELSE << >>)

\* The signals that go back do not raise the flag again.
MutDrain(back) ==
    IF anyPending \/ HandlerAny
    THEN /\ selfq' = back
         /\ anyPending' = (anyPending /\ HandlerAny)
         /\ slots' = IF HandlerAny THEN {} ELSE slots
    ELSE UNCHANGED <<selfq, anyPending, slots>>

\* take_all_signals, and requeue_pending_signals of what goes back.  The flag
\* comes down only when there is no handler either.
Drain(back) ==
    IF anyPending \/ HandlerAny
    THEN /\ selfq' = back
         /\ anyPending' = (back # << >> \/ (anyPending /\ HandlerAny))
         /\ slots' = IF HandlerAny THEN {} ELSE slots
    ELSE UNCHANGED <<selfq, anyPending, slots>>

-----------------------------------------------------------------------------
(* Verdicts on a signal without a trap. *)

Untrapped(s) == table[s] \in {"none", "reset"}

\* termsig_death_armed
Armed(s) == ~(interactive /\ s = "INT") /\ ((exitTrap /\ ~inside) \/ (interactive /\ s = "HUP"))

\* A routed interrupt of a script is absorbed.
Absorbed(m) == m.routed /\ m.sig = "INT" /\ ~interactive /\ ~Armed(m.sig)

\* What is drained with a signal that is given up is dropped (README).
Dropped == owed' = owed \cap (slots' \cup Range(selfq') \cup Range(ancestor'))

\* The command that was running is given up: a subshell ends, a session goes
\* on with the next line, a script dies.
Abort(s) ==
    /\ queue' = << >> /\ acting' = Nothing
    /\ inside' = FALSE /\ table' = Owned /\ top' = NoTraps
    /\ IF Armed(s) \/ ~(inside \/ interactive)
       THEN at' = "over" /\ death' = Over(s)
       ELSE at' = "boundary" /\ UNCHANGED death
    /\ IF interactive /\ ~inside THEN Dropped ELSE UNCHANGED owed

-----------------------------------------------------------------------------
(* run_pending_signal_traps *)

\* The mailbox is the shell's: not while an action or a subshell runs.
Suspended == acting # Nothing \/ inside

PassBy ==
    /\ at = "boundary" /\ Suspended
    /\ at' = "command"
    /\ UNCHANGED <<traps, kernel, mailbox, queue, acting, settings, history>>

\* The dispositions are left to the trap builtin.
MutPoll ==
    /\ at = "boundary" /\ ~Suspended
    /\ at' = "polled"
    /\ UNCHANGED <<traps, kernel, mailbox, queue, acting, settings, history>>

Poll ==
    /\ at = "boundary" /\ ~Suspended
    /\ disp' = Reconciled(table)
    /\ at' = "polled"
    /\ UNCHANGED <<traps, slots, mailbox, queue, acting, settings, history>>

\* The deliveries of subshells go first.
TakePending ==
    /\ at = "polled"
    /\ queue' = [i \in DOMAIN ancestor |-> [sig |-> ancestor[i], routed |-> TRUE]]
                  \o [i \in DOMAIN Taken |-> [sig |-> Taken[i], routed |-> FALSE]]
    /\ Drain(<< >>)
    /\ ancestor' = << >>
    /\ at' = "dispatch"
    /\ UNCHANGED <<traps, disp, acting, settings, history>>

\* Caught before its trap was taken away.
Stale(m) == ~m.routed /\ disp[m.sig] # "handler"

\* The signals that need nothing: stale, ignored or absorbed.
Skip ==
    /\ at = "dispatch" /\ queue # << >>
    /\ \/ Stale(Head(queue))
       \/ table[Head(queue).sig] = "ignore"
       \/ Untrapped(Head(queue).sig) /\ Absorbed(Head(queue))
    /\ queue' = Tail(queue)
    /\ UNCHANGED <<traps, kernel, mailbox, at, acting, settings, history>>

Condemn ==
    /\ at = "dispatch" /\ queue # << >>
    /\ ~Stale(Head(queue)) /\ Untrapped(Head(queue).sig) /\ ~Absorbed(Head(queue))
    /\ UNCHANGED <<kernel, mailbox, settings>>
    /\ Abort(Head(queue).sig)

BeginAction ==
    /\ at = "dispatch" /\ queue # << >>
    /\ ~Stale(Head(queue)) /\ table[Head(queue).sig] = "action"
    /\ acting' = Head(queue).sig
    /\ queue' = Tail(queue)
    /\ owed' = (owed \ {acting'}) \cup ({acting'} \cap slots)
    /\ at' = "boundary"
    /\ UNCHANGED <<traps, kernel, mailbox, settings, death>>

\* The rest of the queue is dispatched, unless the action left by an error.
EndAction ==
    /\ at = "command" /\ acting # Nothing /\ ~inside
    /\ acting' = Nothing
    /\ IF "return" \in Does
       THEN queue' = << >> /\ at' = "boundary"
       ELSE at' = "dispatch" /\ UNCHANGED queue
    /\ UNCHANGED <<traps, kernel, mailbox, settings, history>>

Dispatched ==
    /\ at = "dispatch" /\ queue = << >>
    /\ at' = "command"
    /\ UNCHANGED <<traps, kernel, mailbox, queue, acting, settings, history>>

-----------------------------------------------------------------------------
(* Commands. *)

Completes == at = "command" /\ at' = "boundary"

Command ==
    /\ Completes
    /\ UNCHANGED <<traps, kernel, mailbox, queue, acting, settings, history>>

\* trap: the kernel follows at once.
Trap(s, trap) ==
    /\ Completes
    /\ table' = [table EXCEPT ![s] = trap]
    /\ disp' = Reconciled(table')
    /\ owed' = IF inside \/ trap = "action" THEN owed ELSE owed \ {s}
    /\ UNCHANGED <<top, inside, slots, mailbox, queue, acting, settings, death>>

\* A subshell signals the process like anybody else.
MutKill(s) ==
    /\ at = "command" /\ Len(selfq) < MaxQueue
    /\ Kernel(s)
    /\ at' = IF death' # death THEN "over" ELSE "boundary"
    /\ UNCHANGED <<traps, disp, mailbox, queue, acting, settings>>

\* kill -s $$: what a subshell sends is kept for the shell to judge.
Kill(s) ==
    /\ at = "command" /\ Len(ancestor \o selfq) < MaxQueue
    /\ IF inside
       THEN /\ ancestor' = Append(ancestor, s)
            /\ anyPending' = TRUE
            /\ owed' = IF Owner(s) = "action" THEN owed \cup {s} ELSE owed
            /\ UNCHANGED <<slots, death>>
       ELSE Kernel(s) /\ UNCHANGED <<ancestor, anyPending>>
    /\ at' = IF death' # death THEN "over" ELSE "boundary"
    /\ UNCHANGED <<traps, disp, selfq, queue, acting, settings>>

\* reset_for_subshell_child: actions are not inherited, ignores are.
EnterSubshell ==
    /\ Completes /\ ~inside
    /\ acting # Nothing => "subshellInAction" \in Does
    /\ inside' = TRUE
    /\ top' = table
    /\ table' = [s \in Signals |-> IF table[s] = "action" THEN "reset" ELSE table[s]]
    /\ UNCHANGED <<kernel, mailbox, queue, acting, settings, history>>

\* The reset traps outlive the subshell.
MutLeaveSubshell ==
    /\ Completes /\ inside
    /\ inside' = FALSE
    /\ top' = NoTraps
    /\ UNCHANGED <<table, kernel, mailbox, queue, acting, settings, history>>

\* restore_flat_subshell, of a subshell whose body was reached.  A refused
\* redirection or assignment of the compound returns before the body and
\* leaves the reset traps behind; such a subshell runs nothing.
LeaveSubshell ==
    /\ Completes /\ inside
    /\ inside' = FALSE
    /\ table' = top /\ top' = NoTraps
    /\ UNCHANGED <<kernel, mailbox, queue, acting, settings, history>>

Block ==
    /\ at = "command"
    /\ at' = "blocked"
    /\ UNCHANGED <<traps, kernel, mailbox, queue, acting, settings, history>>

Unblock ==
    /\ at \in {"blocked", "waiting"}
    /\ at' = "boundary"
    /\ UNCHANGED <<traps, kernel, mailbox, queue, acting, settings, history>>

FirstUntrapped(signals) == Head(Retain(signals, {s \in Signals : Untrapped(s)}))

\* take_sigint_abort: a session gives up its sleep for the terminal's SIGINT
\* and leaves the rest.
Interrupt ==
    /\ at = "blocked" /\ interactive /\ "INT" \in Range(Taken)
    /\ Untrapped("INT") /\ disp["INT"] = "handler"
    /\ inside => "waitInSubshell" \in Does
    /\ Drain(Retain(Taken, Signals \ {"INT"}))
    /\ at' = "boundary"
    /\ UNCHANGED <<traps, disp, ancestor, queue, acting, settings, history>>

\* observe_signals_while_blocked, for sleep: actions wait for its end, a SIGINT
\* without a trap ends it or is forgotten.
Observe ==
    /\ at = "blocked" /\ ~Suspended
    /\ UNCHANGED <<disp, ancestor, settings>>
    /\ LET live == Retain(Taken, {s \in Signals : disp[s] = "handler"}) IN
       \/ /\ ~ \E s \in Range(live) : Untrapped(s)
          /\ Drain(Retain(live, {s \in Signals : table[s] = "action"}))
          /\ UNCHANGED <<traps, queue, at, acting, history>>
       \/ /\ \E s \in Range(live) : Untrapped(s)
          /\ Drain(<< >>)
          /\ IF FirstUntrapped(live) = "INT"
             THEN at' \in {at, "boundary"} /\ Dropped /\ UNCHANGED <<traps, queue, acting, death>>
             ELSE Abort(FirstUntrapped(live))

Wait ==
    /\ at = "command"
    /\ inside => "waitInSubshell" \in Does
    /\ at' = "waiting"
    /\ UNCHANGED <<traps, kernel, mailbox, queue, acting, settings, history>>

\* wait_pending_signal_status: a trapped signal ends the wait and is left for
\* the boundary.
WaitPoll ==
    /\ at = "waiting"
    /\ UNCHANGED <<disp, ancestor, settings>>
    /\ LET heard == Retain(Taken, {s \in Signals : table[s] # "ignore"}) IN
       IF heard # << >> /\ Untrapped(Head(heard))
       THEN Drain(<< >>) /\ Abort(Head(heard))
       ELSE /\ Drain(Taken)
            /\ at' = IF heard = << >> THEN at ELSE "boundary"
            /\ UNCHANGED <<traps, queue, acting, history>>

-----------------------------------------------------------------------------
TrapsInit ==
    /\ table = NoTraps /\ top = NoTraps /\ inside = FALSE
    /\ exitTrap \in BOOLEAN /\ interactive \in Modes
    /\ disp = Reconciled(table) /\ slots = {}
    /\ selfq = << >> /\ anyPending = FALSE /\ ancestor = << >> /\ queue = << >>
    /\ at = "boundary" /\ acting = Nothing
    /\ owed = {} /\ death = [by |-> Nothing, trap |-> "none"]

Shell ==
    \/ PassBy \/ Poll \/ TakePending \/ Skip \/ Condemn \/ BeginAction \/ EndAction
    \/ Dispatched \/ Command \/ EnterSubshell \/ LeaveSubshell
    \/ Block \/ Interrupt \/ Observe \/ Unblock \/ Wait \/ WaitPoll
    \/ \E s \in Signals : Kill(s) \/ \E t \in {"none", "ignore", "action"} : Trap(s, t)

TrapsNext == Shell \/ \E s \in Signals : Arrive(s)

TrapsSpec == TrapsInit /\ [][TrapsNext]_trapVars

\* The shell goes on, and a command that blocks it ends.
TrapsFairness == WF_trapVars(Shell) /\ WF_trapVars(Unblock)

FairTrapsSpec == TrapsSpec /\ TrapsFairness

-----------------------------------------------------------------------------
(* What a program that sets traps relies on. *)

Traps == {"none", "ignore", "action", "reset"}

\* Types; a reset trap is one of a subshell, and no more than the dispatch
\* that began it has an action running.
TrapsTypeOK ==
    /\ table \in [Signals -> Traps] /\ top \in [Signals -> Traps \ {"reset"}]
    /\ disp \in [Signals -> {"default", "ignore", "handler"}]
    /\ slots \subseteq Signals /\ owed \subseteq Signals
    /\ {inside, anyPending, exitTrap, interactive} \subseteq BOOLEAN
    /\ {selfq, ancestor} \subseteq Seq(Signals)
    /\ acting \in Signals \cup {Nothing}
    /\ \A s \in Signals : table[s] = "reset" => inside
    /\ at \in {"polled", "dispatch"} => ~Suspended

Pending ==
    slots \cup Range(selfq) \cup Range(ancestor) \cup {m.sig : m \in Range(queue)}

\* A signal caught for an action waits for it somewhere, whoever drains the
\* mailbox meanwhile and whatever flag says it is empty, or was drained with a
\* signal that made a session give up the line or a sleep forget it.
CaughtAreKept == at # "over" => owed \subseteq Pending

\* Where commands of the shell run the kernel has the dispositions of its
\* traps, although subshells change them in the same process.
KernelFollowsTable ==
    at \in {"command", "blocked", "waiting"} /\ ~inside => disp = Reconciled(table)

\* The shell dies only of signals it has no trap for: what a subshell did
\* to its own traps is nothing to the shell.
OnlyUntrappedKill == death.by # Nothing => death.trap = "none"

\* In a script an action that is owed is begun, if actions and subshells come
\* to an end.
SignalsAreServed ==
    ~interactive /\ []<>(at = "over" \/ ~Suspended)
        => \A s \in Signals : s \in owed ~> acting = s \/ s \notin owed \/ at = "over"
=============================================================================
