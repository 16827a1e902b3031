---------------------------- MODULE DebugSession ----------------------------
(***************************************************************************)
(* The debugger: the session of src/src/debugger/session.rs, its           *)
(* breakpoint table and armings, and the executor's side of it in          *)
(* src/src/executor/trap_exec.rs, which asks the session at every seam     *)
(* (the point before a command) and serves its stops.                      *)
(*                                                                         *)
(*   st, arming, scope, stop, exc, filters, async   the DebugSession       *)
(*   bps, nextId       the breakpoint table                                *)
(*   driver, gate      a driver is installed; SESSION_ACTIVE is armed      *)
(*   entryPending      the entry stop has not been served                  *)
(*   depth             shell_state.function_depth                          *)
(*   shells            what the ( ) regions and command substitutions that *)
(*                     run in this executor restore as they end, the       *)
(*                     innermost last                                      *)
(*   pc                what the executor does: "running" commands,         *)
(*                     "consult" (at a seam, its DEBUG action included),   *)
(*                     evaluating a "condition", "parked" at a stop,       *)
(*                     "popping" a frame, "returning" or "exiting" (an     *)
(*                     error that unwinds), "over"                         *)
(*   back              where a served stop goes on                         *)
(*   seam, cond        the seam consulted, the entry whose condition runs  *)
(*                                                                         *)
(* History for the properties: the frames that really are on the call      *)
(* stack, where commands ran since the last resume (passed: how many       *)
(* frames, which file), the one-shot entries that stopped (spent), and     *)
(* whether something inside the program caught an exit that had ended the  *)
(* session (held).                                                         *)
(*                                                                         *)
(* The program is sourced by its driver, so a forced return at depth 0     *)
(* ends it.  Hit counts, watches, command lists and the resolution of      *)
(* breakpoints only feed what a frontend prints and are left out.          *)
(***************************************************************************)
EXTENDS Naturals, Sequences

CONSTANTS
    Lines, FileOf,    \* the seams of the program and the file of each
    Functions,        \* the functions it calls
    Kinds,            \* the exception filters
    NewBreakpoints,   \* the breakpoints the user sets
    Does,             \* what the program and the user do besides
    MaxDepth, MaxId,  \* bounds: call depth, breakpoint numbers
    MaxShells,        \* bound: regions inside one another
    None              \* no line, function, number or exception

VARIABLES st, arming, scope, stop, exc, filters, async, bps, nextId,
          driver, gate, entryPending, depth, pc, back, seam, cond, shells,
          frames, passed, spent, held

\* Breakpoint: where it stops, whether it is enabled, is deleted by its
\* stop, and has a condition, and how many hits it still ignores.
Breakpoint == [target : Lines \cup Functions, enabled : BOOLEAN, one_shot : BOOLEAN,
               ignore : Nat, condition : BOOLEAN]

ASSUME DebugAssumption ==
    /\ MaxDepth \in Nat /\ MaxId \in Nat /\ MaxShells \in Nat
    /\ None \notin Lines \cup Functions \cup Kinds \cup Nat
    /\ NewBreakpoints \subseteq Breakpoint

session == <<st, arming, scope, stop, exc, filters>>
table == <<bps, nextId>>
install == <<driver, gate, entryPending>>
exec == <<depth, pc, back, seam, cond>>
regions == <<shells, held>>
ghost == <<frames, passed, spent>>
vars == <<session, async, table, install, exec, regions, ghost>>

Arm(rule, d) == [rule |-> rule, depth |-> d]
Continue == Arm("Continue", 0)
NoSeam == [line |-> None, function |-> None]
Stop(reason, of, line, d) == [reason |-> reason, of |-> of, line |-> line, depth |-> d]

\* debugger_session_here
Here == gate /\ driver

-----------------------------------------------------------------------------
(* The breakpoint table (breakpoints.rs): ids are never reused. *)

Without(ids) == [i \in DOMAIN bps \ ids |-> bps[i]]

\* line_entries_at and function_entries_named, for the seam at hand.
LineEntries == {i \in DOMAIN bps : bps[i].enabled /\ bps[i].target = seam.line}
FunctionEntries ==
    {i \in DOMAIN bps : bps[i].enabled /\ seam.function # None /\ bps[i].target = seam.function}
Candidates == LineEntries \cup FunctionEntries

\* Line entries are asked before function entries, each in the order of ids.
AskedBefore(i, j) ==
    IF (i \in LineEntries) = (j \in LineEntries) THEN i < j ELSE i \in LineEntries

\* register_hit of the candidates in turn, up to the first that has no
\* ignore credit left: the others spend one each.
Hits == {i \in Candidates : bps[i].ignore = 0 /\
            \A j \in Candidates : AskedBefore(j, i) => bps[j].ignore > 0}
Asked == {i \in Candidates : \A h \in Hits : AskedBefore(i, h)}
CreditSpent ==
    [i \in DOMAIN bps |-> IF i \in Asked THEN [bps[i] EXCEPT !.ignore = @ - 1] ELSE bps[i]]

\* A one-shot entry is deleted when its stop commits, at the hit or in
\* commit_conditional_stop.
MutConsumed(f, i) == f
Consumed(f, i) ==
    IF i \in DOMAIN f /\ f[i].one_shot THEN [j \in DOMAIN f \ {i} |-> f[j]] ELSE f
SpentBy(f, i) == IF i \in DOMAIN f /\ f[i].one_shot THEN spent \cup {i} ELSE spent

-----------------------------------------------------------------------------
(* The armings (stepping.rs). *)

\* An off-by-one in the rule of next.
MutArmingStopsAtSeam ==
    CASE arming.rule = "StepInto" -> TRUE
      [] arming.rule = "StepOver" -> depth < arming.depth
      [] arming.rule \in {"Finish", "StepOutOfFrame"} -> depth < arming.depth
      [] arming.rule = "StepInFile" -> FileOf[seam.line] = scope
      [] OTHER -> FALSE

\* arming_stops_at_seam_in_file
ArmingStopsAtSeam ==
    CASE arming.rule = "StepInto" -> TRUE
      [] arming.rule = "StepOver" -> depth <= arming.depth
      [] arming.rule \in {"Finish", "StepOutOfFrame"} -> depth < arming.depth
      [] arming.rule = "StepInFile" -> FileOf[seam.line] = scope
      [] OTHER -> FALSE

\* arming_stops_at_frame_return
ArmingStopsAtFrameReturn == arming = Arm("Finish", depth)

\* can_stop_at_seam
CanStopAtSeam ==
    /\ st = "Running"
    /\ arming # Continue \/ \E i \in DOMAIN bps : bps[i].enabled

-----------------------------------------------------------------------------
(* Session transitions. *)

\* The exception of an earlier stop is kept.
MutParkAt(info, then) ==
    /\ st' = "Stopped"
    /\ arming' = Continue
    /\ exc' = IF info.reason = "exception" THEN info.of ELSE exc
    /\ stop' = info
    /\ pc' = "parked"
    /\ back' = then
    /\ UNCHANGED <<scope, filters>>

\* stop and debugger_stop_and_serve, of a session that runs.
ParkAt(info, then) ==
    /\ st' = "Stopped"
    /\ arming' = Continue
    /\ exc' = IF info.reason = "exception" THEN info.of ELSE None
    /\ stop' = info
    /\ pc' = "parked"
    /\ back' = then
    /\ UNCHANGED <<scope, filters>>

\* debugger_note_exit: the first report of an exit ends the session.
NoteExit ==
    IF driver /\ st # "Terminated" THEN st' = "Terminated" /\ gate' = FALSE
    ELSE UNCHANGED <<st, gate>>

\* An exit goes no further: the session it ended, if any, is survived.
HoldsExit(here) == held' = (held \/ (here /\ st' = "Terminated"))

-----------------------------------------------------------------------------
(* The debuggee runs. *)

\* run_debug_trap up to the consult.  The first arrival serves the entry stop.
Arrive(s) ==
    /\ seam' = s
    /\ IF Here /\ entryPending
       THEN entryPending' = FALSE /\ pc' = "parked" /\ back' = "consult"
       ELSE pc' = "consult" /\ UNCHANGED <<entryPending, back>>
    /\ UNCHANGED <<session, async, table, driver, gate, cond, passed, spent, regions>>

Command ==
    /\ pc = "running"
    /\ \E l \in Lines : Arrive([line |-> l, function |-> None])
    /\ UNCHANGED <<depth, frames>>

Call ==
    /\ pc = "running"
    /\ depth < MaxDepth
    /\ depth' = depth + 1
    /\ frames' = frames + 1
    /\ \E l \in Lines, f \in Functions : Arrive([line |-> l, function |-> f])

\* The consult lets the command run.
Proceed ==
    /\ pc' = "running"
    /\ seam' = NoSeam
    /\ cond' = None
    /\ passed' = passed \cup {[frames |-> frames, file |-> FileOf[seam.line]]}

\* debugger_consult: nothing can stop here, or nothing does.
PassSeam ==
    /\ pc = "consult"
    /\ ~(Here /\ CanStopAtSeam) \/ (Hits = {} /\ ~ArmingStopsAtSeam)
    /\ bps' = IF Here /\ CanStopAtSeam THEN CreditSpent ELSE bps
    /\ Proceed
    /\ UNCHANGED <<session, async, nextId, install, depth, back, frames, spent, regions>>

\* Under extdebug a failing DEBUG action skips the command and the consult.
Veto ==
    /\ pc = "consult"
    /\ pc' = "running"
    /\ seam' = NoSeam
    /\ UNCHANGED <<session, async, table, install, depth, back, cond, regions, ghost>>

\* The first entry that is hit decides, by itself or by its condition.
StopAtBreakpoint ==
    /\ pc = "consult" /\ Here /\ CanStopAtSeam
    /\ \E i \in Hits :
          /\ ~bps[i].condition
          /\ bps' = Consumed(CreditSpent, i)
          /\ spent' = SpentBy(bps, i)
          /\ ParkAt(Stop("breakpoint", i, seam.line, depth), "running")
    /\ UNCHANGED <<async, nextId, install, depth, seam, cond, frames, passed, regions>>

EvaluateCondition ==
    /\ pc = "consult" /\ Here /\ CanStopAtSeam
    /\ \E i \in Hits : bps[i].condition /\ cond' = i
    /\ bps' = CreditSpent
    /\ pc' = "condition"
    /\ UNCHANGED <<session, async, nextId, install, depth, back, seam, regions, ghost>>

StopAtStep ==
    /\ pc = "consult" /\ Here /\ CanStopAtSeam
    /\ Hits = {} /\ ArmingStopsAtSeam
    /\ bps' = CreditSpent
    /\ ParkAt(Stop("step", None, seam.line, depth), "running")
    /\ UNCHANGED <<async, nextId, install, depth, seam, cond, regions, ghost>>

\* evaluate_debug_condition gave its verdict.  A stop lands only in a
\* session that still runs.
ConditionTrue ==
    /\ pc = "condition"
    /\ bps' = Consumed(bps, cond)
    /\ spent' = SpentBy(bps, cond)
    /\ IF driver /\ st = "Running"
       THEN /\ ParkAt(Stop("breakpoint", cond, seam.line, depth), "running")
            /\ cond' = None
            /\ UNCHANGED <<seam, passed>>
       ELSE Proceed /\ UNCHANGED <<session, back>>
    /\ UNCHANGED <<async, nextId, install, depth, frames, regions>>

\* False, or failed: the command runs.
ConditionFalse ==
    /\ pc = "condition"
    /\ Proceed
    /\ UNCHANGED <<session, async, table, install, depth, back, frames, spent, regions>>

\* The condition runs the exit builtin: the exit itself only fails it.
ConditionExits ==
    /\ pc = "condition" /\ "exitInCondition" \in Does
    /\ NoteExit
    /\ HoldsExit(TRUE)
    /\ Proceed
    /\ UNCHANGED <<arming, scope, stop, exc, filters, async, table, driver, entryPending,
                   depth, back, shells, frames, spent>>

\* Commands run in the program, in a DEBUG action or in a condition.
Executing == pc \in {"running", "consult"} \/ (pc = "condition" /\ "stopInCondition" \in Does)

\* debugger_note_exception_site: before an ERR action or an errexit.
ExceptionSite ==
    /\ Executing
    /\ Here /\ st = "Running"
    /\ \E k \in filters, l \in Lines : ParkAt(Stop("exception", k, l, depth), pc)
    /\ UNCHANGED <<async, table, install, depth, seam, cond, regions, ghost>>

\* The flag is read and left set.
MutBoundaryPoll ==
    /\ pc = "running" /\ Here /\ async
    /\ st = "Running"
    /\ \E l \in Lines : ParkAt(Stop("pause", None, l, depth), "running")
    /\ UNCHANGED <<async, table, install, depth, seam, cond, regions, ghost>>

\* debugger_service_async_stop, at the boundary poll between commands,
\* which waits while a DEBUG action, an ERR action or a condition runs.
BoundaryPoll ==
    /\ pc = "running" /\ Here /\ async
    /\ async' = FALSE
    /\ IF st = "Running" THEN \E l \in Lines : ParkAt(Stop("pause", None, l, depth), "running")
       ELSE UNCHANGED <<session, pc, back>>
    /\ UNCHANGED <<table, install, depth, seam, cond, regions, ghost>>

\* request_async_stop, from a signal or another thread.
RequestAsyncStop ==
    /\ pc # "over"
    /\ async' = TRUE
    /\ UNCHANGED <<session, table, install, exec, regions, ghost>>

\* The frames that were on the stack when the innermost region began.
Base == IF shells = <<>> THEN 0 ELSE shells[Len(shells)].frames

\* debugger_note_frame_returned, then the frame is taken down.  A function
\* catches a return that unwinds.
Pop ==
    /\ depth' = depth - 1
    /\ frames' = frames - 1
    /\ pc' = "running"

FrameReturned ==
    /\ pc \in {"running", "returning"} /\ frames > Base
    /\ IF Here /\ st = "Running" /\ ArmingStopsAtFrameReturn
       THEN /\ \E l \in Lines : ParkAt(Stop("step", None, l, depth - 1), "popping")
            /\ UNCHANGED <<depth, frames>>
       ELSE Pop /\ UNCHANGED <<session, back>>
    /\ UNCHANGED <<async, table, install, seam, cond, passed, spent, regions>>

\* The stop leaves the count of frames as it is.
MutPopAfterStop ==
    /\ pc = "popping"
    /\ depth' = depth
    /\ frames' = frames - 1
    /\ pc' = "running"
    /\ UNCHANGED <<session, async, table, install, back, seam, cond, passed, spent, regions>>

PopAfterStop ==
    /\ pc = "popping"
    /\ Pop
    /\ UNCHANGED <<session, async, table, install, back, seam, cond, passed, spent, regions>>

\* The program exits: by the exit builtin, in a DEBUG action as well, or by
\* an error, which the session is not told of.
Exits ==
    /\ pc \in {"running", "consult"} /\ ~entryPending
    /\ NoteExit \/ UNCHANGED <<st, gate>>
    /\ pc' = "exiting"
    /\ seam' = NoSeam
    /\ UNCHANGED <<arming, scope, stop, exc, filters, async, table, driver, entryPending,
                   depth, back, cond, regions, ghost>>

\* A ( ) region or a command substitution that runs in this executor: what
\* its body does to the shell is undone at its end, the count of frames too.
EnterSubshell ==
    /\ pc = "running" /\ Len(shells) < MaxShells
    /\ shells' = Append(shells, [depth |-> depth, frames |-> frames])
    /\ UNCHANGED <<session, async, table, install, exec, held, ghost>>

\* The body ended, returned or exited: its end catches a return and an exit.
LeaveSubshell ==
    /\ shells # <<>>
    /\ pc = "exiting" \/ (pc \in {"running", "returning"} /\ frames = Base)
    /\ depth' = shells[Len(shells)].depth
    /\ frames' = Base
    /\ shells' = SubSeq(shells, 1, Len(shells) - 1)
    /\ pc' = "running"
    /\ UNCHANGED <<session, async, table, install, back, seam, cond, passed, spent>>
    /\ HoldsExit(pc = "exiting")

\* The program ends, by itself or unwound; the driver is dropped after it.
Finish ==
    /\ shells = <<>>
    /\ pc = "exiting" \/ (pc \in {"running", "returning"} /\ frames = 0)
    /\ st' = IF driver THEN "Terminated" ELSE st
    /\ gate' = FALSE
    /\ pc' = "over"
    /\ UNCHANGED <<arming, scope, stop, exc, filters, async, table, driver, entryPending,
                   depth, back, seam, cond, regions, ghost>>

-----------------------------------------------------------------------------
(* The user at a stop (cli.rs), and debugger_serve_stop. *)

\* What a served stop goes on with.
GoOn ==
    /\ pc' = back /\ back' = "running"
    /\ seam' = IF back = "running" THEN NoSeam ELSE seam
    /\ UNCHANGED <<depth, cond, regions, frames>>

\* The stop of the seam a function is entered by.
AtEntry == seam.function # None /\ back \in {"running", "consult"}

\* The function is left without being taken off the count: by any error from
\* the stop at its end, by any but a return from the stop at its entry.
Abandons(as) == back = "popping" \/ (AtEntry /\ as # "returning")

\* The stop's error is dropped and the command runs.
MutUnwind(as) ==
    /\ frames' = IF Abandons(as) THEN frames - 1 ELSE frames
    /\ pc' = "running" /\ back' = "running"
    /\ seam' = NoSeam
    /\ cond' = None
    /\ HoldsExit(back = "condition")
    /\ UNCHANGED <<depth, shells>>

\* An error leaves the stop; a condition swallows it.
Unwind(as) ==
    /\ frames' = IF Abandons(as) THEN frames - 1 ELSE frames
    /\ pc' = IF back = "condition" THEN "running" ELSE as
    /\ back' = "running"
    /\ seam' = NoSeam
    /\ cond' = None
    /\ HoldsExit(back = "condition")
    /\ UNCHANGED <<depth, shells>>

\* A stop at line None is the entry stop: step+ then means the program.
StopFile == IF stop.line = None THEN FileOf[CHOOSE l \in Lines : TRUE] ELSE FileOf[stop.line]

Armings == {Continue, Arm("StepInto", 0), Arm("StepInFile", 0)} \cup
           {Arm(r, stop.depth) : r \in {"StepOver", "Finish", "StepOutOfFrame"}}

\* A session that ended while it was parked has nothing to resume.
Resume ==
    /\ pc = "parked"
    /\ \E a \in Armings :
          /\ scope' = IF a.rule = "StepInFile" THEN StopFile ELSE scope
          /\ IF st = "Stopped" THEN st' = "Running" /\ arming' = a /\ passed' = {} /\ GoOn
             ELSE UNCHANGED <<st, arming, passed>> /\ Unwind("exiting")
    /\ UNCHANGED <<stop, exc, filters, async, table, install, spent>>

\* Whether the user returns from a stop at the end of a frame.
CanUnwindHere == back = "popping" => "returnAtFrameReturn" \in Does

\* Whether the user breaks out of a loop of the caller, from a stop at the
\* entry or the end of a function.
CanBreakHere == Abandons("running") => "breakAtFrameEdge" \in Does

\* return: the frame is left by an error, under a finish arming.
ForceReturn ==
    /\ pc = "parked" /\ "forceReturn" \in Does
    /\ CanUnwindHere
    /\ ~(stop.depth = 0 /\ stop.reason = "entry")
    /\ IF st = "Stopped"
       THEN /\ st' = "Running"
            /\ arming' = IF depth > 0 THEN Arm("Finish", depth) ELSE Arm("StepOver", 0)
            /\ passed' = {}
            /\ Unwind("returning")
       ELSE UNCHANGED <<st, arming, passed>> /\ Unwind("exiting")
    /\ UNCHANGED <<scope, stop, exc, filters, async, table, install, spent>>

\* The typed return leaves the session parked.
MutEvaluateReturn ==
    /\ pc = "parked" /\ "evalReturn" \in Does
    /\ CanUnwindHere
    /\ Unwind("returning")
    /\ UNCHANGED <<session, async, table, install, passed, spent>>

\* An evaluation that runs return resumes the session before it unwinds.
EvaluateReturn ==
    /\ pc = "parked" /\ "evalReturn" \in Does
    /\ CanUnwindHere
    /\ IF st = "Stopped" THEN st' = "Running" /\ arming' = Continue /\ passed' = {}
       ELSE UNCHANGED <<st, arming, passed>>
    /\ Unwind("returning")
    /\ UNCHANGED <<scope, stop, exc, filters, async, table, install, spent>>

\* One that runs break or continue, where a loop is open: the function's, or
\* its caller's before the body has begun and after it has ended.  In a DEBUG
\* action the loop is left later.
EvaluateBreak ==
    /\ pc = "parked" /\ "evalBreak" \in Does
    /\ back = "consult" => stop.reason = "entry"
    /\ CanBreakHere
    /\ IF st = "Stopped" THEN st' = "Running" /\ arming' = Continue /\ passed' = {}
       ELSE UNCHANGED <<st, arming, passed>>
    /\ Unwind("running")
    /\ UNCHANGED <<scope, stop, exc, filters, async, table, install, spent>>

\* One that runs exit.
EvaluateExit ==
    /\ pc = "parked" /\ "evalExit" \in Does
    /\ NoteExit
    /\ Unwind("exiting")
    /\ UNCHANGED <<arming, scope, stop, exc, filters, async, table, driver, entryPending,
                   passed, spent>>

\* exit in a region of what is evaluated, of a DEBUG action or a condition.
SubshellExits ==
    /\ pc \in {"parked", "consult", "condition"} /\ "subshellExit" \in Does
    /\ NoteExit
    /\ HoldsExit(TRUE)
    /\ UNCHANGED <<arming, scope, stop, exc, filters, async, table, driver, entryPending,
                   exec, shells, ghost>>

\* quit and kill end the session and resume it in vain.
Quit ==
    /\ pc = "parked" /\ "quit" \in Does
    /\ st' = "Terminated"
    /\ Unwind("exiting")
    /\ UNCHANGED <<arming, scope, stop, exc, filters, async, table, install, passed, spent>>

Detach ==
    /\ pc = "parked" /\ "detach" \in Does
    /\ driver' = FALSE /\ gate' = FALSE
    /\ GoOn
    /\ UNCHANGED <<session, async, table, entryPending, passed, spent>>

\* Numbers are taken from the entries there are.
MutSetBreakpoint ==
    /\ pc = "parked" /\ nextId <= MaxId
    /\ \E b \in NewBreakpoints :
          LET i == CHOOSE n \in 1..MaxId : n \notin DOMAIN bps
                       /\ \A m \in 1..MaxId : m < n => m \in DOMAIN bps
          IN  bps' = [j \in DOMAIN bps \cup {i} |-> IF j = i THEN b ELSE bps[j]]
    /\ UNCHANGED nextId
    /\ UNCHANGED <<session, async, install, exec, regions, ghost>>

SetBreakpoint ==
    /\ pc = "parked" /\ nextId <= MaxId
    /\ \E b \in NewBreakpoints :
          bps' = [j \in DOMAIN bps \cup {nextId} |-> IF j = nextId THEN b ELSE bps[j]]
    /\ nextId' = nextId + 1
    /\ UNCHANGED <<session, async, install, exec, regions, ghost>>

Delete ==
    /\ pc = "parked"
    /\ \E ids \in {DOMAIN bps} \cup {{i} : i \in DOMAIN bps} : bps' = Without(ids)
    /\ UNCHANGED <<session, async, nextId, install, exec, regions, ghost>>

ClearAt ==
    /\ pc = "parked"
    /\ \E l \in Lines : bps' = Without({i \in DOMAIN bps : bps[i].target = l})
    /\ UNCHANGED <<session, async, nextId, install, exec, regions, ghost>>

\* enable, disable, ignore and condition.
Edit ==
    /\ pc = "parked"
    /\ \E i \in DOMAIN bps, b \in NewBreakpoints, on \in BOOLEAN :
          \E e \in {[bps[i] EXCEPT !.enabled = on], [bps[i] EXCEPT !.ignore = b.ignore],
                   [bps[i] EXCEPT !.condition = b.condition]} :
              bps' = [bps EXCEPT ![i] = e]
    /\ UNCHANGED <<session, async, nextId, install, exec, regions, ghost>>

SetExceptionFilters ==
    /\ pc = "parked"
    /\ filters' \in SUBSET Kinds
    /\ UNCHANGED <<st, arming, scope, stop, exc, async, table, install, exec, regions, ghost>>

-----------------------------------------------------------------------------
\* new and install_debug_session.
Init ==
    /\ st = "Stopped" /\ arming = Continue /\ scope = None
    /\ stop = Stop("entry", None, None, 0)
    /\ exc = None /\ filters = {} /\ async = FALSE
    /\ bps = [i \in {} |-> i] /\ nextId = 1
    /\ driver = TRUE /\ gate = TRUE /\ entryPending = TRUE
    /\ depth = 0 /\ pc = "running" /\ back = "running" /\ seam = NoSeam /\ cond = None
    /\ shells = <<>> /\ held = FALSE
    /\ frames = 0 /\ passed = {} /\ spent = {}

Debuggee ==
    \/ Command \/ Call \/ PassSeam \/ Veto \/ StopAtBreakpoint \/ EvaluateCondition \/ StopAtStep
    \/ ConditionTrue \/ ConditionFalse \/ ConditionExits \/ ExceptionSite
    \/ BoundaryPoll \/ FrameReturned \/ PopAfterStop
    \/ EnterSubshell \/ LeaveSubshell \/ SubshellExits \/ Exits \/ Finish

User ==
    \/ Resume \/ ForceReturn \/ EvaluateReturn \/ EvaluateBreak \/ EvaluateExit
    \/ Quit \/ Detach \/ SetBreakpoint \/ Delete \/ ClearAt \/ Edit
    \/ SetExceptionFilters \/ RequestAsyncStop

Next == Debuggee \/ User

Spec == Init /\ [][Next]_vars

-----------------------------------------------------------------------------
(* What a frontend sees of it. *)

Phase ==
    IF pc \in {"parked", "over"} THEN pc ELSE IF entryPending THEN "starting" ELSE "free"

Frontend == INSTANCE StopProtocol WITH
                phase <- Phase, live <- (driver /\ st # "Terminated"), reason <- stop.reason

-----------------------------------------------------------------------------
(* What the debugger promises. *)

\* The session keeps the stop protocol its frontends are written against:
\* the entry stop comes first, a session that has ended or was detached
\* never parks the debuggee again, a pause stop answers a request and
\* consumes it, and every stop is left by one outcome of the stop loop.
KeepsProtocol == Frontend!Protocol

SessionTypeOK ==
    /\ st \in {"Stopped", "Running", "Terminated"}
    /\ arming.rule \in {"Continue", "StepInto", "StepOver", "Finish", "StepOutOfFrame", "StepInFile"}
    /\ DOMAIN bps \subseteq 1..MaxId
    /\ \A i \in DOMAIN bps : i < nextId /\ bps[i] \in Breakpoint
    /\ exc \in Kinds \cup {None} /\ filters \subseteq Kinds
    /\ {async, driver, gate, entryPending} \subseteq BOOLEAN
    /\ pc \in {"running", "consult", "condition", "parked", "popping", "returning",
               "exiting", "over"}
    /\ back \in {"running", "consult", "condition", "popping"}
    /\ seam.line \in Lines \cup {None}
    /\ depth \in Nat /\ frames \in Nat
    /\ shells \in Seq([depth : Nat, frames : Nat]) /\ held \in BOOLEAN

\* The session is stopped exactly while the executor serves it, whatever
\* leaves the stop loop: a session left stopped would never stop again.
StoppedIsServed ==
    driver /\ st # "Terminated" => (st = "Stopped" <=> pc = "parked" \/ entryPending)

\* exceptionInfo answers with the site of the stop being served, and only
\* at an exception stop.
ExceptionInfoIsCurrent ==
    st = "Stopped" => exc = IF stop.reason = "exception" THEN stop.of ELSE None

\* A one-shot breakpoint that stopped is gone for good, with its number.
OneShotStopsOnce == spent \cap DOMAIN bps = {}

\* No command that the arming should have stopped before has run.
StepsLand ==
    Here /\ st = "Running" =>
        \A p \in passed :
            /\ arming.rule # "StepInto"
            /\ arming.rule = "StepOver" => p.frames > arming.depth
            /\ arming.rule \in {"Finish", "StepOutOfFrame"} => p.frames >= arming.depth
            /\ arming.rule = "StepInFile" => p.file # scope

\* Where commands run, the depth the armings are compared with is the
\* number of function frames on the call stack.
DepthIsFrames == pc \in {"running", "consult"} => depth = frames

\* Of a session that ended only the unwinding of its program is left, unless
\* a condition, a region or what runs at a stop caught the exit on its way.
TerminatedMeansGone == st = "Terminated" /\ ~held => pc \in {"exiting", "over"}
=============================================================================
